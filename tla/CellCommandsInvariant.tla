------------------------ MODULE CellCommandsInvariant ------------------------
(***************************************************************************)
(* The inductive invariant of CellCommands, the facts about its operators  *)
(* and about single steps that the other proofs rest on, and the steps of  *)
(* the raft library, of the other replicas and of the event loop.          *)
(***************************************************************************)
EXTENDS CellCommands, SequenceTheorems, WellFoundedInduction, TLAPS

-----------------------------------------------------------------------------
\* The operators the model is built from.

\* A nonempty set of naturals has a least element.
LEMMA LeastElement ==
  ASSUME NEW S \in SUBSET Nat, S # {}
  PROVE  \E x \in S : \A y \in S : x <= y
<1>1. \E x \in S : \A y \in S : <<y, x>> \notin OpToRel(<, Nat)
  BY NatLessThanWellFounded, WFMin, Zenon
<1>2. PICK x \in S : \A y \in S : <<y, x>> \notin OpToRel(<, Nat)
  BY <1>1, Zenon
<1>3. \A y \in S : ~(y < x)
  BY <1>2, Zenon DEF OpToRel
<1> QED
  BY <1>3

\* Min of a nonempty set of naturals: the least popped index of findCB and of the pending commands.
LEMMA MinNat ==
  ASSUME NEW S \in SUBSET Nat, S # {}
  PROVE  Min(S) \in S /\ \A y \in S : Min(S) <= y
BY LeastElement, Zenon DEF Min

\* Max of a nonempty bounded set of naturals.
LEMMA MaxNat ==
  ASSUME NEW n \in Nat, NEW S \in SUBSET (0..n), S # {}
  PROVE  Max(S) \in S /\ \A y \in S : Max(S) >= y
<1> DEFINE T == {n - x : x \in S}
<1>1. T \subseteq Nat
  OBVIOUS
<1>0. T # {}
  <2>1. PICK x \in S : TRUE
    BY Zenon
  <2>2. n - x \in T
    BY <2>1
  <2> QED BY <2>2
<1>2. PICK t \in T : \A u \in T : t <= u
  BY <1>0, <1>1, LeastElement, Zenon
<1>3. PICK x \in S : t = n - x
  BY <1>2
<1>4. \A y \in S : x >= y
  <2> TAKE y \in S
  <2>1. n - x <= n - y
    BY <1>2, <1>3
  <2> QED BY <2>1
<1> QED
  BY <1>4, Zenon DEF Max

\* Upto is the prefix of length k, or the whole sequence.
LEMMA UptoProps ==
  ASSUME NEW S, NEW s \in Seq(S), NEW k \in Nat
  PROVE  /\ Upto(s, k) \in Seq(S)
         /\ Len(Upto(s, k)) = IF k < Len(s) THEN k ELSE Len(s)
         /\ \A i \in 1..Len(Upto(s, k)) : Upto(s, k)[i] = s[i]
<1> DEFINE m == IF k < Len(s) THEN k ELSE Len(s)
<1>1. m \in Nat /\ m <= Len(s)
  BY LenProperties
<1>2. \A i \in 1..m : s[i] \in S
  BY <1>1, ElementOfSeq
<1> QED
  BY <1>1, <1>2, SubSeqProperties DEF Upto

\* From is the suffix that starts at k.
LEMMA FromProps ==
  ASSUME NEW S, NEW s \in Seq(S), NEW k \in Nat \ {0}
  PROVE  /\ From(s, k) \in Seq(S)
         /\ Len(From(s, k)) = IF k <= Len(s) THEN Len(s) - k + 1 ELSE 0
         /\ \A i \in 1..Len(From(s, k)) : From(s, k)[i] = s[k + i - 1]
<1>1. Len(s) \in Nat
  BY LenProperties
<1>2. \A i \in k..Len(s) : s[i] \in S
  BY <1>1, ElementOfSeq
<1> QED
  BY <1>1, <1>2, SubSeqProperties DEF From

\* The elements of a sequence are the values at its indices.
LEMMA RangeIn ==
  ASSUME NEW S, NEW s \in Seq(S)
  PROVE  /\ Range(s) \subseteq S
         /\ \A i \in 1..Len(s) : s[i] \in Range(s)
         /\ \A x \in Range(s) : \E i \in 1..Len(s) : x = s[i]
BY LenProperties DEF Range

\* A prefix has no other elements.
LEMMA RangeUpto ==
  ASSUME NEW S, NEW s \in Seq(S), NEW k \in Nat
  PROVE  Range(Upto(s, k)) \subseteq Range(s)
<1>1. Len(Upto(s, k)) <= Len(s) /\ Len(s) \in Nat /\ Len(Upto(s, k)) \in Nat
  BY UptoProps, LenProperties
<1> QED
  BY <1>1, UptoProps, RangeIn

\* A suffix has no other elements.
LEMMA RangeFrom ==
  ASSUME NEW S, NEW s \in Seq(S), NEW k \in Nat \ {0}
  PROVE  Range(From(s, k)) \subseteq Range(s)
<1>1. Len(s) \in Nat /\ Len(From(s, k)) \in Nat
  BY FromProps, LenProperties
<1>2. \A i \in 1..Len(From(s, k)) : k + i - 1 \in 1..Len(s)
  BY <1>1, FromProps
<1>3. \A i \in 1..Len(From(s, k)) : From(s, k)[i] \in Range(s)
  BY <1>1, <1>2, FromProps, RangeIn
<1>4. \A x \in Range(From(s, k)) : \E i \in 1..Len(From(s, k)) : x = From(s, k)[i]
  BY FromProps, RangeIn, Zenon
<1> QED
  BY <1>3, <1>4

-----------------------------------------------------------------------------
\* The inductive invariant.

\* The event loop hands out what is committed, and a snapshot that waits is the
\* whole log.
Indices ==
  /\ loop.lastReadyIndex <= raft.commit /\ raft.commit <= Len(group.chosen)
  /\ raft.snap > 0 => raft.snap = raft.commit /\ Len(raft.log) = raft.commit
                      /\ raft.role = "follower"

\* A queued job takes the applied index from one value to the next.  Only the job
\* in progress, on a replica that was just removed, may have nothing left to apply.
Moves(j, inProgress, from, to) ==
  /\ from <= to
  /\ j.type = "apply" => /\ j.next = from + 1 /\ j.upto = to
                         /\ j.next <= j.upto \/ (inProgress /\ worker.pendingRemove)
  /\ j.type = "register" => j.applied = to
  /\ j.type \in {"propose", "snap"} => to = from

\* The jobs, run one after the other, take the applied index from the delegate's to
\* last without a gap; pos[i] is its value after the i-th job.
Leads(pos, jobs, last) ==
  /\ worker.applied <= pos[0] /\ (worker.alive => worker.applied = pos[0])
  /\ pos[Len(jobs)] = last
  /\ \A i \in 1..Len(jobs) : Moves(jobs[i], i = 1, pos[i - 1], pos[i])

Queue(jobs, last) ==
  \E pos \in [0..Len(jobs) -> 0..Len(group.chosen)] : Leads(pos, jobs, last)

\* The event loop has handed out everything up to lastReadyIndex, exactly once.
Contiguous == Queue(worker.jobs, loop.lastReadyIndex)

\* AppliedInOrder alone is not inductive: the jobs still queued must be known to be
\* the entries that follow.
IndInv == TypeOK /\ Indices /\ Contiguous /\ AppliedInOrder

-----------------------------------------------------------------------------
\* Facts about single steps.

\* The queue after a step that only appended to it.
LEMMA QueueFrame ==
  ASSUME NEW jobs, NEW last, Queue(jobs, last),
         worker'.jobs = jobs, loop'.lastReadyIndex = last, worker'.applied = worker.applied,
         worker'.alive = worker.alive, worker'.pendingRemove = worker.pendingRemove,
         Len(group.chosen) \in Nat, Len(group'.chosen) \in Nat,
         Len(group.chosen) <= Len(group'.chosen)
  PROVE  Contiguous'
<1>1. PICK pos \in [0..Len(jobs) -> 0..Len(group.chosen)] : Leads(pos, jobs, last)
  BY DEF Queue
<1>2. pos \in [0..Len(worker'.jobs) -> 0..Len(group'.chosen)]
  OBVIOUS
<1>3. Leads(pos, worker.jobs, loop.lastReadyIndex)'
  BY <1>1 DEF Leads, Moves
<1> QED
  BY <1>2, <1>3 DEF Contiguous, Queue

\* A job that continues the queue keeps it contiguous: the event loop appends to the
\* worker's FIFO queue and nothing else writes to it.
LEMMA QueueAppend ==
  ASSUME NEW jobs \in Seq(Job), NEW last, Queue(jobs, last), NEW job \in Job,
         NEW to \in 0..Len(group.chosen), Moves(job, FALSE, last, to)
  PROVE  Queue(Append(jobs, job), to)
<1> DEFINE n == Len(jobs)
           more == Append(jobs, job)
<1>1. PICK pos \in [0..n -> 0..Len(group.chosen)] : Leads(pos, jobs, last)
  BY DEF Queue
<1>2. n \in Nat /\ Len(more) = n + 1
      /\ (\A i \in 1..n : more[i] = jobs[i]) /\ more[n + 1] = job
  BY AppendProperties, LenProperties
<1> HIDE DEF more
<1>3. PICK new \in [0..(n + 1) -> 0..Len(group.chosen)] :
        new[n + 1] = to /\ \A i \in 0..n : new[i] = pos[i]
  <2> DEFINE f == [i \in 0..(n + 1) |-> IF i = n + 1 THEN to ELSE pos[i]]
  <2>1. f \in [0..(n + 1) -> 0..Len(group.chosen)]
        /\ f[n + 1] = to /\ \A i \in 0..n : f[i] = pos[i]
    BY <1>2
  <2> QED BY <2>1
<1>4. ASSUME NEW i \in 1..Len(more) PROVE Moves(more[i], i = 1, new[i - 1], new[i])
  <2>1. CASE i = n + 1
    <3>1. new[i - 1] = last /\ new[i] = to /\ more[i] = job
      BY <1>1, <1>2, <1>3, <2>1 DEF Leads
    <3> QED BY <3>1 DEF Moves
  <2>2. CASE i # n + 1
    <3>1. i \in 1..n /\ i - 1 \in 0..n /\ i \in 0..n
      BY <1>2, <2>2
    <3> QED BY <1>1, <1>2, <1>3, <3>1 DEF Leads
  <2> QED BY <2>1, <2>2
<1>5. Leads(new, more, to)
  BY <1>1, <1>2, <1>3, <1>4 DEF Leads
<1> QED
  BY <1>2, <1>3, <1>5 DEF Queue, more

\* The queue after the job in progress is done.
LEMMA TailContiguous ==
  ASSUME NEW pos \in [0..Len(worker.jobs) -> 0..Len(group.chosen)],
         Leads(pos, worker.jobs, loop.lastReadyIndex),
         worker.jobs \in Seq(Job), worker.jobs # <<>>, group'.chosen = group.chosen,
         worker'.jobs = Tail(worker.jobs), loop'.lastReadyIndex = loop.lastReadyIndex,
         worker'.applied <= pos[1], worker'.alive => worker'.applied = pos[1]
  PROVE  Contiguous'
<1> DEFINE n == Len(worker.jobs)
<1>1. n \in Nat \ {0} /\ Len(worker'.jobs) = n - 1
      /\ \A i \in 1..(n - 1) : worker'.jobs[i] = worker.jobs[i + 1]
  BY HeadTailProperties, EmptySeq, LenProperties
<1>2. PICK new \in [0..(n - 1) -> 0..Len(group.chosen)] : \A i \in 0..(n - 1) : new[i] = pos[i + 1]
  <2> DEFINE f == [i \in 0..(n - 1) |-> pos[i + 1]]
  <2>1. f \in [0..(n - 1) -> 0..Len(group.chosen)] /\ \A i \in 0..(n - 1) : f[i] = pos[i + 1]
    BY <1>1
  <2> QED BY <2>1, Zenon
<1>3. ASSUME NEW i \in 1..(n - 1) PROVE Moves(worker.jobs[i], i = 1, new[i - 1], new[i])'
  <2>1. Moves(worker.jobs[i + 1], FALSE, pos[i], pos[i + 1]) /\ worker'.jobs[i] = worker.jobs[i + 1]
        /\ new[i] = pos[i + 1] /\ new[i - 1] = pos[i]
    <3>1. i + 1 \in 1..n /\ i \in 0..(n - 1) /\ i - 1 \in 0..(n - 1) /\ i + 1 # 1
          /\ (i + 1) - 1 = i /\ (i - 1) + 1 = i
      BY <1>1
    <3>2. Moves(worker.jobs[i + 1], i + 1 = 1, pos[(i + 1) - 1], pos[i + 1])
      BY <3>1 DEF Leads
    <3>3. Moves(worker.jobs[i + 1], FALSE, pos[i], pos[i + 1])
      BY <3>1, <3>2 DEF Moves
    <3> QED BY <1>1, <1>2, <3>1, <3>3, Zenon
  <2> QED BY <2>1 DEF Moves
<1>4. new[0] = pos[1] /\ new[n - 1] = loop.lastReadyIndex
  BY <1>1, <1>2 DEF Leads
<1>5. Leads(new, worker.jobs, loop.lastReadyIndex)'
  BY <1>1, <1>3, <1>4 DEF Leads
<1> QED
  BY <1>1, <1>2, <1>5 DEF Contiguous, Queue

\* The queue after one entry of the job in progress.
LEMMA StepContiguous ==
  ASSUME NEW pos \in [0..Len(worker.jobs) -> 0..Len(group.chosen)],
         Leads(pos, worker.jobs, loop.lastReadyIndex),
         worker.jobs \in Seq(Job), worker.jobs # <<>>, group'.chosen = group.chosen,
         NEW job \in Job, job.type = "apply", job.next = pos[0] + 2, job.upto = pos[1],
         worker'.jobs = [worker.jobs EXCEPT ![1] = job], pos[0] < pos[1],
         worker'.pendingRemove \/ pos[0] + 2 <= pos[1],
         loop'.lastReadyIndex = loop.lastReadyIndex, worker'.applied = pos[0] + 1
  PROVE  Contiguous'
<1> DEFINE n == Len(worker.jobs)
<1>1. n \in Nat \ {0} /\ Len(worker'.jobs) = n /\ worker'.jobs[1] = job
      /\ \A i \in 2..n : worker'.jobs[i] = worker.jobs[i]
  BY EmptySeq, LenProperties, ExceptSeq
<1>2. PICK new \in [0..n -> 0..Len(group.chosen)] :
        new[0] = pos[0] + 1 /\ \A i \in 1..n : new[i] = pos[i]
  <2> DEFINE f == [i \in 0..n |-> IF i = 0 THEN pos[0] + 1 ELSE pos[i]]
  <2>1. pos[0] + 1 \in 0..Len(group.chosen)
    BY <1>1, SMTT(30)
  <2>2. f \in [0..n -> 0..Len(group.chosen)] /\ f[0] = pos[0] + 1 /\ \A i \in 1..n : f[i] = pos[i]
    BY <1>1, <2>1
  <2> QED BY <2>2, Zenon
<1>3. ASSUME NEW i \in 1..n PROVE Moves(worker.jobs[i], i = 1, new[i - 1], new[i])'
  <2>1. CASE i = 1
    <3>0. i - 1 = 0 /\ 1 \in 1..n /\ 0 \in 0..n /\ 1 \in 0..n
      BY <1>1, <2>1
    <3>2. pos[0] \in 0..Len(group.chosen) /\ pos[1] \in 0..Len(group.chosen)
      BY <3>0
    <3>1. new[i - 1] = pos[0] + 1 /\ new[i] = pos[1] /\ pos[0] \in Nat /\ pos[1] \in Nat
      <4>1. pos[0] \in Nat /\ pos[1] \in Nat
        BY <3>2
      <4>2. new[i - 1] = pos[0] + 1
        BY <1>2, <3>0
      <4>3. new[i] = pos[1]
        BY <1>2, <2>1, <3>0
      <4> QED BY <4>1, <4>2, <4>3
    <3> QED BY <1>1, <2>1, <3>1 DEF Moves
  <2>2. CASE i # 1
    <3>1. Moves(worker.jobs[i], FALSE, pos[i - 1], pos[i]) /\ worker'.jobs[i] = worker.jobs[i]
          /\ new[i] = pos[i] /\ new[i - 1] = pos[i - 1]
      <4>1. i \in 2..n /\ i - 1 \in 1..n
        BY <1>1, <2>2
      <4>2. Moves(worker.jobs[i], i = 1, pos[i - 1], pos[i])
        BY <1>1 DEF Leads
      <4>3. Moves(worker.jobs[i], FALSE, pos[i - 1], pos[i])
        BY <2>2, <4>2 DEF Moves
      <4> QED BY <1>1, <1>2, <4>1, <4>3, Zenon
    <3> QED BY <3>1, <2>2 DEF Moves
  <2> QED BY <2>1, <2>2
<1>4. new[n] = loop.lastReadyIndex /\ new[0] = worker'.applied /\ new[0] \in Nat
  <2>1. n \in 1..n /\ 0 \in 0..n
    BY <1>1
  <2>2. pos[n] = loop.lastReadyIndex
    BY DEF Leads
  <2> QED BY <1>2, <2>1, <2>2, SMTT(30)
<1>5. Leads(new, worker.jobs, loop.lastReadyIndex)'
  BY <1>1, <1>3, <1>4 DEF Leads
<1> QED
  BY <1>1, <1>2, <1>5 DEF Contiguous, Queue

\* Answering keeps the types, and adds no fault but "nil".
Faults == {"none", "nil", "uuid", "applying", "index"}

\* respAll and Free keep the types of the cmd objects, the pool and the answers.
LEMMA RespAllType ==
  ASSUME TypeOK, NEW q \in Seq(Slots), NEW how, \A s \in Range(q) : how[s] \in Kinds,
         NEW bad \in Faults, respAll(q, how, bad)
  PROVE  answers' \in [Req -> Seq(Kinds)] /\ cmds' \in [Slots -> Cmd] /\ fault' \in {"nil", bad}
<1>1. cmds' \in [Slots -> Cmd]
  <2>1. NoCmd \in Cmd
    BY DEF NoCmd, Cmd
  <2> QED BY <2>1 DEF respAll, TypeOK
<1>2. answers' \in [Req -> Seq(Kinds)]
  <2> SUFFICES ASSUME NEW r \in Req PROVE answers'[r] \in Seq(Kinds) /\ answers' = [x \in Req |-> answers'[x]]
    BY DEF respAll
  <2>1. answers[r] \in Seq(Kinds)
    BY DEF TypeOK
  <2>2. CASE \E s \in Range(q) : Holds(s, r)
    <3>1. (CHOOSE s \in Range(q) : Holds(s, r)) \in Range(q)
      BY <2>2
    <3> QED BY <2>1, <2>2, <3>1, AppendProperties DEF respAll
  <2>3. CASE ~ \E s \in Range(q) : Holds(s, r)
    BY <2>1, <2>3 DEF respAll
  <2> QED BY <2>2, <2>3
<1>3. fault' \in {"nil", bad}
  BY DEF respAll
<1> QED
  BY <1>1, <1>2, <1>3

\* So does the answer to a single command.
LEMMA RespType ==
  ASSUME TypeOK, NEW q \in Seq(Slots), NEW kind \in Kinds, resp(q, kind)
  PROVE  answers' \in [Req -> Seq(Kinds)] /\ cmds' \in [Slots -> Cmd] /\ fault' \in {"nil", "none"}
BY RespAllType DEF resp, Faults

-----------------------------------------------------------------------------
\* Initially, and the steps of the raft library and the other replicas.

\* A started replica with an empty log satisfies the inductive invariant.
LEMMA InitInd == Init => IndInv
<1> SUFFICES ASSUME Init PROVE IndInv
  OBVIOUS
<1>1. TypeOK
  BY BoundsAssumption DEF Init, TypeOK, RaftState, GroupState, LoopState, WorkerState, NoCmd, Cmd, Role
<1>2. Indices /\ AppliedInOrder
  BY DEF Init, Indices, AppliedInOrder
<1>3. Contiguous
  <2>1. PICK pos \in [0..0 -> 0..0] : TRUE
    <3>1. [i \in 0..0 |-> 0] \in [0..0 -> 0..0]
      OBVIOUS
    <3> QED BY <3>1, Zenon
  <2>2. pos[0] = 0
    OBVIOUS
  <2>3. pos \in [0..Len(worker.jobs) -> 0..Len(group.chosen)] /\ Len(worker.jobs) = 0
        /\ worker.applied = 0 /\ loop.lastReadyIndex = 0
    BY DEF Init
  <2> QED BY <2>2, <2>3 DEF Contiguous, Queue, Leads
<1> QED
  BY <1>1, <1>2, <1>3 DEF IndInv

\* What the raft library puts in the log by itself are entries.
LEMMA EntryTypes ==
  /\ \A t \in Nat : EmptyEntry(t) \in Entry
  /\ \A type \in {"empty", "normal", "conf"}, t \in Nat, rs \in Seq(Req), v \in Nat :
        [type |-> type, term |-> t, reqs |-> rs, ver |-> v] \in Entry
BY DEF EmptyEntry, Entry

\* The fields of the raft state, one by one.
LEMMA RaftFields ==
  ASSUME NEW r \in RaftState
  PROVE  /\ r.term \in Nat /\ r.role \in Role /\ r.log \in Seq(Entry) /\ r.commit \in Nat
         /\ r.soft \in Role /\ r.pendingConf \in BOOLEAN /\ r.readOnly \in Seq(Seq(Req))
         /\ r.readStates \in Seq(Seq(Req)) /\ r.snap \in Nat /\ r.sent \in Nat
         /\ Len(r.log) \in Nat /\ Len(r.readOnly) \in Nat /\ Len(r.readStates) \in Nat
<1>1. /\ r.term \in Nat /\ r.role \in Role /\ r.log \in Seq(Entry) /\ r.commit \in Nat
      /\ r.soft \in Role /\ r.pendingConf \in BOOLEAN /\ r.readOnly \in Seq(Seq(Req))
      /\ r.readStates \in Seq(Seq(Req)) /\ r.snap \in Nat /\ r.sent \in Nat
  BY DEF RaftState
<1> QED BY <1>1, LenProperties

\* The fields of the group state, one by one.
LEMMA GroupFields ==
  ASSUME NEW g \in GroupState
  PROVE  /\ g.maxTerm \in Nat /\ g.lead \in {"none", "me", "rest"} /\ g.rest \in Seq(Entry)
         /\ g.chosen \in Seq(Entry) /\ g.foreign \in Nat /\ g.snapshots \in Nat
         /\ Len(g.rest) \in Nat /\ Len(g.chosen) \in Nat
<1>1. /\ g.maxTerm \in Nat /\ g.lead \in {"none", "me", "rest"} /\ g.rest \in Seq(Entry)
      /\ g.chosen \in Seq(Entry) /\ g.foreign \in Nat /\ g.snapshots \in Nat
  BY DEF GroupState
<1> QED BY <1>1, LenProperties

\* The fields of the event loop's state, one by one.
LEMMA LoopFields ==
  ASSUME NEW l \in LoopState
  PROVE  /\ l.requests \in Seq(Req) /\ l.pendingReads \in Seq(Slots) /\ l.readyCnt \in Nat
         /\ l.appliedIndex \in Nat /\ l.appliedIndexTerm \in Nat /\ l.lastReadyIndex \in Nat
         /\ l.ver \in Nat /\ l.results \in Seq(Result) /\ l.applyingSnap \in BOOLEAN
         /\ l.disposed \in BOOLEAN /\ l.exited \in BOOLEAN
         /\ Len(l.requests) \in Nat /\ Len(l.pendingReads) \in Nat
<1>1. /\ l.requests \in Seq(Req) /\ l.pendingReads \in Seq(Slots) /\ l.readyCnt \in Nat
      /\ l.appliedIndex \in Nat /\ l.appliedIndexTerm \in Nat /\ l.lastReadyIndex \in Nat
      /\ l.ver \in Nat /\ l.results \in Seq(Result) /\ l.applyingSnap \in BOOLEAN
      /\ l.disposed \in BOOLEAN /\ l.exited \in BOOLEAN
  BY DEF LoopState
<1> QED BY <1>1, LenProperties

\* The fields of the apply worker's state, one by one.
LEMMA WorkerFields ==
  ASSUME NEW w \in WorkerState
  PROVE  /\ w.jobs \in Seq(Job) /\ w.alive \in BOOLEAN /\ w.pendingCMDs \in Seq(Slots)
         /\ w.pendingChangePeerCMD \in Slots \cup {Nil} /\ w.applied \in Nat
         /\ w.appliedIndexTerm \in Nat /\ w.ver \in Nat /\ w.pendingRemove \in BOOLEAN
         /\ w.clearing \in BOOLEAN /\ w.cleared \in BOOLEAN
         /\ Len(w.jobs) \in Nat /\ Len(w.pendingCMDs) \in Nat
<1>1. /\ w.jobs \in Seq(Job) /\ w.alive \in BOOLEAN /\ w.pendingCMDs \in Seq(Slots)
      /\ w.pendingChangePeerCMD \in Slots \cup {Nil} /\ w.applied \in Nat
      /\ w.appliedIndexTerm \in Nat /\ w.ver \in Nat /\ w.pendingRemove \in BOOLEAN
      /\ w.clearing \in BOOLEAN /\ w.cleared \in BOOLEAN
  BY DEF WorkerState
<1> QED BY <1>1, LenProperties

\* Elections, proposals of other replicas, appends, commits, confirmed reads and
\* snapshots of the raft library keep the invariant: chosen entries stay chosen.
LEMMA RaftInd == IndInv /\ Raft => IndInv'
<1> SUFFICES ASSUME IndInv, Raft PROVE IndInv'
  OBVIOUS
<1>0. worker' = worker /\ loop' = loop /\ fault' = fault
  BY Zenon DEF Raft, BecomeLeader, OtherBecomesLeader, BecomeFollower, OtherProposes,
         AppendFromLeader, Choose, CommitTo, RestoreSnapshot, ConfirmReads
<1>a. /\ raft \in RaftState /\ group \in GroupState /\ loop \in LoopState
      /\ TypeOK /\ Indices /\ Contiguous /\ AppliedInOrder
  BY DEF IndInv, TypeOK
<1>c. /\ raft.log \in Seq(Entry) /\ group.rest \in Seq(Entry) /\ group.chosen \in Seq(Entry)
      /\ Len(raft.log) \in Nat /\ Len(group.rest) \in Nat /\ Len(group.chosen) \in Nat
      /\ group.maxTerm \in Nat /\ raft.commit \in Nat /\ raft.snap \in Nat
      /\ loop.lastReadyIndex \in Nat
  BY <1>a, RaftFields, GroupFields, LoopFields
<1>e. <<>> \in Seq(Seq(Req)) /\ <<>> \in Seq(Req) /\ "leader" \in Role /\ "follower" \in Role
  BY EmptySeq DEF Role
<1>r. raft \in RaftState /\ group \in GroupState
  BY <1>a
<1>b. SUFFICES /\ raft' \in RaftState /\ group' \in GroupState /\ Indices'
               /\ Len(group.chosen) <= Len(group'.chosen)
               /\ cmds' = cmds /\ used' = used /\ answers' = answers /\ reads' = reads
  <2>1. TypeOK'
    BY <1>0, <1>a, <1>b DEF TypeOK
  <2>2. group'.chosen \in Seq(Entry)
    BY <1>b DEF GroupState
  <2>3. Contiguous'
    <3>1. Len(group'.chosen) \in Nat /\ Queue(worker.jobs, loop.lastReadyIndex)
      BY <1>a, <2>2, LenProperties DEF Contiguous
    <3> QED BY <1>0, <1>b, <1>c, <3>1, QueueFrame
  <2> QED BY <1>0, <1>a, <1>b, <2>1, <2>3 DEF AppliedInOrder, IndInv
<1>1. CASE BecomeLeader
  <2>1. group.maxTerm + 1 \in Nat /\ EmptyEntry(group.maxTerm + 1) \in Entry
    BY <1>c, EntryTypes
  <2>2. Append(raft.log, EmptyEntry(group.maxTerm + 1)) \in Seq(Entry)
    BY <1>c, <2>1, AppendProperties
  <2>3. PICK conf \in BOOLEAN : raft' = [raft EXCEPT !.role = "leader", !.term = group.maxTerm + 1,
                    !.readOnly = <<>>, !.pendingConf = conf,
                    !.log = Append(raft.log, EmptyEntry(group.maxTerm + 1))]
    <3> DEFINE conf == \E i \in raft.commit + 1 .. Len(raft.log) : raft.log[i].type = "conf"
    <3>1. conf \in BOOLEAN
      OBVIOUS
    <3>2. raft' = [raft EXCEPT !.role = "leader", !.term = group.maxTerm + 1,
                    !.readOnly = <<>>, !.pendingConf = conf,
                    !.log = Append(raft.log, EmptyEntry(group.maxTerm + 1))]
      BY <1>1, <1>a, Zenon DEF BecomeLeader, Reset, RaftState
    <3> HIDE DEF conf
    <3> QED BY <3>1, <3>2, Zenon
  <2>4. raft' \in RaftState
    BY <1>r, <1>e, <2>1, <2>2, <2>3, Zenon DEF RaftState
  <2>5. raft'.commit = raft.commit /\ raft'.snap = raft.snap
    BY <1>a, <2>3 DEF RaftState
  <2>6. group' \in GroupState
    BY <1>1, <1>a, <2>1, Zenon DEF BecomeLeader, GroupState
  <2>7. group'.chosen = group.chosen
    BY <1>1, <1>a DEF BecomeLeader, GroupState
  <2>8. raft.snap = 0
    BY <1>1 DEF BecomeLeader
  <2> QED BY <1>0, <1>1, <1>a, <1>c, <2>4, <2>5, <2>6, <2>7, <2>8 DEF BecomeLeader, Indices
<1>2. CASE OtherBecomesLeader
  <2>1. PICK base \in {Upto(raft.log, k) : k \in 0..raft.sent}
                      \cup {Upto(group.rest, k) : k \in 0..Len(group.rest)} :
           group' = [group EXCEPT !.maxTerm = @ + 1, !.lead = "rest",
                                  !.rest = Append(base, EmptyEntry(group.maxTerm + 1))]
    BY <1>2, Zenon DEF OtherBecomesLeader
  <2>2. base \in Seq(Entry)
    <3>1. raft.sent \in Nat
      BY <1>r, RaftFields
    <3>2. \A k \in Nat : Upto(raft.log, k) \in Seq(Entry) /\ Upto(group.rest, k) \in Seq(Entry)
      BY <1>c, UptoProps
    <3>3. \A k \in 0..raft.sent : k \in Nat
      BY <3>1
    <3>4. \A k \in 0..Len(group.rest) : k \in Nat
      BY <1>c
    <3> QED BY <3>2, <3>3, <3>4, Zenon
  <2>3. group.maxTerm + 1 \in Nat /\ EmptyEntry(group.maxTerm + 1) \in Entry
    BY <1>c, EntryTypes
  <2>4. Append(base, EmptyEntry(group.maxTerm + 1)) \in Seq(Entry)
    BY <2>2, <2>3, AppendProperties
  <2>5. group' \in GroupState
    BY <1>a, <2>1, <2>3, <2>4, Zenon DEF GroupState
  <2>6. group'.chosen = group.chosen
    BY <1>a, <2>1 DEF GroupState
  <2> QED BY <1>0, <1>2, <1>a, <1>c, <2>5, <2>6 DEF OtherBecomesLeader, Indices
<1>3. CASE BecomeFollower
  <2>1. group' \in GroupState
    BY <1>3, <1>a DEF BecomeFollower, GroupState
  <2>2. group'.chosen = group.chosen
    BY <1>3, <1>a DEF BecomeFollower, GroupState
  <2>3. PICK t \in Nat : raft' = [raft EXCEPT !.role = "follower", !.term = t, !.readOnly = <<>>,
                                             !.pendingConf = FALSE]
    BY <1>3, <1>a, <1>c, Zenon DEF BecomeFollower, Reset, RaftState
  <2>4. raft' \in RaftState
    BY <1>r, <1>e, <2>3, Zenon DEF RaftState
  <2>5. raft'.commit = raft.commit /\ raft'.snap = raft.snap
        /\ raft'.log = raft.log /\ raft'.role = "follower"
    BY <1>a, <2>3 DEF RaftState
  <2> QED BY <1>0, <1>3, <1>a, <1>c, <2>1, <2>2, <2>4, <2>5 DEF BecomeFollower, Indices
<1>4. ASSUME NEW type \in ForeignTypes, OtherProposes(type) PROVE <1>b!1
  <2>1. type \in {"empty", "normal", "conf"}
    BY BoundsAssumption
  <2>0. [type |-> type, term |-> group.maxTerm, reqs |-> <<>>, ver |-> 1] \in Entry
    BY <1>c, <1>e, <2>1, EntryTypes, Zenon
  <2>2. PICK e \in Entry : group' = [group EXCEPT !.foreign = group.foreign + 1,
                                                 !.rest = Append(group.rest, e)]
    BY <1>4, <2>0, Zenon DEF OtherProposes
  <2>3. Append(group.rest, e) \in Seq(Entry) /\ group.foreign + 1 \in Nat
    BY <1>c, <1>r, GroupFields, AppendProperties
  <2>4. group' \in GroupState
    BY <1>r, <2>2, <2>3, Zenon DEF GroupState
  <2>5. group'.chosen = group.chosen
    BY <1>a, <2>2 DEF GroupState
  <2> QED BY <1>0, <1>4, <1>a, <1>c, <2>4, <2>5 DEF OtherProposes, Indices
<1>5. ASSUME NEW k \in 1..Len(group.rest), AppendFromLeader(k) PROVE <1>b!1
  <2>1. Upto(group.rest, k) \in Seq(Entry) /\ k \in Nat
    BY <1>c, UptoProps
  <2>2. raft' = [raft EXCEPT !.log = Upto(group.rest, k), !.sent = k] /\ raft.snap = 0
    BY <1>5 DEF AppendFromLeader
  <2>3. raft' \in RaftState
    BY <1>a, <2>1, <2>2, Zenon DEF RaftState
  <2>4. raft'.commit = raft.commit /\ raft'.snap = 0
    BY <1>a, <2>2 DEF RaftState
  <2> QED BY <1>0, <1>5, <1>a, <1>c, <2>3, <2>4 DEF AppendFromLeader, Indices
<1>6. ASSUME NEW k \in 1..(Len(group.rest) + Len(raft.log)), Choose(k) PROVE <1>b!1
  <2>1. PICK log \in Seq(Entry) : /\ k \in Len(group.chosen) + 1 .. Len(log)
                                  /\ group' = [group EXCEPT !.chosen = Upto(log, k)]
    BY <1>6, <1>c, Zenon DEF Choose
  <2>2. Upto(log, k) \in Seq(Entry) /\ Len(Upto(log, k)) = k /\ k >= Len(group.chosen)
    <3>1. k \in Nat /\ k <= Len(log) /\ Len(log) \in Nat /\ k >= Len(group.chosen)
      BY <1>c, <2>1, LenProperties
    <3> QED BY <3>1, UptoProps
  <2>3. group' \in GroupState
    BY <1>a, <2>1, <2>2, Zenon DEF GroupState
  <2>4. group'.chosen = Upto(log, k)
    BY <1>a, <2>1 DEF GroupState
  <2> QED BY <1>0, <1>6, <1>a, <1>c, <2>2, <2>3, <2>4 DEF Choose, Indices
<1>7. ASSUME NEW k \in 1..Len(group.chosen), CommitTo(k) PROVE <1>b!1
  <2>1. k \in raft.commit + 1 .. Min({Len(raft.log), Len(group.chosen)})
    BY <1>7 DEF CommitTo
  <2>2. Min({Len(raft.log), Len(group.chosen)}) <= Len(raft.log)
        /\ Min({Len(raft.log), Len(group.chosen)}) \in Nat
    <3> DEFINE S == {Len(raft.log), Len(group.chosen)}
    <3>1. S \in SUBSET Nat /\ S # {}
      BY <1>c
    <3>2. Min(S) \in S /\ \A y \in S : Min(S) <= y
      BY <3>1, MinNat, Zenon
    <3> QED BY <3>1, <3>2
  <2>3. raft' = [raft EXCEPT !.commit = k] /\ group' = group /\ k \in Nat
    BY <1>7 DEF CommitTo
  <2>4. raft.snap = 0
    BY <1>a, <1>c, <2>1, <2>2 DEF Indices
  <2>5. raft' \in RaftState
    BY <1>a, <2>3, Zenon DEF RaftState
  <2>6. raft'.commit = k /\ raft'.snap = 0
    BY <1>a, <2>3, <2>4 DEF RaftState
  <2>7. k >= raft.commit
    BY <1>c, <2>1, <2>2
  <2> QED BY <1>0, <1>7, <1>a, <1>c, <2>3, <2>5, <2>6, <2>7 DEF CommitTo, Indices
<1>8. ASSUME NEW k \in 1..Len(group.chosen), RestoreSnapshot(k) PROVE <1>b!1
  <2>1. Upto(group.chosen, k) \in Seq(Entry) /\ Len(Upto(group.chosen, k)) = k /\ k \in Nat
    BY <1>c, UptoProps
  <2>2. /\ raft' = [raft EXCEPT !.log = Upto(group.chosen, k), !.sent = k, !.commit = k, !.snap = k]
        /\ raft.role = "follower" /\ k >= raft.commit
    BY <1>8, <1>c DEF RestoreSnapshot
  <2>3. raft' \in RaftState
    BY <1>a, <2>1, <2>2, Zenon DEF RaftState
  <2>4. raft'.commit = k /\ raft'.snap = k /\ Len(raft'.log) = k /\ raft'.role = "follower"
    BY <1>a, <2>1, <2>2 DEF RaftState
  <2>5. group' \in GroupState
    BY <1>8, <1>a, SMTT(30) DEF RestoreSnapshot, GroupState
  <2>6. group'.chosen = group.chosen
    BY <1>8, <1>a DEF RestoreSnapshot, GroupState
  <2> QED BY <1>0, <1>8, <1>a, <1>c, <2>2, <2>3, <2>4, <2>5, <2>6 DEF RestoreSnapshot, Indices
<1>9. ASSUME NEW k \in 1..Len(raft.readOnly), ConfirmReads(k) PROVE <1>b!1
  <2>1. raft.readOnly \in Seq(Seq(Req)) /\ raft.readStates \in Seq(Seq(Req)) /\ k \in Nat
        /\ Len(raft.readOnly) \in Nat
    BY <1>a DEF RaftState
  <2>2. raft.readStates \o Upto(raft.readOnly, k) \in Seq(Seq(Req))
    BY <2>1, UptoProps, ConcatProperties
  <2>3. From(raft.readOnly, k + 1) \in Seq(Seq(Req))
    BY <2>1, FromProps
  <2>4. raft' = [raft EXCEPT !.readStates = raft.readStates \o Upto(raft.readOnly, k),
                             !.readOnly = From(raft.readOnly, k + 1)]
    BY <1>9 DEF ConfirmReads, From
  <2>5. raft' \in RaftState
    BY <1>a, <2>2, <2>3, <2>4, Zenon DEF RaftState
  <2>6. raft'.commit = raft.commit /\ raft'.snap = raft.snap
        /\ raft'.log = raft.log /\ raft'.role = raft.role
    BY <1>a, <2>4 DEF RaftState
  <2> QED BY <1>0, <1>9, <1>a, <1>c, <2>5, <2>6 DEF ConfirmReads, Indices
<1> QED
  BY <1>1, <1>2, <1>3, <1>4, <1>5, <1>6, <1>7, <1>8, <1>9, Zenon DEF Raft

-----------------------------------------------------------------------------
\* The steps of the event loop.

\* A step that leaves the queue and the applied index alone.
LEMMA SameQueue ==
  ASSUME IndInv, TypeOK', fault' # "index", group' = group,
         raft'.commit = raft.commit, raft'.snap = raft.snap, raft'.role = raft.role,
         raft.snap > 0 => raft'.log = raft.log,
         loop'.lastReadyIndex = loop.lastReadyIndex,
         worker'.jobs = worker.jobs, worker'.applied = worker.applied,
         worker'.alive = worker.alive, worker'.pendingRemove = worker.pendingRemove
  PROVE  IndInv'
<1>1. Indices'
  BY DEF IndInv, Indices
<1>2. group \in GroupState /\ Queue(worker.jobs, loop.lastReadyIndex)
  BY DEF IndInv, TypeOK, Contiguous
<1>3. Len(group.chosen) \in Nat
  BY <1>2, GroupFields
<1>4. Contiguous'
  BY <1>2, <1>3, QueueFrame
<1> QED
  BY <1>1, <1>4 DEF IndInv, AppliedInOrder

\* What a read sees are writes.
LEMMA AckedPrefixType ==
  ASSUME group.chosen \in Seq(Entry)
  PROVE  AckedPrefix \in 0..Len(group.chosen)
<1> DEFINE n == Len(group.chosen)
           S == {0} \cup {i \in DOMAIN group.chosen :
                  LET e == group.chosen[i]
                  IN e.type = "normal" /\ (\/ e.reqs = <<>>
                                           \/ \E r \in Range(e.reqs) : answers[r] = <<"ok">>)}
<1>1. n \in Nat /\ DOMAIN group.chosen = 1..n
  BY LenProperties
<1>2. 0 \in 0..n /\ 1..n \subseteq 0..n
  BY <1>1
<1>3. S \in SUBSET (0..n) /\ S # {}
  BY <1>1, <1>2, Zenon
<1>4. Max(S) \in S
  BY <1>1, <1>3, MaxNat, Zenon
<1> QED
  BY <1>3, <1>4, Zenon DEF AckedPrefix

\* Queueing a request keeps the invariant.
LEMMA OnProxyReqInd ==
  ASSUME IndInv, NEW r \in Req, OnProxyReq(r)
  PROVE  IndInv'
<1>1. TypeOK /\ loop \in LoopState /\ group \in GroupState
      /\ answers \in [Req -> Seq(Kinds)] /\ reads \in [Reads -> [acked : Nat, saw : Nat]]
  BY DEF IndInv, TypeOK
<1>2. AckedPrefix \in Nat
  BY <1>1, GroupFields, AckedPrefixType
<1>3. reads' \in [Reads -> [acked : Nat, saw : Nat]]
  <2>1. CASE r \in Reads
    <3>1. reads' = [reads EXCEPT ![r].acked = AckedPrefix]
      BY <2>1 DEF OnProxyReq
    <3>2. reads[r] \in [acked : Nat, saw : Nat]
      BY <1>1, <2>1
    <3>3. [reads[r] EXCEPT !.acked = AckedPrefix] \in [acked : Nat, saw : Nat]
      BY <1>2, <3>2
    <3> QED BY <1>1, <3>1, <3>3, Zenon
  <2>2. CASE r \notin Reads
    BY <1>1, <2>2 DEF OnProxyReq
  <2> QED BY <2>1, <2>2
<1>4. CASE loop' = [loop EXCEPT !.requests = Append(@, r)] /\ UNCHANGED <<answers, fault>>
  <2>1. Append(loop.requests, r) \in Seq(Req)
    BY <1>1, LoopFields, AppendProperties
  <2>2. loop' \in LoopState
    BY <1>1, <1>4, <2>1, Zenon DEF LoopState
  <2>3. loop'.lastReadyIndex = loop.lastReadyIndex
    BY <1>1, <1>4 DEF LoopState
  <2>4. TypeOK'
    BY <1>1, <1>3, <1>4, <2>2 DEF TypeOK, OnProxyReq
  <2>5. fault' # "index"
    BY <1>4 DEF OnProxyReq
  <2> QED BY <2>3, <2>4, <2>5, SameQueue DEF OnProxyReq
<1>5. CASE /\ answers' = [answers EXCEPT ![r] = Append(@, "nomatch")]
           /\ fault' = IF r \in Clients THEN "none" ELSE "nil"
           /\ UNCHANGED loop
  <2>1. answers[r] \in Seq(Kinds) /\ "nomatch" \in Kinds
    BY <1>1 DEF Kinds
  <2>2. Append(answers[r], "nomatch") \in Seq(Kinds)
    BY <2>1, AppendProperties
  <2>3. answers' \in [Req -> Seq(Kinds)]
    BY <1>1, <1>5, <2>2, Zenon
  <2>4. fault' \in {"none", "nil"}
    BY <1>5
  <2>5. TypeOK'
    BY <1>1, <1>3, <1>5, <2>3, <2>4 DEF TypeOK, OnProxyReq
  <2> QED BY <1>5, <2>4, <2>5, SameQueue DEF OnProxyReq
<1> QED
  BY <1>4, <1>5, Zenon DEF OnProxyReq

\* The command that push builds is a command.
LEMMA NewCmdType ==
  ASSUME TypeOK, NEW n \in 1..Len(loop.requests)
  PROVE  NewCmd(n) \in Cmd /\ NewCmd(n).reqs \in Seq(Req) /\ Len(NewCmd(n).reqs) \in Nat
<1>1. loop.requests \in Seq(Req) /\ raft.term \in Nat /\ loop.ver \in Nat /\ n \in Nat
  BY RaftFields, LoopFields DEF TypeOK
<1>2. Upto(loop.requests, n) \in Seq(Req)
  BY <1>1, UptoProps
<1> QED
  BY <1>1, <1>2, LenProperties DEF NewCmd, Cmd

\* A proposal appends to the leader's log and queues one propose job.
LEMMA proposeEntryInd ==
  ASSUME IndInv, NEW c \in Cmd, NEW s \in Slots, proposeEntry(c, s),
         used' \subseteq Slots, group' = group, reads' = reads, fault # "index"
  PROVE  IndInv'
<1> DEFINE job == [type |-> "propose", cmd |-> s, conf |-> c.reqs[1] \in ConfChanges]
<1>1. TypeOK /\ raft \in RaftState /\ loop \in LoopState /\ worker \in WorkerState
      /\ group \in GroupState /\ cmds \in [Slots -> Cmd] /\ c.reqs \in Seq(Req) /\ c.ver \in Nat
  BY DEF IndInv, TypeOK, Cmd
<1>2. /\ raft.role = "leader" /\ cmds' = [cmds EXCEPT ![s] = c]
      /\ worker' = [worker EXCEPT !.jobs = Append(worker.jobs, job)]
      /\ loop' = [loop EXCEPT !.requests = From(loop.requests, Len(c.reqs) + 1)]
      /\ answers' = answers /\ fault' = fault
  BY DEF proposeEntry
<1>3. PICK e \in Entry, b \in BOOLEAN :
        raft' = [raft EXCEPT !.log = Append(raft.log, e), !.pendingConf = b]
  <2> DEFINE conf == c.reqs[1] \in ConfChanges
             e0 == [type |-> IF conf THEN "conf" ELSE "normal", term |-> raft.term,
                    reqs |-> c.reqs, ver |-> c.ver]
             e1 == IF conf /\ raft.pendingConf THEN EmptyEntry(raft.term) ELSE e0
             b1 == raft.pendingConf \/ conf
  <2>1. raft.term \in Nat /\ (IF conf THEN "conf" ELSE "normal") \in {"empty", "normal", "conf"}
    BY <1>1, RaftFields
  <2>2. e0 \in Entry /\ EmptyEntry(raft.term) \in Entry
    BY <1>1, <2>1, EntryTypes
  <2>3. e1 \in Entry /\ b1 \in BOOLEAN
    BY <2>2
  <2>4. raft' = [raft EXCEPT !.log = Append(raft.log, e1), !.pendingConf = b1]
    BY DEF proposeEntry, Propose
  <2> HIDE DEF e1, b1
  <2> QED BY <2>3, <2>4, Zenon
<1>4. Append(raft.log, e) \in Seq(Entry)
  BY <1>1, RaftFields, AppendProperties
<1>5. raft' \in RaftState
  BY <1>1, <1>3, <1>4, Zenon DEF RaftState
<1>6. raft'.commit = raft.commit /\ raft'.snap = raft.snap /\ raft'.role = raft.role
  BY <1>1, <1>3 DEF RaftState
<1>7. From(loop.requests, Len(c.reqs) + 1) \in Seq(Req)
  <2>1. Len(c.reqs) + 1 \in Nat \ {0} /\ loop.requests \in Seq(Req)
    BY <1>1, LoopFields, LenProperties
  <2> QED BY <2>1, FromProps
<1>8. loop' \in LoopState
  BY <1>1, <1>2, <1>7, Zenon DEF LoopState
<1>9. loop'.lastReadyIndex = loop.lastReadyIndex
  BY <1>1, <1>2 DEF LoopState
<1>10. job \in Job /\ job.type = "propose"
  <2>1. (c.reqs[1] \in ConfChanges) \in BOOLEAN
    OBVIOUS
  <2> QED BY <2>1 DEF Job
<1>11. Append(worker.jobs, job) \in Seq(Job)
  BY <1>1, <1>10, WorkerFields, AppendProperties
<1> HIDE DEF job
<1>12. worker' \in WorkerState
  BY <1>1, <1>2, <1>11, Zenon DEF WorkerState
<1>13. /\ worker'.jobs = Append(worker.jobs, job) /\ worker'.applied = worker.applied
       /\ worker'.alive = worker.alive /\ worker'.pendingRemove = worker.pendingRemove
  BY <1>1, <1>2 DEF WorkerState
<1>14. TypeOK'
  BY <1>1, <1>2, <1>5, <1>8, <1>12 DEF TypeOK
<1>15. Contiguous'
  <2>1. loop.lastReadyIndex \in 0..Len(group.chosen) /\ Len(group.chosen) \in Nat
    BY <1>1, LoopFields, GroupFields, RaftFields DEF IndInv, Indices
  <2>2. Moves(job, FALSE, loop.lastReadyIndex, loop.lastReadyIndex)
    BY <1>10, <2>1 DEF Moves
  <2>3. Queue(Append(worker.jobs, job), loop.lastReadyIndex)
    BY <1>1, <1>10, <2>1, <2>2, WorkerFields, QueueAppend, Zenon DEF IndInv, Contiguous
  <2>4. Len(group'.chosen) \in Nat /\ Len(group.chosen) <= Len(group'.chosen)
    BY <2>1
  <2> QED BY <1>9, <1>13, <2>1, <2>3, <2>4, QueueFrame, Zenon
<1>16. Indices'
  BY <1>1, <1>2, <1>6, <1>9, RaftFields DEF IndInv, Indices
<1> QED
  BY <1>2, <1>14, <1>15, <1>16 DEF IndInv, AppliedInOrder

\* A read-index read only moves its cmd object into pendingReads.
LEMMA execReadIndexInd ==
  ASSUME IndInv, NEW c \in Cmd, NEW s \in Slots, execReadIndex(c, s),
         used' \subseteq Slots, group' = group, reads' = reads, fault # "index"
  PROVE  IndInv'
<1>1. TypeOK /\ raft \in RaftState /\ loop \in LoopState /\ cmds \in [Slots -> Cmd]
      /\ c.reqs \in Seq(Req)
  BY DEF IndInv, TypeOK, Cmd
<1>2. /\ raft' = [raft EXCEPT !.readOnly = Append(raft.readOnly, c.reqs)]
      /\ loop' = [loop EXCEPT !.requests = From(loop.requests, Len(c.reqs) + 1),
                              !.pendingReads = Append(loop.pendingReads, s)]
      /\ cmds' = [cmds EXCEPT ![s] = c]
      /\ worker' = worker /\ answers' = answers /\ fault' = fault
  BY DEF execReadIndex
<1>3. Append(raft.readOnly, c.reqs) \in Seq(Seq(Req)) /\ Append(loop.pendingReads, s) \in Seq(Slots)
  BY <1>1, RaftFields, LoopFields, AppendProperties
<1>4. From(loop.requests, Len(c.reqs) + 1) \in Seq(Req)
  <2>1. Len(c.reqs) + 1 \in Nat \ {0} /\ loop.requests \in Seq(Req)
    BY <1>1, LoopFields, LenProperties
  <2> QED BY <2>1, FromProps
<1>5. raft' \in RaftState
  BY <1>1, <1>2, <1>3, Zenon DEF RaftState
<1>6. /\ raft'.commit = raft.commit /\ raft'.snap = raft.snap /\ raft'.role = raft.role
      /\ raft'.log = raft.log
  BY <1>1, <1>2 DEF RaftState
<1>7. loop' \in LoopState
  BY <1>1, <1>2, <1>3, <1>4, Zenon DEF LoopState
<1>8. loop'.lastReadyIndex = loop.lastReadyIndex
  BY <1>1, <1>2 DEF LoopState
<1>9. TypeOK'
  BY <1>1, <1>2, <1>5, <1>7 DEF TypeOK
<1> QED
  BY <1>2, <1>6, <1>8, <1>9, SameQueue

\* A refused command is answered and freed at once.
LEMMA respErrorInd ==
  ASSUME IndInv, NEW c \in Cmd, NEW kind \in {"notleader", "error"}, respError(c, kind),
         used' \subseteq Slots, group' = group, reads' = reads, fault # "index"
  PROVE  IndInv'
<1>1. TypeOK /\ raft \in RaftState /\ loop \in LoopState /\ c.reqs \in Seq(Req)
      /\ answers \in [Req -> Seq(Kinds)] /\ kind \in Kinds
  BY DEF IndInv, TypeOK, Cmd, Kinds
<1>2. /\ loop' = [loop EXCEPT !.requests = From(loop.requests, Len(c.reqs) + 1)]
      /\ answers' = [r \in Req |-> IF r \in Range(c.reqs) THEN Append(answers[r], kind) ELSE answers[r]]
      /\ UNCHANGED <<raft, worker, cmds, fault>>
  BY DEF respError
<1>3. answers' \in [Req -> Seq(Kinds)]
  <2>1. \A r \in Req : answers[r] \in Seq(Kinds) /\ Append(answers[r], kind) \in Seq(Kinds)
    BY <1>1, AppendProperties
  <2> QED BY <1>2, <2>1
<1>4. From(loop.requests, Len(c.reqs) + 1) \in Seq(Req)
  <2>1. Len(c.reqs) + 1 \in Nat \ {0} /\ loop.requests \in Seq(Req)
    BY <1>1, LoopFields, LenProperties
  <2> QED BY <2>1, FromProps
<1>5. loop' \in LoopState
  BY <1>1, <1>2, <1>4, Zenon DEF LoopState
<1>6. loop'.lastReadyIndex = loop.lastReadyIndex
  BY <1>1, <1>2 DEF LoopState
<1>7. TypeOK'
  BY <1>1, <1>2, <1>3, <1>5 DEF TypeOK
<1> QED
  BY <1>2, <1>6, <1>7, SameQueue

\* handleRequest keeps the invariant, whichever way the batch is handled.
LEMMA handleRequestInd ==
  ASSUME IndInv, NEW n \in 1..Len(loop.requests), NEW s \in Slots, handleRequest(n, s)
  PROVE  IndInv'
<1>1. NewCmd(n) \in Cmd
  BY NewCmdType DEF IndInv
<1>2. used' \subseteq Slots /\ group' = group /\ reads' = reads /\ fault # "index"
  BY DEF handleRequest, IndInv, TypeOK, Alive
<1> QED
  BY <1>1, <1>2, proposeEntryInd, execReadIndexInd, respErrorInd, Zenon DEF handleRequest

\* Reads are executed and answered: the types of what that changes.
LEMMA ExecReadsType ==
  ASSUME TypeOK, NEW S, ExecReads(S)
  PROVE  reads' \in [Reads -> [acked : Nat, saw : Nat]]
<1>1. worker.applied \in Nat
  BY WorkerFields DEF TypeOK
<1>2. Seen \in Nat
  BY <1>1 DEF Seen
<1>3. \A r \in Reads : [reads[r] EXCEPT !.saw = Seen] \in [acked : Nat, saw : Nat]
                       /\ reads[r] \in [acked : Nat, saw : Nat]
  BY <1>2 DEF TypeOK
<1> QED
  BY <1>3 DEF ExecReads

\* Taking over confirmed reads keeps the types of the cmd objects and the queues of reads.
LEMMA doApplyReadsType ==
  ASSUME TypeOK, NEW n \in Nat, doApplyReads(n)
  PROVE  /\ reads' \in [Reads -> [acked : Nat, saw : Nat]]
         /\ answers' \in [Req -> Seq(Kinds)] /\ cmds' \in [Slots -> Cmd]
         /\ fault' \in {"none", "nil", "uuid"}
<1> DEFINE p == loop.pendingReads
           done == Range(Upto(p, n))
           q == IF StepDown THEN p ELSE Upto(p, n)
           how == [s \in Range(p) |-> IF s \in done THEN "ok" ELSE "stale"]
           bad == IF \E i \in 1..n : i > Len(p) \/ cmds[p[i]].reqs # raft.readStates[i]
                  THEN "uuid" ELSE "none"
<1>1. p \in Seq(Slots)
  BY LoopFields DEF TypeOK
<1>2. Upto(p, n) \in Seq(Slots) /\ Range(Upto(p, n)) \subseteq Range(p)
  BY <1>1, UptoProps, RangeUpto
<1>3. q \in Seq(Slots) /\ Range(q) \subseteq Range(p)
  BY <1>1, <1>2
<1>4. \A s \in Range(p) : how[s] \in Kinds
  BY DEF Kinds
<1>5. bad \in {"uuid", "none"} /\ bad \in Faults
  BY DEF Faults
<1>6. ExecReads(done) /\ respAll(q, how, bad)
  BY DEF doApplyReads
<1>7. reads' \in [Reads -> [acked : Nat, saw : Nat]]
  BY <1>6, ExecReadsType
<1> HIDE DEF q, how, bad
<1>8. answers' \in [Req -> Seq(Kinds)] /\ cmds' \in [Slots -> Cmd] /\ fault' \in {"nil", bad}
  BY <1>3, <1>4, <1>5, <1>6, RespAllType
<1> QED
  BY <1>5, <1>7, <1>8

\* The jobs of a Ready continue the queue up to the commit index.
LEMMA ReadyJobsQueue ==
  ASSUME IndInv
  PROVE  /\ worker.jobs \o ReadyJobs \in Seq(Job)
         /\ Queue(worker.jobs \o ReadyJobs, raft.commit)
<1> DEFINE jobs == worker.jobs
           last == loop.lastReadyIndex
<1>1. /\ jobs \in Seq(Job) /\ last \in Nat /\ raft.snap \in Nat /\ raft.commit \in Nat
      /\ loop.appliedIndexTerm \in Nat /\ Len(group.chosen) \in Nat
  BY RaftFields, LoopFields, WorkerFields, GroupFields DEF IndInv, TypeOK
<1>2. Queue(jobs, last) /\ last <= raft.commit /\ raft.commit <= Len(group.chosen)
      /\ (raft.snap > 0 => raft.snap = raft.commit)
  BY DEF IndInv, Contiguous, Indices
<1> HIDE DEF jobs, last
<1>3. CASE raft.snap > 0
  <2> DEFINE j1 == [type |-> "snap"]
             j2 == [type |-> "register", applied |-> raft.snap, term |-> loop.appliedIndexTerm,
                    ver |-> CellVer(raft.snap)]
  <2>1. CellVer(raft.snap) \in Nat
    BY DEF CellVer
  <2>2. j1 \in Job /\ j2 \in Job
    BY <1>1, <2>1 DEF Job
  <2>3. Moves(j1, FALSE, last, last) /\ Moves(j2, FALSE, last, raft.commit)
    BY <1>1, <1>2, <1>3 DEF Moves
  <2>4. ReadyJobs = <<j1, j2>>
    BY <1>3 DEF ReadyJobs
  <2> HIDE DEF j1, j2
  <2>5. jobs \o ReadyJobs = Append(Append(jobs, j1), j2)
    BY <1>1, <2>2, <2>4
  <2>6. Append(jobs, j1) \in Seq(Job) /\ Append(Append(jobs, j1), j2) \in Seq(Job)
    BY <1>1, <2>2, AppendProperties
  <2>7. last \in 0..Len(group.chosen) /\ raft.commit \in 0..Len(group.chosen)
    BY <1>1, <1>2
  <2>8. Queue(Append(jobs, j1), last)
    BY <1>1, <1>2, <2>2, <2>3, <2>7, QueueAppend, Zenon
  <2>9. Queue(Append(Append(jobs, j1), j2), raft.commit)
    BY <2>2, <2>3, <2>6, <2>7, <2>8, QueueAppend, Zenon
  <2> QED BY <2>5, <2>6, <2>9 DEF jobs
<1>4. CASE ~(raft.snap > 0) /\ raft.commit > last
  <2> DEFINE j == [type |-> "apply", next |-> last + 1, upto |-> raft.commit]
  <2>1. j \in Job /\ Moves(j, FALSE, last, raft.commit)
    BY <1>1, <1>4 DEF Job, Moves
  <2>2. ReadyJobs = <<j>>
    BY <1>4 DEF ReadyJobs, last
  <2> HIDE DEF j
  <2>3. jobs \o ReadyJobs = Append(jobs, j) /\ Append(jobs, j) \in Seq(Job)
    BY <1>1, <2>1, <2>2, AppendProperties
  <2>4. raft.commit \in 0..Len(group.chosen)
    BY <1>1, <1>2
  <2>5. Queue(Append(jobs, j), raft.commit)
    BY <1>1, <1>2, <2>1, <2>4, QueueAppend, Zenon
  <2> QED BY <2>3, <2>5 DEF jobs
<1>5. CASE ~(raft.snap > 0) /\ ~(raft.commit > last)
  <2>1. ReadyJobs = <<>> /\ raft.commit = last
    BY <1>1, <1>2, <1>5 DEF ReadyJobs, last
  <2>2. jobs \o ReadyJobs = jobs
    BY <1>1, <2>1
  <2> QED BY <1>1, <1>2, <2>1, <2>2 DEF jobs
<1> QED
  BY <1>3, <1>4, <1>5

\* handleReady moves lastReadyIndex exactly as far as the jobs it queues.
LEMMA handleReadyInd ==
  ASSUME IndInv, handleReady
  PROVE  IndInv'
<1> DEFINE n == IF readyToHandleRead(loop.appliedIndexTerm) THEN Len(raft.readStates) ELSE 0
           later == Len(raft.readStates) - n
<1>1. TypeOK /\ raft \in RaftState /\ loop \in LoopState /\ worker \in WorkerState /\ group \in GroupState
  BY DEF IndInv, TypeOK
<1>2. n \in Nat /\ later \in Nat
  BY <1>1, RaftFields
<1>3. /\ doApplyReads(n) /\ worker' = [worker EXCEPT !.jobs = worker.jobs \o ReadyJobs]
      /\ loop' = [loop EXCEPT
          !.lastReadyIndex = raft.commit,
          !.appliedIndex = IF raft.snap > 0 THEN raft.snap ELSE loop.appliedIndex,
          !.applyingSnap = raft.snap > 0,
          !.ver = IF raft.snap > 0 THEN CellVer(raft.snap) ELSE loop.ver,
          !.pendingReads = IF StepDown THEN <<>> ELSE From(loop.pendingReads, n + 1),
          !.readyCnt = IF StepDown THEN 0 ELSE loop.readyCnt + later]
      /\ raft' = [raft EXCEPT !.snap = 0, !.soft = raft.role, !.readStates = <<>>,
                             !.sent = IF raft.role = "leader" THEN Len(raft.log) ELSE raft.sent]
      /\ group' = group /\ used' = used
  BY DEF handleReady
<1> HIDE DEF n, later
<1>4. /\ reads' \in [Reads -> [acked : Nat, saw : Nat]]
      /\ answers' \in [Req -> Seq(Kinds)] /\ cmds' \in [Slots -> Cmd]
      /\ fault' \in {"none", "nil", "uuid"}
  BY <1>1, <1>2, <1>3, doApplyReadsType
<1>5. raft' \in RaftState
  <2>1. /\ 0 \in Nat /\ raft.role \in Role /\ <<>> \in Seq(Seq(Req))
        /\ (IF raft.role = "leader" THEN Len(raft.log) ELSE raft.sent) \in Nat
    BY <1>1, RaftFields
  <2> QED BY <1>1, <1>3, <2>1, Zenon DEF RaftState
<1>6. raft'.commit = raft.commit /\ raft'.snap = 0
  BY <1>1, <1>3 DEF RaftState
<1>7. loop' \in LoopState
  <2>1. /\ raft.commit \in Nat /\ (raft.snap > 0) \in BOOLEAN
        /\ (IF raft.snap > 0 THEN raft.snap ELSE loop.appliedIndex) \in Nat
    BY <1>1, RaftFields, LoopFields
  <2>2. (IF raft.snap > 0 THEN CellVer(raft.snap) ELSE loop.ver) \in Nat
    <3>1. CellVer(raft.snap) \in Nat /\ loop.ver \in Nat
      BY <1>1, LoopFields DEF CellVer
    <3> QED BY <3>1
  <2>3. (IF StepDown THEN 0 ELSE loop.readyCnt + later) \in Nat
    <3>1. loop.readyCnt + later \in Nat
      BY <1>1, <1>2, LoopFields
    <3> QED BY <3>1
  <2>4. (IF StepDown THEN <<>> ELSE From(loop.pendingReads, n + 1)) \in Seq(Slots)
    <3>1. loop.pendingReads \in Seq(Slots) /\ n + 1 \in Nat \ {0}
      BY <1>1, <1>2, LoopFields
    <3>2. From(loop.pendingReads, n + 1) \in Seq(Slots)
      BY <3>1, FromProps
    <3>3. <<>> \in Seq(Slots)
      OBVIOUS
    <3> QED BY <3>2, <3>3, Zenon
  <2> QED BY <1>1, <1>3, <2>1, <2>2, <2>3, <2>4, Zenon DEF LoopState
<1>8. loop'.lastReadyIndex = raft.commit
  BY <1>1, <1>3 DEF LoopState
<1>9. worker.jobs \o ReadyJobs \in Seq(Job) /\ Queue(worker.jobs \o ReadyJobs, raft.commit)
  BY ReadyJobsQueue
<1>10. worker' \in WorkerState
  BY <1>1, <1>3, <1>9, Zenon DEF WorkerState
<1>11. /\ worker'.jobs = worker.jobs \o ReadyJobs /\ worker'.applied = worker.applied
       /\ worker'.alive = worker.alive /\ worker'.pendingRemove = worker.pendingRemove
  BY <1>1, <1>3 DEF WorkerState
<1>12. TypeOK'
  BY <1>1, <1>3, <1>4, <1>5, <1>7, <1>10 DEF TypeOK
<1>13. Len(group.chosen) \in Nat /\ Len(group'.chosen) \in Nat /\ Len(group.chosen) <= Len(group'.chosen)
  BY <1>1, <1>3, GroupFields
<1>14. Contiguous'
  BY <1>8, <1>9, <1>11, <1>13, QueueFrame, Zenon
<1>15. Indices'
  BY <1>1, <1>3, <1>6, <1>8, RaftFields DEF IndInv, Indices
<1>16. AppliedInOrder'
  BY <1>4 DEF AppliedInOrder
<1> QED
  BY <1>12, <1>14, <1>15, <1>16 DEF IndInv

\* handleApplyResult takes the worker's results in order and leaves the queue alone.
LEMMA handleApplyResultInd ==
  ASSUME IndInv, handleApplyResult
  PROVE  IndInv'
<1> DEFINE res == loop.results[1]
           n == ReadyReads(res)
           q == Upto(loop.pendingReads, n)
           how == [s \in Range(q) |-> "ok"]
           bad == IF loop.applyingSnap THEN "applying" ELSE IF Len(q) < n THEN "nil" ELSE "none"
<1>1. TypeOK /\ raft \in RaftState /\ loop \in LoopState /\ worker \in WorkerState
  BY DEF IndInv, TypeOK
<1>2. loop.results # <<>> /\ loop.results \in Seq(Result)
  BY <1>1, LoopFields DEF handleApplyResult
<1>3. res \in Result /\ Tail(loop.results) \in Seq(Result)
  BY <1>2
<1>4. res.index \in Nat /\ res.term \in Nat /\ res.split \in BOOLEAN /\ res.conf \in BOOLEAN
      /\ res.removed \in BOOLEAN
  BY <1>3 DEF Result
<1>5. n \in Nat /\ loop.readyCnt - n \in Nat
  BY <1>1, LoopFields DEF ReadyReads
<1>6. q \in Seq(Slots) /\ From(loop.pendingReads, n + 1) \in Seq(Slots)
  <2>1. loop.pendingReads \in Seq(Slots) /\ n + 1 \in Nat \ {0}
    BY <1>1, <1>5, LoopFields
  <2> QED BY <1>5, <2>1, UptoProps, FromProps
<1>7. bad \in Faults /\ bad # "index"
  BY DEF Faults
<1>8. \A s \in Range(q) : how[s] \in Kinds
  BY DEF Kinds
<1>9. /\ ExecReads(Range(q)) /\ respAll(q, how, bad)
      /\ loop' = [loop EXCEPT
          !.results = Tail(loop.results), !.appliedIndex = res.index, !.appliedIndexTerm = res.term,
          !.pendingReads = From(loop.pendingReads, n + 1), !.readyCnt = loop.readyCnt - n,
          !.ver = IF res.split THEN loop.ver + 1 ELSE loop.ver,
          !.disposed = loop.disposed \/ res.removed]
      /\ raft' = [raft EXCEPT !.pendingConf = raft.pendingConf /\ ~res.conf]
      /\ worker' = [worker EXCEPT !.clearing = worker.clearing \/ res.removed]
      /\ group' = group /\ used' = used
  BY DEF handleApplyResult
<1> HIDE DEF res, n, q, how, bad
<1>10. answers' \in [Req -> Seq(Kinds)] /\ cmds' \in [Slots -> Cmd] /\ fault' \in {"nil", bad}
  BY <1>1, <1>6, <1>7, <1>8, <1>9, RespAllType
<1>11. reads' \in [Reads -> [acked : Nat, saw : Nat]]
  BY <1>1, <1>9, ExecReadsType
<1>12. loop' \in LoopState
  <2>1. (IF res.split THEN loop.ver + 1 ELSE loop.ver) \in Nat
    BY <1>1, LoopFields
  <2>2. (loop.disposed \/ res.removed) \in BOOLEAN
    OBVIOUS
  <2> QED BY <1>1, <1>3, <1>4, <1>5, <1>6, <1>9, <2>1, <2>2, Zenon DEF LoopState
<1>13. loop'.lastReadyIndex = loop.lastReadyIndex
  BY <1>1, <1>9 DEF LoopState
<1>14. raft' \in RaftState /\ worker' \in WorkerState
  <2>1. raft' \in RaftState
    BY <1>1, <1>9, Zenon DEF RaftState
  <2>2. worker' \in WorkerState
    BY <1>1, <1>9, Zenon DEF WorkerState
  <2> QED BY <2>1, <2>2
<1>15. /\ raft'.commit = raft.commit /\ raft'.snap = raft.snap /\ raft'.role = raft.role
       /\ raft'.log = raft.log
  BY <1>1, <1>9 DEF RaftState
<1>16. /\ worker'.jobs = worker.jobs /\ worker'.applied = worker.applied
       /\ worker'.alive = worker.alive /\ worker'.pendingRemove = worker.pendingRemove
  BY <1>1, <1>9 DEF WorkerState
<1>17. fault' \in Faults /\ fault' # "index"
  BY <1>7, <1>10 DEF Faults
<1>18. TypeOK'
  BY <1>1, <1>9, <1>10, <1>11, <1>12, <1>14, <1>17 DEF TypeOK, Faults
<1> QED
  BY <1>9, <1>13, <1>15, <1>16, <1>17, <1>18, SameQueue

\* The end of the event loop answers what is queued and leaves the worker's jobs alone.
LEMMA loopExitInd ==
  ASSUME IndInv, loopExit
  PROVE  IndInv'
<1>1. TypeOK /\ loop \in LoopState /\ answers \in [Req -> Seq(Kinds)]
  BY DEF IndInv, TypeOK
<1>2. answers' \in [Req -> Seq(Kinds)]
  <2>1. \A r \in Req : answers[r] \in Seq(Kinds) /\ Append(answers[r], "nomatch") \in Seq(Kinds)
    BY <1>1, AppendProperties DEF Kinds
  <2> QED BY <2>1 DEF loopExit
<1>3. loop' = [loop EXCEPT !.exited = TRUE, !.requests = <<>>, !.results = <<>>]
      /\ fault' \in {"none", "nil"}
  BY DEF loopExit
<1>4. <<>> \in Seq(Req) /\ <<>> \in Seq(Result) /\ TRUE \in BOOLEAN
  OBVIOUS
<1>5. loop' \in LoopState
  BY <1>1, <1>3, <1>4, Zenon DEF LoopState
<1>6. loop'.lastReadyIndex = loop.lastReadyIndex
  BY <1>1, <1>3 DEF LoopState
<1>7. TypeOK'
  BY <1>1, <1>2, <1>3, <1>5 DEF TypeOK, loopExit
<1> QED
  BY <1>3, <1>6, <1>7, SameQueue DEF loopExit

\* Clearing the data of a removed replica keeps the invariant.
LEMMA clearDataInd ==
  ASSUME IndInv, clearData
  PROVE  IndInv'
<1>1. TypeOK /\ worker \in WorkerState
  BY DEF IndInv, TypeOK
<1>2. worker' = [worker EXCEPT !.clearing = FALSE, !.cleared = TRUE]
  BY DEF clearData
<1>3. worker' \in WorkerState
  BY <1>1, <1>2, Zenon DEF WorkerState
<1>4. /\ worker'.jobs = worker.jobs /\ worker'.applied = worker.applied
      /\ worker'.alive = worker.alive /\ worker'.pendingRemove = worker.pendingRemove
  BY <1>1, <1>2 DEF WorkerState
<1>5. TypeOK'
  BY <1>1, <1>3 DEF TypeOK, clearData
<1>6. fault' # "index"
  BY DEF clearData
<1> QED
  BY <1>4, <1>5, <1>6, SameQueue DEF clearData
=============================================================================
