--------------------------- MODULE SnapshotTransfer -------------------------
(***************************************************************************)
(* How a leader's store brings a snapshot to followers on other stores: the *)
(* generation on the snap worker, the transport's table of snapshots being *)
(* sent, Ask / Accept / chunks / Received, and the receiving store's files.*)
(*                                                                         *)
(* The leader stays the same, so every snapshot has its term and is known  *)
(* by its index; a file is the sequence of its Chunks chunks.  Messages    *)
(* written to one connection are a stream; streams are read in any order   *)
(* and each from its head.                                                 *)
(***************************************************************************)
EXTENDS Integers, Sequences, FiniteSets

CONSTANTS
  Followers,       \* the other peers of the cell
  Lagging,         \* who may lag at the start: [who, events], with what is already spent
                   \* of MaxSnapEvents
  Chunks,          \* chunks of a snapshot file
  MaxSnapEvents    \* bound on what disturbs a transfer

ASSUME SnapAssumption ==
  /\ Chunks \in Nat \ {0} /\ MaxSnapEvents \in Nat
  /\ Lagging \subseteq [who : SUBSET Followers, events : 0..MaxSnapEvents]

VARIABLES
  behind,       \* the followers that need a snapshot
  index, cellVer,   \* the leader's applied index and its cell's version
  generated,    \* genSnapJob's result: <<>>, or the header of a snapshot
  snapJobs,     \* the queue of the leader's snap worker
  sentFiles,    \* the indexes of the leader's .gz files
  sendingSnap,  \* transport.sendingSnapshots: <<>> or <<[index, ver]>>
  outq,         \* transport.snapshots: the queue to each follower's store
  sender,       \* each queue's goroutine: "idle", "checked", or "writing"
  sendReg,      \* SnapshotManager.registry
  streams,      \* what is written to each follower's store and not read yet
  answers,      \* the acks of each follower's store not yet handled
  replicaVer,   \* each follower: its cell's version, 0 if there is no replica
  awaited,      \* each follower: raft's pending snapshot, <<>> or <<[index, ver]>>
  tmpFile,      \* each follower's store: the chunks in the .tmp of each index
  gzFile,       \* each follower's store: the chunks of each .gz
  restored,     \* each follower: the index of the last applied snapshot, or 0
  mixed,        \* whether a chunk was read while an older stream of its file was unread
  snapFault,    \* "none", or the log.Fatalf that ended a process
  snapEvents

snapVars == <<behind, index, cellVer, generated, snapJobs, sentFiles, sendingSnap, outq, sender,
              sendReg, streams, answers, replicaVer, awaited, tmpFile, gzFile, restored,
              mixed, snapFault, snapEvents>>
leaderVars == <<index, cellVer, generated, snapJobs, sentFiles>>
queueVars == <<sendingSnap, outq, sender, sendReg>>
followerVars == <<awaited, tmpFile, gzFile, restored, mixed>>

Indexes == 1..(1 + MaxSnapEvents)
Whole == [i \in 1..Chunks |-> i]
NoFiles == [i \in Indexes |-> <<>>]
Header(i, v) == [index |-> i, ver |-> v]
WithoutAt(s, k) == SubSeq(s, 1, k - 1) \o SubSeq(s, k + 1, Len(s))

\* Nobody has a snapshot yet; the leader's log starts after entry 1.
SnapInit ==
  /\ \E l \in Lagging : behind = l.who /\ snapEvents = l.events
  /\ index = 1 /\ cellVer = 1 /\ generated = <<>> /\ snapJobs = <<>> /\ sentFiles = {}
  /\ sendingSnap = [p \in Followers |-> <<>>]
  /\ outq = [p \in Followers |-> <<>>] /\ sender = [p \in Followers |-> "idle"]
  /\ sendReg = {}
  /\ streams = [p \in Followers |-> <<>>] /\ answers = [p \in Followers |-> {}]
  /\ replicaVer = [p \in Followers |-> 0] /\ awaited = [p \in Followers |-> <<>>]
  /\ tmpFile = [p \in Followers |-> NoFiles] /\ gzFile = [p \in Followers |-> NoFiles]
  /\ restored = [p \in Followers |-> 0]
  /\ mixed = FALSE /\ snapFault = "none"

Disturbed == snapEvents < MaxSnapEvents /\ snapEvents' = snapEvents + 1

-----------------------------------------------------------------------------
(* The leader: raft, the snap worker and the acks *)

\* raft wants to send p a snapshot: p lags and rejects what it is sent.  The rejection
\* comes after MsgSnap, which goes the way of all raft messages; a replica that awaits
\* the file of a snapshot answers nothing, handleReady returns before it sends.
Wanted(p) ==
  /\ p \in behind /\ replicaVer[p] # 0 /\ awaited[p] = <<>> /\ restored[p] = 0
  /\ \A k \in DOMAIN streams[p] : streams[p][k][1].kind # "raft"

\* peerStorage.Snapshot without a result: a job is given to the snap worker.
StartGenerate(p) ==
  /\ Wanted(p) /\ generated = <<>> /\ \A i \in DOMAIN snapJobs : snapJobs[i] # 0
  /\ snapJobs' = Append(snapJobs, 0)
  /\ UNCHANGED <<behind, index, cellVer, generated, sentFiles, streams, answers, replicaVer,
                 snapFault, snapEvents, queueVars, followerVars>>

\* addPendingSnapshot refuses a second snapshot of one term.
Refused(p) == sendingSnap[p] # <<>>

\* Snapshot with a result, and sendRaftMessage: the raft message goes out at once and
\* an Ask is queued.
SendSnap(p) ==
  /\ Wanted(p) /\ generated # <<>>
  /\ generated' = <<>>
  /\ IF Refused(p)
     THEN UNCHANGED <<sendingSnap, outq, streams>>
     ELSE LET h == generated[1] IN
          /\ sendingSnap' = [sendingSnap EXCEPT ![p] = <<Header(h.index, cellVer)>>]
          /\ outq' = [outq EXCEPT ![p] = Append(@, [kind |-> "ask", head |-> h])]
          /\ streams' = [streams EXCEPT ![p] = Append(@, <<[kind |-> "raft", head |-> h]>>)]
  /\ UNCHANGED <<behind, index, cellVer, snapJobs, sentFiles, sender, sendReg, answers, replicaVer,
                 snapFault, snapEvents, followerVars>>

\* Create, which uses a file that is there, and CleanSnap.
Created == sentFiles \cup {index}
Cleaned(i) == sentFiles \ {i}

\* The snap worker: job 0 generates the snapshot of the applied index, job i removes
\* the file of index i.
RunSnapJob ==
  /\ snapJobs # <<>>
  /\ snapJobs' = Tail(snapJobs)
  /\ IF Head(snapJobs) = 0
     THEN /\ sentFiles' = Created
          /\ generated' = <<Header(index, cellVer)>>
     ELSE sentFiles' = Cleaned(Head(snapJobs)) /\ UNCHANGED generated
  /\ UNCHANGED <<behind, index, cellVer, streams, answers, replicaVer, snapFault, snapEvents,
                 queueVars, followerVars>>

\* removeSendingSnapshot: only the snapshot the header is about.
WithoutSending_Never(p, h) == sendingSnap
WithoutSending(p, h) ==
  IF sendingSnap[p] = <<h>> THEN [sendingSnap EXCEPT ![p] = <<>>] ELSE sendingSnap

\* onSnapshotAck.
OnSnapshotAck(p, a) ==
  /\ a \in answers[p]
  /\ answers' = [answers EXCEPT ![p] = @ \ {a}]
  /\ sendingSnap' = IF a.kind = "reject" THEN WithoutSending(p, a.head) ELSE sendingSnap
  /\ snapJobs' = IF a.kind = "accept" THEN snapJobs ELSE Append(snapJobs, a.head.index)
  /\ outq' = IF a.kind = "accept" /\ sendingSnap[p] # <<>> /\ a.head.ver >= sendingSnap[p][1].ver
             THEN [outq EXCEPT ![p] = Append(@, [kind |-> "header", head |-> a.head])]
             ELSE outq
  /\ UNCHANGED <<behind, index, cellVer, generated, sentFiles, sender, sendReg, streams, replicaVer,
                 snapFault, snapEvents, followerVars>>

-----------------------------------------------------------------------------
(* readyToSendSnapshots: one goroutine for each queue *)

Taken(p) == Head(outq[p])
Rest(p) == [outq EXCEPT ![p] = Tail(@)]
Again(p) == [outq EXCEPT ![p] = Append(Tail(@), Head(@))]    \* after a timeout

\* A message of a snapshot that is no longer being sent is dropped.
TakeSnapshotMessage(p) ==
  /\ sender[p] = "idle" /\ outq[p] # <<>>
  /\ IF sendingSnap[p] = <<>>
     THEN outq' = Rest(p) /\ UNCHANGED sender
     ELSE sender' = [sender EXCEPT ![p] = "checked"] /\ UNCHANGED outq
  /\ UNCHANGED <<behind, sendingSnap, sendReg, streams, answers, replicaVer, snapFault, snapEvents,
                 leaderVars, followerVars>>

\* What a message makes the goroutine write: the Ask, or the file and the raft message.
Content(p) ==
  LET h == Taken(p).head IN
  IF Taken(p).kind = "ask" THEN <<[kind |-> "ask", head |-> h]>>
  ELSE [i \in 1..Chunks |-> [kind |-> "chunk", head |-> h, chunk |-> i]]
       \o <<[kind |-> "snap", head |-> h]>>

Writable(p) ==
  /\ sender[p] = "checked"
  /\ Taken(p).kind = "header" =>
       sendingSnap[p] # <<>> /\ Taken(p).head.index \in sentFiles \ sendReg

Writes(p, msgs) == [streams EXCEPT ![p] = IF msgs = <<>> THEN @ ELSE Append(@, msgs)]

\* doSendSnapshotMessage, first part.
WriteSnapshotMessage(p) ==
  /\ Writable(p)
  /\ streams' = Writes(p, Content(p))
  /\ IF Taken(p).kind = "ask"
     THEN sender' = [sender EXCEPT ![p] = "idle"] /\ outq' = Rest(p) /\ UNCHANGED sendReg
     ELSE /\ sender' = [sender EXCEPT ![p] = "writing"] /\ UNCHANGED outq
          /\ sendReg' = sendReg \cup {Taken(p).head.index}
  /\ UNCHANGED <<behind, sendingSnap, answers, replicaVer, snapFault, snapEvents, leaderVars,
                 followerVars>>

\* The file is missing, or another goroutine is sending it and nothing is written: the
\* message comes back.
CannotWrite(p) ==
  /\ sender[p] = "checked" /\ Taken(p).kind = "header" /\ sendingSnap[p] # <<>>
  /\ Taken(p).head.index \notin sentFiles \ sendReg
  /\ outq' = Again(p) /\ sender' = [sender EXCEPT ![p] = "idle"]
  /\ UNCHANGED <<behind, sendingSnap, sendReg, streams, answers, replicaVer, snapFault, snapEvents,
                 leaderVars, followerVars>>

\* getSendingSnapshot is called a second time.
SendingIsNil(p) ==
  /\ sender[p] = "checked" /\ Taken(p).kind = "header" /\ sendingSnap[p] = <<>>
  /\ snapFault' = "sending snapshot can not be nil"
  /\ UNCHANGED <<behind, streams, answers, replicaVer, snapEvents, leaderVars, queueVars, followerVars>>

\* doSendSnapshotMessage, after the last write.
FinishSending(p) ==
  /\ sender[p] = "writing"
  /\ sendingSnap' = WithoutSending(p, Taken(p).head)
  /\ sendReg' = sendReg \ {Taken(p).head.index}
  /\ sender' = [sender EXCEPT ![p] = "idle"] /\ outq' = Rest(p)
  /\ UNCHANGED <<behind, streams, answers, replicaVer, snapFault, snapEvents, leaderVars, followerVars>>

-----------------------------------------------------------------------------
(* A follower's store *)

\* The leader's heartbeat creates the replica, with the version it carries.
CreateFollower(p) ==
  /\ p \in behind /\ replicaVer[p] = 0
  /\ replicaVer' = [replicaVer EXCEPT ![p] = cellVer]
  /\ UNCHANGED <<behind, streams, answers, snapFault, snapEvents, leaderVars, queueVars, followerVars>>

Unread(p, k) ==
  [streams EXCEPT ![p] = IF Len(@[k]) = 1 THEN WithoutAt(@, k)
                         ELSE [@ EXCEPT ![k] = Tail(streams[p][k])]]

\* onSnapshotAsk; pendingSnapshots is always empty.
OnSnapshotAsk(p, h) ==
  /\ answers' = [answers EXCEPT ![p] = @ \cup
       {[kind |-> IF replicaVer[p] = 0 \/ h.ver < replicaVer[p] THEN "reject" ELSE "accept",
         head |-> h]}]
  /\ UNCHANGED <<snapFault, followerVars>>

\* raft's restore: a snapshot older than what is there or awaited is ignored.
OnSnap(p, h) ==
  /\ awaited' = IF /\ replicaVer[p] # 0 /\ h.index > restored[p]
                   /\ awaited[p] = <<>> \/ h.index > awaited[p][1].index
                THEN [awaited EXCEPT ![p] = <<h>>] ELSE awaited
  /\ UNCHANGED <<answers, tmpFile, gzFile, restored, mixed, snapFault>>

\* Every chunk but the last is of LimitSnapChunkBytes.
Size(f) == 2 * Len(f) - Cardinality({k \in DOMAIN f : f[k] = Chunks})

\* check: the size of the .tmp against the size the last chunk carries.
SizeMatches_Any(f) == f # <<>>
SizeMatches(f) == Size(f) = Size(Whole)

\* onSnapshotChunk and ReceiveSnapData.
OnSnapshotChunk(p, h, c) ==
  LET f == Append(IF c = 1 THEN <<>> ELSE tmpFile[p][h.index], c)
      renamed == c = Chunks /\ SizeMatches(f)
  IN /\ tmpFile' = [tmpFile EXCEPT ![p][h.index] = IF renamed THEN <<>> ELSE f]
     /\ gzFile' = IF renamed THEN [gzFile EXCEPT ![p][h.index] = f] ELSE gzFile
     /\ snapFault' = IF c = Chunks /\ ~renamed THEN "received snap data failed" ELSE snapFault
     /\ answers' = IF renamed
                   THEN [answers EXCEPT ![p] = @ \cup {[kind |-> "received", head |-> h]}]
                   ELSE answers
     /\ UNCHANGED <<awaited, restored>>

\* An older connection holds chunks of the same file.
OutOfTurn(p, k) ==
  \E j \in 1..(k - 1) :
    LET older == Head(streams[p][j]) IN
    older.kind = "chunk" /\ older.head.index = Head(streams[p][k]).head.index

\* doConnection reads the next message of one connection.
ReadMessage(p, k) ==
  /\ k \in DOMAIN streams[p]
  /\ LET m == Head(streams[p][k]) IN
     \/ m.kind = "ask" /\ OnSnapshotAsk(p, m.head)
     \/ m.kind \in {"raft", "snap"} /\ OnSnap(p, m.head)
     \/ /\ m.kind = "chunk" /\ OnSnapshotChunk(p, m.head, m.chunk)
        /\ mixed' = (mixed \/ OutOfTurn(p, k))
  /\ streams' = Unread(p, k)
  /\ UNCHANGED <<behind, replicaVer, snapEvents, leaderVars, queueVars>>

\* handleReady with the awaited file, and the snapshot's Apply, which removes the files.
RestoreSnapshot(p) ==
  /\ awaited[p] # <<>> /\ gzFile[p][awaited[p][1].index] # <<>>
  /\ LET h == awaited[p][1] IN
     /\ restored' = [restored EXCEPT ![p] = h.index]
     /\ replicaVer' = [replicaVer EXCEPT ![p] = h.ver]
     /\ tmpFile' = [tmpFile EXCEPT ![p][h.index] = <<>>]
     /\ gzFile' = [gzFile EXCEPT ![p][h.index] = <<>>]
  /\ awaited' = [awaited EXCEPT ![p] = <<>>]
  /\ UNCHANGED <<behind, streams, answers, mixed, snapFault, snapEvents, leaderVars, queueVars>>

-----------------------------------------------------------------------------
(* What disturbs a transfer *)

\* The leader applies an entry, or a split.
Advance(v) ==
  /\ Disturbed
  /\ index' = index + 1 /\ cellVer' = cellVer + v
  /\ UNCHANGED <<behind, generated, snapJobs, sentFiles, streams, answers, replicaVer, snapFault,
                 queueVars, followerVars>>

\* A write fails after n messages: the connection is closed and the message comes back.
BreakConnection(p, n) ==
  /\ Disturbed
  /\ Writable(p) /\ n < Len(Content(p))
  /\ streams' = Writes(p, SubSeq(Content(p), 1, n))
  /\ outq' = Again(p) /\ sender' = [sender EXCEPT ![p] = "idle"]
  /\ UNCHANGED <<behind, sendingSnap, sendReg, answers, replicaVer, snapFault, leaderVars, followerVars>>

\* A connection is lost with what was written to it.
LoseStream(p, k) ==
  /\ Disturbed
  /\ k \in DOMAIN streams[p]
  /\ streams' = [streams EXCEPT ![p] = WithoutAt(@, k)]
  /\ UNCHANGED <<behind, answers, replicaVer, snapFault, leaderVars, queueVars, followerVars>>

\* The ACK of an Ask came before waitACK was waiting for it, or not in time:
\* doWaitTimeoutSnapshot puts it in the queue again.  (A file that is sent again is
\* dropped by TakeSnapshotMessage.)
ResendAsk(p) ==
  /\ Disturbed
  /\ Writable(p) /\ Taken(p).kind = "ask"
  /\ streams' = Writes(p, Content(p))
  /\ outq' = Again(p) /\ sender' = [sender EXCEPT ![p] = "idle"]
  /\ UNCHANGED <<behind, sendingSnap, sendReg, answers, replicaVer, snapFault, leaderVars, followerVars>>

\* doExecChangePeer removes the follower: forceRemoveSendingSnapshot, and the replica goes.
RemoveFollower(p) ==
  /\ Disturbed
  /\ p \in behind
  /\ behind' = behind \ {p}
  /\ sendingSnap' = [sendingSnap EXCEPT ![p] = <<>>]
  /\ replicaVer' = [replicaVer EXCEPT ![p] = 0] /\ awaited' = [awaited EXCEPT ![p] = <<>>]
  /\ UNCHANGED <<outq, sender, sendReg, streams, answers, tmpFile, gzFile, restored, mixed,
                 snapFault, leaderVars>>

\* The collection of files older than two hours, on the leader's store or a follower's.
CollectFiles(i) ==
  /\ Disturbed
  /\ \/ i \in sentFiles /\ sentFiles' = sentFiles \ {i} /\ UNCHANGED <<tmpFile, gzFile>>
     \/ \E p \in Followers :
          /\ tmpFile[p][i] \o gzFile[p][i] # <<>>
          /\ tmpFile' = [tmpFile EXCEPT ![p][i] = <<>>]
          /\ gzFile' = [gzFile EXCEPT ![p][i] = <<>>]
          /\ UNCHANGED sentFiles
  /\ UNCHANGED <<behind, index, cellVer, generated, snapJobs, streams, answers, replicaVer, awaited,
                 restored, mixed, snapFault, queueVars>>

Raft(p) == CreateFollower(p) \/ StartGenerate(p) \/ SendSnap(p)
Sender(p) == \/ TakeSnapshotMessage(p) \/ WriteSnapshotMessage(p) \/ CannotWrite(p)
             \/ SendingIsNil(p) \/ FinishSending(p)
Read(p) == \E k \in 1..Len(streams[p]) : ReadMessage(p, k)
Ack(p) == \E a \in answers[p] : OnSnapshotAck(p, a)

Disturbance ==
  \/ \E v \in {0, 1} : Advance(v)
  \/ \E i \in Indexes : CollectFiles(i)
  \/ \E p \in Followers :
       \/ ResendAsk(p) \/ RemoveFollower(p)
       \/ \E n \in 0..Chunks : BreakConnection(p, n)
       \/ \E k \in 1..Len(streams[p]) : LoseStream(p, k)

\* A log.Fatalf ends the behaviour.
SnapNext ==
  /\ snapFault = "none"
  /\ \/ RunSnapJob
     \/ \E p \in Followers : Raft(p) \/ Sender(p) \/ Read(p) \/ Ack(p) \/ RestoreSnapshot(p)
     \/ Disturbance

\* Every goroutine goes on, and what is on a connection is read.
SnapFairness ==
  /\ WF_snapVars(RunSnapJob)
  /\ \A p \in Followers :
       /\ WF_snapVars(Raft(p)) /\ WF_snapVars(Sender(p)) /\ WF_snapVars(Read(p))
       /\ WF_snapVars(Ack(p)) /\ WF_snapVars(RestoreSnapshot(p))

SnapSpec == SnapInit /\ [][SnapNext]_snapVars /\ SnapFairness

-----------------------------------------------------------------------------
\* Every .gz of a receiving store is the whole file of the leader, whatever part of it
\* was sent twice or broken off, or collected while it was received: handleReady takes the
\* existence of the .gz as the sign that it may apply the snapshot (ReceiveSnapData starts
\* over with a first chunk, check compares the sizes).  Not so when the connections that
\* brought a file twice were read alternately: chunks of the two streams may add up to
\* the size of the file.
FilesWhole ==
  mixed \/ \A p \in Followers : \A i \in Indexes : gzFile[p][i] \in {<<>>, Whole}

\* A follower that lags alone gets its snapshot if nothing disturbs the transfer, and
\* the leader's table of snapshots being sent forgets it, so that the next one of the
\* term is not refused (addPendingSnapshot, removeSendingSnapshot).
SnapshotArrives ==
  (Cardinality(behind) = 1 /\ [](snapEvents = 0)) =>
    <>[](\A p \in behind : restored[p] # 0 /\ sendingSnap[p] = <<>>)

\* doSendSnapshotMessage finds the snapshot it sends: its assertion says "bug: sending
\* snapshot can not be nil".
SendingFound == snapFault # "sending snapshot can not be nil"
=============================================================================
