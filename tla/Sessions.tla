------------------------------- MODULE Sessions -----------------------------
(***************************************************************************)
(* One connection of a store (pkg/server/redis_server.go, session.go): the *)
(* read goroutine takes commands off the connection and hands them to the  *)
(* store, the store answers each one through RedisServer.onResp, and the   *)
(* write goroutine takes the responses off the session's queue and writes  *)
(* them.  At the other end is a redis client, or a proxy: then responses   *)
(* travel over a link (module Links), and the proxy sends again what the   *)
(* store refused and writes the other replies to its client (pkg/proxy).   *)
(* The goroutines share the RWMutex of the session and the response pool.  *)
(***************************************************************************)
EXTENDS RedisCommands

CONSTANTS Scripts,        \* the sequences of commands a connection may carry
          BatchCliResps,  \* how many responses the writer takes at once
          MaxRaftErrors   \* how many commands the store may refuse

ASSUME BatchCliResps \in Nat \ {0} /\ MaxRaftErrors \in Nat

VARIABLES fromProxy,      \* whether a proxy is at the other end
          script,         \* the commands of this connection, [type, n]
          todo,           \* numbers of the commands still to be read
          inflight,       \* numbers of the commands the store works on
          answering,      \* [id, body]: found their session, not queued yet
          resps,          \* the session's queue, [id, body]
          routed,         \* whether the session is in the routing table
          reader,         \* "reading", "closing" (waits for the lock) or "closed"
          writer,         \* "idle", "locked" (holds the lock), "panicked" or "ended"
          respPool,       \* contents of the pooled responses
          wire,           \* responses on the way to the proxy: a channel (Links!IsChannel)
          replies,        \* what the redis client reads, [id, values]
          produced,       \* the response each command was answered with
          raftErrors,
          crashed         \* "none", or the log.Fatalf that ended the process

storeVars   == <<inflight, answering, raftErrors, crashed>>
sessionVars == <<fromProxy, script, todo, resps, routed, reader, writer, respPool, wire,
                 replies, produced, storeVars>>

RaftError == 1            \* raftcmdpb.RaftError

Executors(type) ==
  IF type \in DOMAIN redisWriteHandles THEN <<redisWriteHandles[type]>>
  ELSE IF type \in DOMAIN redisReadHandles THEN <<redisReadHandles[type]>>
  ELSE <<>>

SessionInit ==
  /\ fromProxy \in BOOLEAN
  /\ script \in Scripts
  /\ todo = [i \in DOMAIN script |-> i]
  /\ inflight = {} /\ answering = {} /\ resps = <<>> /\ routed = TRUE
  /\ reader = "reading" /\ writer = "idle"
  /\ respPool = {} /\ wire = <<>> /\ replies = <<>>
  /\ produced = [id \in {} |-> 0] /\ raftErrors = 0 /\ crashed = "none"

-----------------------------------------------------------------------------
(* Responses and their pool (pkg/pool). *)

\* AcquireResponse, then assignments to the fields of `r` that are not zero.
Filled(r) ==
  {[f \in DOMAIN r |-> IF r[f] # NoResult[f] THEN r[f] ELSE content[f]] :
     content \in respPool \cup {NoResult}}

ReleaseResponse_NoReset(r) == respPool' = {r}
ReleaseResponse(r) == respPool' = {NoResult}

Answer(id, r) == produced' = [i \in DOMAIN produced \cup {id} |-> IF i = id THEN r ELSE produced[i]]

\* session.onResp: Put, which a disposed queue refuses.
Queued(id, body) ==
  IF reader = "closed" THEN resps ELSE Append(resps, [id |-> id, body |-> body])

-----------------------------------------------------------------------------
(* The read goroutine: RedisServer.doConnection. *)

\* What the server answers without asking the store: onRedisCommand with the
\* argument checks of the handlers, and onProxyReq.
Local(c) ==
  IF c.type \in localHandlers THEN {Status}
  ELSE IF fromProxy THEN {Err(NotSupport) : n \in {c.n} \cap {0}}
  ELSE IF c.type \notin DOMAIN handlers THEN {Err(NotSupport)}
  ELSE {Err(Invalid) : ok \in {handlers[c.type][c.n]} \cap {FALSE}}

\* A command is answered locally, or refused because the store has no cell for
\* its key, or given to the store.
ReadCommand ==
  /\ crashed = "none" /\ reader = "reading" /\ todo # <<>>
  /\ LET id == Head(todo)
         local == Local(script[id])
         refused == IF local = {} /\ ~fromProxy THEN {Err(NoCell)} ELSE local
     IN  \/ /\ \E r \in refused : \E body \in Filled(r) :
                 /\ resps' = Queued(id, [body EXCEPT !.UUID = <<id>>])
                 /\ Answer(id, r)
            /\ UNCHANGED inflight
         \/ /\ local = {}
            /\ inflight' = inflight \cup {id}
            /\ UNCHANGED <<resps, produced>>
  /\ todo' = Tail(todo)
  /\ UNCHANGED <<fromProxy, script, routed, reader, writer, respPool, wire, replies,
                 answering, raftErrors, crashed>>

\* Read fails: the deferred function deletes the route, then asks for the lock.
Disconnect ==
  /\ crashed = "none" /\ reader = "reading"
  /\ routed' = FALSE /\ reader' = "closing"
  /\ UNCHANGED <<fromProxy, script, todo, resps, writer, respPool, wire, replies, produced,
                 storeVars>>

\* session.close, once no one holds the lock: Dispose, and release what is queued.
Close ==
  /\ crashed = "none" /\ reader = "closing" /\ writer \in {"idle", "ended"}
  /\ reader' = "closed" /\ resps' = <<>>
  /\ IF resps # <<>> THEN ReleaseResponse(Last(resps).body) ELSE UNCHANGED respPool
  /\ UNCHANGED <<fromProxy, script, todo, routed, writer, wire, replies, produced, storeVars>>

-----------------------------------------------------------------------------
(* The store: cmd.resp, then RedisServer.onResp. *)

\* onResp looks the session up; the response is released if it is gone.
Found(id, r) ==
  IF routed
  THEN /\ \E body \in Filled(r) :
            answering' = answering \cup {[id |-> id, body |-> [body EXCEPT !.UUID = <<id>>]]}
       /\ Answer(id, r) /\ UNCHANGED respPool
  ELSE UNCHANGED <<answering, produced>> /\ ReleaseResponse(r)

\* Answered with a header: NotLeader, StaleEpoch, StoreNotMatch; too large.
Refuse ==
  /\ crashed = "none" /\ raftErrors < MaxRaftErrors
  /\ \E id \in inflight, type \in {RaftError, 0} :
       /\ Found(id, With([Type |-> <<type>>, ErrorResult |-> <<Raft>>,
                          Error |-> <<Raft>>]))
       /\ inflight' = inflight \ {id}
  /\ raftErrors' = raftErrors + 1
  /\ UNCHANGED <<fromProxy, script, todo, resps, routed, reader, writer, wire, replies, crashed>>

\* Executed.  A command without executor adds no response, and cmd.resp ends
\* the process because requests and responses differ in number.
Execute ==
  /\ crashed = "none"
  /\ \E id \in inflight :
       LET c == script[id]
       IN  /\ IF Executors(c.type) = <<>>
              THEN crashed' = "count" /\ UNCHANGED <<answering, produced, respPool>>
              ELSE UNCHANGED crashed /\ \E r \in Executors(c.type)[1][c.n] : Found(id, r)
           /\ inflight' = inflight \ {id}
  /\ UNCHANGED <<fromProxy, script, todo, resps, routed, reader, writer, wire, replies,
                 raftErrors>>

\* session.onResp, on the session found before.
OnResp ==
  /\ crashed = "none"
  /\ \E a \in answering : resps' = Queued(a.id, a.body) /\ answering' = answering \ {a}
  /\ UNCHANGED <<fromProxy, script, todo, routed, reader, writer, respPool, wire, replies,
                 produced, inflight, raftErrors, crashed>>

-----------------------------------------------------------------------------
(* The write goroutine: session.writeLoop. *)

\* RLock, which lets a waiting Lock go first.
WriterLock ==
  /\ crashed = "none" /\ writer = "idle" /\ reader # "closing"
  /\ writer' = "locked"
  /\ UNCHANGED <<fromProxy, script, todo, resps, routed, reader, respPool, wire, replies,
                 produced, storeVars>>

\* Get returns some responses: each is written and released, then RUnlock.  A
\* panic of doResp is recovered, and the lock is kept.
WriteResponses ==
  /\ crashed = "none" /\ writer = "locked" /\ resps # <<>>
  /\ LET n == IF Len(resps) < BatchCliResps THEN Len(resps) ELSE BatchCliResps
         batch == SubSeq(resps, 1, n)
         panics == ~fromProxy /\ \E r \in Range(batch) :
                     \E v \in Range(doResp(r.body)) : v.kind = "panic"
     IN  /\ resps' = SubSeq(resps, n + 1, Len(resps))
         /\ writer' = IF panics THEN "panicked" ELSE "idle"
         /\ wire' = wire \o IF fromProxy
              THEN [k \in 1..n |-> batch[k].body] ELSE <<>>
         /\ replies' = replies \o IF fromProxy \/ panics THEN <<>>
              ELSE [k \in 1..n |-> [id |-> batch[k].id, values |-> doResp(batch[k].body)]]
         /\ ReleaseResponse(Last(batch).body)
  /\ UNCHANGED <<fromProxy, script, todo, routed, reader, produced, storeVars>>

\* Get fails: the queue is disposed.
WriterEnd ==
  /\ crashed = "none" /\ writer = "locked" /\ reader = "closed"
  /\ writer' = "ended"
  /\ UNCHANGED <<fromProxy, script, todo, resps, routed, reader, respPool, wire, replies,
                 produced, storeVars>>

-----------------------------------------------------------------------------
\* The proxy: readLoop decodes a response, onResp routes it by its UUID; a
\* raft error puts the request back among those to send.
ProxyOnResp_Drop ==
  /\ wire # <<>>
  /\ LET r == Head(wire)
         id == r.UUID[1]
     IN  IF r.Type = <<RaftError>>
         THEN UNCHANGED <<todo, replies>>
         ELSE /\ replies' = Append(replies, [id |-> id, values |-> doResp(r)])
              /\ UNCHANGED todo
  /\ wire' = Tail(wire)
  /\ UNCHANGED <<fromProxy, script, resps, routed, reader, writer, respPool, produced, storeVars>>
ProxyOnResp ==
  /\ wire # <<>>
  /\ LET r == Head(wire)
         id == r.UUID[1]
     IN  IF r.Type = <<RaftError>>
         THEN todo' = Append(todo, id) /\ UNCHANGED replies
         ELSE /\ replies' = Append(replies, [id |-> id, values |-> doResp(r)])
              /\ UNCHANGED todo
  /\ wire' = Tail(wire)
  /\ UNCHANGED <<fromProxy, script, resps, routed, reader, writer, respPool, produced, storeVars>>

SessionNext ==
  \/ ReadCommand \/ Disconnect \/ Close
  \/ Refuse \/ Execute \/ OnResp
  \/ WriterLock \/ WriteResponses \/ WriterEnd \/ ProxyOnResp

\* Both goroutines, the store and the proxy run on: some work that can be done
\* is done.  Clients need not disconnect, the store need not refuse.
Work ==
  \/ ReadCommand \/ Close \/ OnResp \/ WriterLock \/ WriterEnd
  \/ Execute \/ WriteResponses \/ ProxyOnResp

SessionFairness == WF_sessionVars(Work)

SessionSpec == SessionInit /\ [][SessionNext]_sessionVars /\ SessionFairness

-----------------------------------------------------------------------------
Result(id) == SelectSeq(replies, LAMBDA r : r.id = id)

\* The two responses a client cannot tell from several replies or from none:
\* a nil value, and the list of errors of HMGET.
Single(r) == r.ErrorResults = <<>> /\ doResp(r) # <<>>

(***************************************************************************)
(* Every command has at most one reply, and it is the one reply value of   *)
(* the response the store gave to this command: no other response of the   *)
(* pool shows through, the way over the proxy does not change it, and what *)
(* the proxy sent again is not answered twice.                             *)
(***************************************************************************)
OwnReply ==
  \A id \in DOMAIN script :
    /\ Len(Result(id)) <= 1
    /\ \A k \in DOMAIN Result(id) :
         /\ Result(id)[k].values = doResp(produced[id])
         /\ Single(produced[id]) => Len(Result(id)[k].values) = 1

(***************************************************************************)
(* As long as the connection and the process live every command is         *)
(* answered in the end, also when the store refuses it and the proxy has   *)
(* to send it again.                                                       *)
(***************************************************************************)
Answered ==
  \A id \in 1..2 : (id \in DOMAIN script) ~>
    (Result(id) # <<>> \/ reader # "reading" \/ crashed # "none")
=============================================================================
