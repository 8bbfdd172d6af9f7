---------------------------- MODULE ProxyRequests ---------------------------
(***************************************************************************)
(* A redis command on its way through the proxy (pkg/proxy): its requests  *)
(* are forwarded to the store that leads their cell as far as the proxy    *)
(* knows, a request the store refuses waits for a refresh of the ranges,   *)
(* the answers of the parts of an MGET are merged.                         *)
(* The cell's leader moves between two stores: after move m it is at store *)
(* m % 2.  The proxy hears of the moves later, maybe of several at once    *)
(* (module Watchers: RangesArrive).  Of syncEpoch is kept whether the      *)
(* epoch of a request is that of the last refresh.                         *)
(***************************************************************************)
EXTENDS Integers, Sequences, FiniteSets

CONSTANTS MaxMoves,      \* bound on the moves of the leader
          MaxLosses      \* bound on broken connections to stores and failed attempts

ASSUME MaxMoves \in Nat /\ MaxLosses \in Nat

Stores == 0..1
ConnectError == <<>>     \* the reply errConnect or a failed write makes

VARIABLES orderly,       \* no race between lookup and refresh, none between answers, and
                         \* connecting fails only for requests of an earlier epoch
          moves,         \* moves of the leader
          seen,          \* the last one the proxy heard of
          synced,        \* whether the proxy has ranges: no address is known before
          parts,         \* the requests of the command: one, or those of an MGET
          where,         \* where each request is
          dest,          \* the store a request was last sent to
          fresh,         \* whether no refresh happened since the request's epoch
          up,            \* connected backends
          routing,       \* the requests responses are routed to
          reply,         \* aggregationReq.reply: answers still to come
          answers,       \* aggregationReq.parts
          sentReplies,   \* what the client is sent
          losses

rangeVars   == <<orderly, moves, seen, synced>>
requestVars == <<parts, where, dest, fresh, up, routing, reply, answers, sentReplies, losses>>
proxyVars   == <<rangeVars, requestVars>>

ProxyInit ==
  /\ orderly \in BOOLEAN /\ moves = 0 /\ seen = 0 /\ synced = FALSE
  /\ parts \in {{1}, {1, 2}}
  /\ where = [p \in 1..2 |-> IF p \in parts THEN "queued" ELSE "done"]
  /\ dest = [p \in 1..2 |-> 0]
  /\ fresh = [p \in 1..2 |-> TRUE]
  /\ up = {} /\ routing = {}
  /\ reply = Cardinality(parts) /\ answers = [p \in parts |-> 0]
  /\ sentReplies = <<>> /\ losses = 0

Leads(s) == s = moves % 2

To(p, place) == where' = [where EXCEPT ![p] = place]

-----------------------------------------------------------------------------
\* The worker: handleReq looks the leader's store up; without one the request waits.
HandleReq(p) ==
  /\ where[p] = "queued"
  /\ IF synced
     THEN To(p, "found") /\ dest' = [dest EXCEPT ![p] = seen % 2]
     ELSE To(p, "retry") /\ UNCHANGED dest
  /\ UNCHANGED <<rangeVars, parts, fresh, up, routing, reply, answers, sentReplies, losses>>

\* forwardTo: the request takes the present epoch and joins the backend's queue.
ForwardTo(p) ==
  /\ where[p] = "found"
  /\ To(p, "sending")
  /\ fresh' = [fresh EXCEPT ![p] = TRUE]
  /\ up' = up \cup {dest[p]}
  /\ routing' = routing \cup {p}
  /\ UNCHANGED <<rangeVars, parts, dest, reply, answers, sentReplies, losses>>

\* getConn cannot connect: the request keeps its epoch and waits.
ForwardFails(p) ==
  /\ where[p] = "found" /\ dest[p] \notin up
  /\ losses < MaxLosses /\ (orderly => ~fresh[p])
  /\ losses' = losses + 1
  /\ To(p, "retry")
  /\ UNCHANGED <<rangeVars, parts, dest, fresh, up, routing, reply, answers, sentReplies>>

\* backend.writeLoop: the request is written, or its client is told of the error.
Flush(p) ==
  /\ where[p] = "sending"
  /\ IF dest[p] \in up
     THEN To(p, "sent") /\ UNCHANGED sentReplies
     ELSE To(p, "done") /\ sentReplies' = Append(sentReplies, ConnectError)
  /\ UNCHANGED <<rangeVars, parts, dest, fresh, up, routing, reply, answers, losses>>

\* The connection to a store breaks: readLoop closes it; nobody answers what was sent.
LoseBackend(s) ==
  /\ s \in up /\ losses < MaxLosses
  /\ losses' = losses + 1
  /\ up' = up \ {s}
  /\ where' = [p \in 1..2 |-> IF dest[p] = s /\ where[p] \in {"sent", "answered", "refused"}
                               THEN "lost" ELSE where[p]]
  /\ UNCHANGED <<rangeVars, parts, dest, fresh, routing, reply, answers, sentReplies>>

\* The store executes the request, or refuses it as it does not lead the cell.
StoreAnswers(p) ==
  /\ where[p] = "sent"
  /\ To(p, IF Leads(dest[p]) THEN "answered" ELSE "refused")
  /\ UNCHANGED <<rangeVars, parts, dest, fresh, up, routing, reply, answers, sentReplies,
                 losses>>

-----------------------------------------------------------------------------
(* redisSession.resp and aggregationReq. *)

AddPart_AnyIsLast(p) ==
  /\ answers' = [answers EXCEPT ![p] = p]
  /\ reply' = reply - 1
  /\ sentReplies' = Append(sentReplies, answers')

\* addPart; the last answer sends the merged reply.
AddPart(p) ==
  /\ answers' = [answers EXCEPT ![p] = p]
  /\ reply' = reply - 1
  /\ sentReplies' = IF reply = 1 THEN Append(sentReplies, answers') ELSE sentReplies

\* onResp: a raft error makes the request wait, an answer goes to the client.
onResp(p) ==
  /\ where[p] \in {"answered", "refused"} /\ p \in routing
  /\ routing' = routing \ {p}
  /\ IF where[p] = "refused"
     THEN To(p, "retry") /\ UNCHANGED <<reply, answers, sentReplies>>
     ELSE To(p, "done") /\ AddPart(p)
  /\ UNCHANGED <<rangeVars, parts, dest, fresh, up, losses>>

\* Two backends call addPart at once: reply is decremented without exclusion, so that one
\* decrement is lost, or both callers read zero after theirs.
RacingAnswers ==
  /\ ~orderly /\ Cardinality(parts) = 2 /\ dest[1] # dest[2]
  /\ \A p \in parts : where[p] = "answered" /\ p \in routing
  /\ where' = [p \in 1..2 |-> "done"] /\ routing' = {}
  /\ answers' = [p \in parts |-> p]
  /\ \/ reply' = 1 /\ UNCHANGED sentReplies
     \/ reply' = 0 /\ sentReplies' = sentReplies \o <<answers', answers'>>
  /\ UNCHANGED <<rangeVars, parts, dest, fresh, up, losses>>

\* The retry loop forwards a request once its epoch is not that of the last refresh.
Retry(p) ==
  /\ where[p] = "retry" /\ ~fresh[p]
  /\ To(p, "queued")
  /\ UNCHANGED <<rangeVars, parts, dest, fresh, up, routing, reply, answers, sentReplies,
                 losses>>

-----------------------------------------------------------------------------
(* The proxy's ranges. *)

Refreshed_SameEpoch == synced' = TRUE /\ UNCHANGED fresh

\* refreshRanges and refreshRange count the epoch up.
Refreshed ==
  /\ synced' = TRUE
  /\ fresh' = [p \in 1..2 |-> FALSE]

Refresh ==
  /\ seen < moves \/ ~synced
  /\ orderly => \A p \in parts : where[p] # "found"
  /\ \E m \in (IF synced THEN seen + 1 ELSE 0)..moves : seen' = m
  /\ Refreshed
  /\ UNCHANGED <<orderly, moves, parts, where, dest, up, routing, reply, answers, sentReplies,
                 losses>>

Move ==
  /\ moves < MaxMoves
  /\ moves' = moves + 1
  /\ UNCHANGED <<orderly, seen, synced, requestVars>>

RequestStep(p) ==
  HandleReq(p) \/ ForwardTo(p) \/ Flush(p) \/ StoreAnswers(p) \/ onResp(p) \/ Retry(p)

ProxyNext ==
  \/ \E p \in parts : RequestStep(p) \/ ForwardFails(p)
  \/ \E s \in Stores : LoseBackend(s)
  \/ RacingAnswers \/ Refresh \/ Move

\* Every goroutine of the proxy runs on, the store answers, and the proxy hears of the
\* last move.  Nothing has to break or to move.
ProxyFairness == (\A p \in 1..2 : WF_proxyVars(RequestStep(p))) /\ WF_proxyVars(Refresh)

ProxySpec == ProxyInit /\ [][ProxyNext]_proxyVars /\ ProxyFairness

-----------------------------------------------------------------------------
\* A command is answered once, and the values of an MGET come in the order of its keys
\* whatever the order of the answers.  An error of a connection answers a part of an
\* MGET by itself, so that only other replies are counted for it.
OneReply ==
  orderly =>
    LET merged == {k \in DOMAIN sentReplies : sentReplies[k] # ConnectError} IN
    /\ \A j, k \in merged : j = k
    /\ \A k \in merged : sentReplies[k] = [p \in parts |-> p]
    /\ parts = {1} => Len(sentReplies) <= 1

\* A request that waits is forwarded again and ends at a store that executes it, unless
\* it is lost with a connection: when it begins to wait, because a store refused it or
\* had no address, the refresh that corrects this is still to come.  Not
\* so when the ranges were refreshed between handleReq's lookup and the epoch forwardTo
\* stamps, or when connecting failed without a change of the ranges.
Served == orderly => \A p \in 1..2 : (where[p] = "retry") ~> (where[p] \in {"done", "lost"})
=============================================================================
