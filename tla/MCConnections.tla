---------------------------- MODULE MCConnections ---------------------------
(***************************************************************************)
(* Instances of Links, Sessions, Watchers and ProxyRequests.  A behaviour  *)
(* is one of a link, or of a client connection, or of a proxy's watcher,   *)
(* or of a command in a proxy: nothing of one is read or written by        *)
(* another, the parts that are not there stay in a final state.            *)
(***************************************************************************)
EXTENDS Links, Sessions, Watchers, ProxyRequests

Msg(type, body) == [type |-> type, body |-> body]
All(type) == {Msg(type, m) : m \in Samples(In(type))}
Few(type) == {Msg(type, m) : m \in {Least(In(type)), Full(In(type)), Present(In(type))}}

\* Every message type alone; pairs of those that use a pool or share a stream.
MCBatches ==
  {<<m>> : m \in UNION {All(type) : type \in Types}}
    \cup UNION {{<<a, b>> : a, b \in Few(type)} :
                  type \in {"RaftMessage", "Request", "Response", "WatcherNotifyRsp"}}

Commands == {[type |-> t, n |-> n] : t \in DOMAIN handlers \cup localHandlers, n \in ArgCounts}

\* A command whose response the server cannot write: it has no Withscores, which
\* doResp dereferences.
Broken == {"ZRangeByScore"}

Mixed == {[type |-> "Get", n |-> 1], [type |-> "ZRange", n |-> 3], [type |-> "Ping", n |-> 0]}

\* Every command with every number of arguments alone; pairs of some.
MCScripts ==
  {<<c>> : c \in {x \in Commands : x.type \notin Broken}} \cup {<<a, b>> : a, b \in Mixed}

NoLink ==
  /\ toSend = <<>> /\ queue = <<>> /\ stream = <<>> /\ avail = 0
  /\ pool = [p \in {"src", "dst"} |-> {}]
  /\ fault = "none" /\ flying = 0 /\ chan = <<>> /\ got = <<>>

NoSession ==
  /\ fromProxy = FALSE /\ script = <<>> /\ todo = <<>> /\ inflight = {} /\ answering = {}
  /\ resps = <<>> /\ routed = FALSE /\ reader = "closed" /\ writer = "ended"
  /\ respPool = {} /\ wire = <<>> /\ replies = <<>> /\ produced = [id \in {} |-> 0]
  /\ raftErrors = 0 /\ crashed = "none"

NoWatcher ==
  /\ benign = TRUE /\ cur = MaxChanges /\ known = MaxChanges
  /\ wstate = "ready" /\ first = 0 /\ items = <<>> /\ lastNotify = 0 /\ notifies = <<>>
  /\ connected = FALSE /\ toWatcher = <<>> /\ toPD = <<>>
  /\ localOffset = 0 /\ serverOffset = 0 /\ syncing = FALSE
  /\ readyC = <<>> /\ resuming = FALSE /\ badOffset = FALSE /\ breaks = MaxBreaks

NoRequest ==
  /\ orderly = TRUE /\ moves = MaxMoves /\ seen = MaxMoves /\ synced = TRUE
  /\ parts = {1} /\ where = [p \in 1..2 |-> "done"] /\ dest = [p \in 1..2 |-> 0]
  /\ fresh = [p \in 1..2 |-> TRUE] /\ up = {} /\ routing = {} /\ reply = 0
  /\ answers = [p \in parts |-> p] /\ sentReplies = <<answers>> /\ losses = MaxLosses

otherVars == <<watchVars, proxyVars>>

Init ==
  \/ LinkInit /\ NoSession /\ NoWatcher /\ NoRequest
  \/ NoLink /\ SessionInit /\ NoWatcher /\ NoRequest
  \/ NoLink /\ NoSession /\ WatchInit /\ NoRequest
  \/ NoLink /\ NoSession /\ NoWatcher /\ ProxyInit

Next ==
  \/ LinkNext /\ UNCHANGED <<sessionVars, otherVars>>
  \/ SessionNext /\ UNCHANGED <<linkVars, otherVars>>
  \/ WatchNext /\ UNCHANGED <<linkVars, sessionVars, proxyVars>>
  \/ ProxyNext /\ UNCHANGED <<linkVars, sessionVars, watchVars>>

allVars == <<linkVars, sessionVars, otherVars>>

Spec == Init /\ [][Next]_allVars /\ SessionFairness /\ WatchFairness /\ ProxyFairness
=============================================================================
