----------------------------- MODULE ProxyProofs ----------------------------
(***************************************************************************)
(* The proxy, for any number of changed ranges, broken connections, moves  *)
(* of leaders and lost requests: the watcher never asks the driver for an  *)
(* offset beyond its queue, and a command is answered once.                *)
(***************************************************************************)
EXTENDS Watchers, ProxyRequests, SequenceTheorems,
        FiniteSetTheorems, TLAPS

-----------------------------------------------------------------------------
(* The offsets of a watcher and of the driver's queue.                     *)
(*                                                                         *)
(* The driver forgets its queue only together with the connection, and a   *)
(* connection begins at offset 0.  So while there is one, no offset of the *)
(* watcher, of a sync request under way or of an answer under way exceeds  *)
(* the queue's.  Notifications may: they survive a pause.                  *)

Messages(max) == [notify : Nat] \cup [events : Seq(Int), offset : 0..max]

WatchTypes ==
  /\ cur \in Nat /\ first \in Nat /\ items \in Seq(Int) /\ notifies \in Seq(Nat)
  /\ localOffset \in Nat

WatchInv ==
  /\ WatchTypes
  /\ ~badOffset
  /\ ~connected => toWatcher = <<>> /\ toPD = <<>>
  /\ connected => localOffset <= MaxOffset
  /\ toPD \in Seq(0..MaxOffset)
  /\ toWatcher \in Seq(Messages(MaxOffset))

\* One notification is a list of notifications.
LEMMA SingleSeq == ASSUME NEW S, NEW x \in S PROVE <<x>> \in Seq(S)
OBVIOUS

\* A longer queue takes every message that a shorter one takes (OffsetQueue.Add).
LEMMA MessagesGrow ==
  ASSUME NEW m \in Nat, NEW n \in Nat, m <= n
  PROVE  Seq(0..m) \subseteq Seq(0..n) /\ Seq(Messages(m)) \subseteq Seq(Messages(n))
<1>1. 0..m \subseteq 0..n
  OBVIOUS
<1>2. Messages(m) \subseteq Messages(n)
  BY <1>1 DEF Messages
<1> QED
  BY <1>1, <1>2

\* GetMaxOffset is an offset.
LEMMA MaxOffsetType == WatchTypes => MaxOffset \in Nat
<1> SUFFICES ASSUME WatchTypes PROVE MaxOffset \in Nat
  OBVIOUS
<1>1. first \in Nat /\ Len(items) \in Nat
  BY DEF WatchTypes
<1> QED
  BY <1>1 DEF MaxOffset

\* addWatcher makes a queue of two events and no connection.
LEMMA WatchInitInv == WatchInit => WatchInv
<1> SUFFICES ASSUME WatchInit PROVE WatchInv
  OBVIOUS
<1>1. WatchTypes
  BY DEF WatchInit, WatchTypes, NoEvent, EventInit
<1> QED
  BY <1>1 DEF WatchInit, WatchInv

\* notify makes the queue longer.
LEMMA ChangeInv == WatchInv /\ Change => WatchInv'
<1> SUFFICES ASSUME WatchInv, Change PROVE WatchInv'
  OBVIOUS
<1>1. WatchTypes
  BY DEF WatchInv
<1>2. Len(items) \in Nat /\ first + Len(items) \in Nat /\ cur + 1 \in Nat
  BY <1>1 DEF WatchTypes
<1>3. WatchTypes'
  <2>1. items' \in Seq(Int)
    <3>1. Append(items, cur + 1) \in Seq(Int)
      BY <1>1, <1>2, AppendProperties DEF WatchTypes
    <3> QED
      BY <1>1, <3>1, Zenon DEF WatchTypes, Change
  <2>2. notifies' \in Seq(Nat)
    <3>1. <<first + Len(items)>> \in Seq(Nat)
      BY <1>2, SingleSeq
    <3>2. notifies # <<>> => [notifies EXCEPT ![1] = first + Len(items)] \in Seq(Nat)
      BY <1>1, <1>2, EmptySeq, ExceptSeq DEF WatchTypes
    <3> QED
      BY <1>1, <3>1, <3>2, Zenon DEF WatchTypes, Change
  <2> QED
    BY <1>1, <1>2, <2>1, <2>2 DEF WatchTypes, Change, clientVars
<1>4. first' = first /\ Len(items') >= Len(items)
  BY <1>1, <1>2, AppendProperties DEF WatchTypes, Change
<1>5. MaxOffset <= MaxOffset'
  <2>1. Len(items') \in Nat
    BY <1>3 DEF WatchTypes
  <2> QED
    BY <1>1, <1>2, <1>4, <2>1 DEF WatchTypes, MaxOffset
<1>6. MaxOffset \in Nat /\ MaxOffset' \in Nat
  <2>1. first' \in Nat /\ Len(items') \in Nat
    BY <1>3 DEF WatchTypes
  <2> QED
    BY <1>1, <2>1, MaxOffsetType DEF MaxOffset
<1>7. UNCHANGED <<connected, toWatcher, toPD, localOffset, badOffset>>
  BY DEF Change, netVars, clientVars
<1>8. connected => localOffset <= MaxOffset'
  BY <1>1, <1>5, <1>6 DEF WatchInv, WatchTypes
<1> QED
  BY <1>3, <1>5, <1>6, <1>7, <1>8, MessagesGrow DEF WatchInv

\* start sends a notification; a connection it makes begins at offset 0.
LEMMA SendNotifyInv == WatchInv /\ SendNotify => WatchInv'
<1> SUFFICES ASSUME WatchInv, SendNotify PROVE WatchInv'
  OBVIOUS
<1>1. WatchTypes /\ MaxOffset \in Nat
  BY MaxOffsetType DEF WatchInv
<1>2. Head(notifies) \in Nat /\ Tail(notifies) \in Seq(Nat)
  BY <1>1 DEF WatchTypes, SendNotify
<1>3. UNCHANGED <<first, items, cur, badOffset>> /\ MaxOffset' = MaxOffset
  BY DEF SendNotify, MaxOffset
<1>4. WatchTypes'
  BY <1>1, <1>2, <1>3 DEF WatchTypes, SendNotify, Connect, netVars
<1>5. CASE wstate = "ready" /\ AllowSend(Head(notifies))
  <2>1. [notify |-> Head(notifies)] \in Messages(MaxOffset)
    BY <1>2 DEF Messages
  <2>2. connected' = TRUE /\ UNCHANGED toPD
        /\ toWatcher' = Append(toWatcher, [notify |-> Head(notifies)])
    BY <1>5 DEF SendNotify
  <2>3. localOffset' <= MaxOffset
    BY <1>1, <1>5 DEF SendNotify, Connect, WatchInv
  <2> QED
    BY <1>3, <1>4, <2>1, <2>2, <2>3 DEF WatchInv
<1>6. CASE ~(wstate = "ready" /\ AllowSend(Head(notifies)))
  BY <1>3, <1>4, <1>6 DEF SendNotify, WatchInv, netVars
<1> QED
  BY <1>5, <1>6

\* The queue and the connection are forgotten together, whether the driver pauses
\* the watcher, loads it or registers it again.
LEMMA Disconnects ==
  ASSUME WatchInv, WatchTypes', UNCHANGED badOffset,
         connected' = FALSE, toWatcher' = <<>>, toPD' = <<>>
  PROVE  WatchInv'
BY DEF WatchInv

\* LoseWatcher, NewPdLeader and RestartProxy end a connection.
LEMMA LossInv == WatchInv /\ (LoseWatcher \/ NewPdLeader \/ RestartProxy) => WatchInv'
<1> SUFFICES ASSUME WatchInv, LoseWatcher \/ NewPdLeader \/ RestartProxy PROVE WatchInv'
  OBVIOUS
<1>1. CASE LoseWatcher
  <2>1. WatchTypes'
    BY <1>1 DEF WatchInv, WatchTypes, LoseWatcher, Paused, clientVars
  <2> QED
    BY <1>1, <2>1, Disconnects, Zenon DEF LoseWatcher, Paused
<1>2. CASE NewPdLeader
  <2>1. WatchTypes'
    BY <1>2 DEF WatchInv, WatchTypes, NewPdLeader, Registered, clientVars, NoEvent, EventInit
  <2> QED
    BY <1>2, <2>1, Disconnects, Zenon DEF NewPdLeader, Registered
<1>3. CASE RestartProxy
  <2>1. WatchTypes'
    BY <1>3 DEF WatchInv, WatchTypes, RestartProxy, Registered, NoEvent, EventInit
  <2> QED
    BY <1>3, <2>1, Disconnects, Zenon DEF RestartProxy, Registered
<1> QED
  BY <1>1, <1>2, <1>3

\* A notification makes the watcher ask from its own offset.
LEMMA OnNotifyInv == WatchInv /\ OnNotify => WatchInv'
<1> SUFFICES ASSUME WatchInv, OnNotify PROVE WatchInv'
  OBVIOUS
<1>1. WatchTypes /\ MaxOffset \in Nat
  BY MaxOffsetType DEF WatchInv
<1>2. /\ UNCHANGED <<first, items, cur, notifies, localOffset, connected, badOffset>>
      /\ MaxOffset' = MaxOffset
  BY DEF OnNotify, pdVars, MaxOffset
<1>3. connected /\ localOffset \in 0..MaxOffset
  BY <1>1 DEF WatchInv, WatchTypes, OnNotify
<1>4. toWatcher' \in Seq(Messages(MaxOffset))
  BY DEF WatchInv, OnNotify
<1>5. toPD' \in Seq(0..MaxOffset)
  <2>1. Append(toPD, localOffset) \in Seq(0..MaxOffset)
    BY <1>3, AppendProperties DEF WatchInv
  <2> QED
    BY <2>1, Zenon DEF WatchInv, OnNotify
<1>6. WatchTypes'
  BY <1>1, <1>2 DEF WatchTypes
<1> QED
  BY <1>2, <1>3, <1>4, <1>5, <1>6 DEF WatchInv

\* An answer moves the watcher to the offset it carries.
LEMMA OnSyncRspInv == WatchInv /\ OnSyncRsp => WatchInv'
<1> SUFFICES ASSUME WatchInv, OnSyncRsp PROVE WatchInv'
  OBVIOUS
<1>1. WatchTypes /\ MaxOffset \in Nat
  BY MaxOffsetType DEF WatchInv
<1>2. /\ UNCHANGED <<first, items, cur, notifies, connected, badOffset>>
      /\ MaxOffset' = MaxOffset
  BY DEF OnSyncRsp, pdVars, MaxOffset
<1> DEFINE rsp == Head(toWatcher)
<1>3. rsp \in Messages(MaxOffset) /\ "events" \in DOMAIN rsp /\ connected
  BY DEF WatchInv, OnSyncRsp
<1>4. rsp.offset \in 0..MaxOffset
  BY <1>3 DEF Messages
<1>5. localOffset' = rsp.offset
  BY DEF OnSyncRsp
<1>6. toWatcher' \in Seq(Messages(MaxOffset))
  BY DEF WatchInv, OnSyncRsp
<1>7. toPD' \in Seq(0..MaxOffset)
  BY <1>4, AppendProperties, Zenon DEF WatchInv, OnSyncRsp
<1>8. WatchTypes'
  BY <1>1, <1>2, <1>4, <1>5 DEF WatchTypes
<1> QED
  BY <1>1, <1>2, <1>3, <1>4, <1>5, <1>6, <1>7, <1>8 DEF WatchInv

\* OffsetQueue.Get drops what the watcher has seen, counts the start up by as much,
\* and so keeps the queue's last offset.
LEMMA OnSyncInv == WatchInv /\ OnSync => WatchInv'
<1> SUFFICES ASSUME WatchInv, OnSync PROVE WatchInv'
  OBVIOUS
<1>1. WatchTypes /\ MaxOffset \in Nat
  BY MaxOffsetType DEF WatchInv
<1> DEFINE offset == Head(toPD)
           all    == offset < first \/ (offset = first /\ first = 0)
           later  == SubSeq(items, offset - first + 2, Len(items))
<1>2. offset \in 0..MaxOffset /\ connected
  BY HeadTailProperties, Zenon DEF WatchInv, OnSync
<1>3. /\ toWatcher' = Append(toWatcher, [events |-> IF all THEN items ELSE later,
                                         offset |-> MaxOffset])
      /\ first' = IF all THEN first ELSE offset + 1
      /\ items' = IF all THEN items ELSE later
      /\ toPD' = Tail(toPD)
      /\ UNCHANGED <<cur, notifies, localOffset, connected, badOffset>>
  BY <1>1, <1>2 DEF OnSync, clientVars
<1>4. first \in Nat /\ items \in Seq(Int) /\ Len(items) \in Nat
  BY <1>1 DEF WatchTypes
<1>5. ~all => /\ offset - first + 2 \in 1..(Len(items) + 1)
              /\ first + Len(items) # 0
  BY <1>1, <1>2, <1>4 DEF MaxOffset
<1>6. ~all => later \in Seq(Int) /\ Len(later) = Len(items) - (offset - first + 1)
  <2> SUFFICES ASSUME ~all PROVE later \in Seq(Int) /\ Len(later) = Len(items) - (offset - first + 1)
    OBVIOUS
  <2>1. \A i \in (offset - first + 2)..Len(items) : items[i] \in Int
    BY <1>4, <1>5, ElementOfSeq
  <2>2. offset - first + 2 \in Int /\ Len(items) \in Int
    BY <1>4, <1>5
  <2>3. /\ later \in Seq(Int)
        /\ Len(later) = IF offset - first + 2 <= Len(items)
                        THEN Len(items) - (offset - first + 2) + 1 ELSE 0
    BY <2>1, <2>2, SubSeqProperties
  <2> HIDE DEF later
  <2>4. offset \in Nat /\ ~all
    BY <1>1, <1>2
  <2> HIDE DEF offset, all
  <2>5. offset - first + 2 \in 1..(Len(items) + 1)
    BY <1>5, <2>4
  <2>6. ASSUME NEW o \in Nat, NEW f \in Nat, NEW n \in Nat, o - f + 2 \in 1..(n + 1)
        PROVE  (IF o - f + 2 <= n THEN n - (o - f + 2) + 1 ELSE 0) = n - (o - f + 1)
    BY <2>6
  <2> QED
    BY <1>4, <2>3, <2>4, <2>5, <2>6
<1>7. first' \in Nat /\ items' \in Seq(Int) /\ first' + Len(items') = first + Len(items)
  <2>1. CASE all
    BY <1>3, <1>4, <2>1
  <2>2. CASE ~all
    <3>1. offset \in Nat /\ first' = offset + 1 /\ items' = later
      <4>1. offset \in Nat
        BY <1>1, <1>2
      <4> HIDE DEF later, offset, all
      <4> QED
        BY <1>3, <2>2, <4>1
    <3>2. later \in Seq(Int) /\ Len(later) = Len(items) - (offset - first + 1)
      BY <1>6, <2>2
    <3> HIDE DEF later, offset, all
    <3> QED
      BY <1>4, <3>1, <3>2
  <2> QED
    BY <2>1, <2>2
<1>8. MaxOffset' = MaxOffset
  BY <1>4, <1>7 DEF MaxOffset
<1>9. [events |-> IF all THEN items ELSE later, offset |-> MaxOffset] \in Messages(MaxOffset)
  BY <1>1, <1>4, <1>6 DEF Messages
<1> HIDE DEF offset, all, later
<1>10. toWatcher' \in Seq(Messages(MaxOffset)) /\ toPD' \in Seq(0..MaxOffset)
  BY <1>3, <1>9 DEF WatchInv, OnSync
<1>11. WatchTypes'
  BY <1>1, <1>3, <1>7 DEF WatchTypes
<1> QED
  BY <1>2, <1>3, <1>8, <1>10, <1>11 DEF WatchInv

\* Heartbeats and the proxy's loop send no offset; the answer to a heartbeat that ended
\* a pause sets the watcher's to 0.
LEMMA QuietInv ==
  WatchInv /\ (Heartbeat \/ Resumed \/ LoseResumed \/ ProxyEvent \/ UNCHANGED watchVars) => WatchInv'
<1> SUFFICES ASSUME WatchInv,
                    Heartbeat \/ Resumed \/ LoseResumed \/ ProxyEvent \/ UNCHANGED watchVars
             PROVE  WatchInv'
  OBVIOUS
<1>1. WatchTypes /\ MaxOffset \in Nat
  BY MaxOffsetType DEF WatchInv
<1>2. /\ UNCHANGED <<first, items, cur, connected, toWatcher, toPD, badOffset>>
      /\ localOffset' \in {localOffset, 0}
      /\ notifies' \in {notifies, <<MaxOffset>>}
  BY DEF Heartbeat, Resumed, LoseResumed, ProxyEvent, HeartbeatRsp, pdVars, netVars, clientVars,
         watchVars
<1>3. MaxOffset' = MaxOffset
  BY <1>2 DEF MaxOffset
<1>4. WatchTypes'
  <2>1. <<MaxOffset>> \in Seq(Nat)
    BY <1>1, SingleSeq
  <2>2. notifies' \in Seq(Nat)
    <3>1. CASE notifies' = notifies
      BY <1>1, <3>1 DEF WatchTypes
    <3>2. CASE notifies' = <<MaxOffset>>
      BY <2>1, <3>2
    <3> QED
      BY <1>2, <3>1, <3>2
  <2> QED
    BY <1>1, <1>2, <2>2 DEF WatchTypes
<1> QED
  BY <1>1, <1>2, <1>3, <1>4 DEF WatchInv

\* The watcher never asks for an offset beyond the driver's queue, for any number of
\* changes, pauses and changes of the leading driver: OffsetQueue.Get never panics.
THEOREM WatcherOffsetsMeet == WatchSpec => []OffsetsMeet
<1>1. WatchInv /\ [WatchNext]_watchVars => WatchInv'
  BY ChangeInv, SendNotifyInv, LossInv, OnNotifyInv, OnSyncRspInv, OnSyncInv, QuietInv
     DEF WatchNext
<1>2. WatchInv => OffsetsMeet
  BY DEF WatchInv, OffsetsMeet
<1> QED
  BY WatchInitInv, <1>1, <1>2, PTL DEF WatchSpec

-----------------------------------------------------------------------------
(* One reply to a command.                                                 *)
(*                                                                         *)
(* aggregationReq counts the answers that are missing; the count agrees    *)
(* with the answers that are there because a request is answered once: an  *)
(* answer is routed to a request that is not done, and makes it done.      *)

Places == {"queued", "found", "sending", "sent", "answered", "refused", "retry", "done", "lost"}

\* The values of an MGET in the order of its keys.
InOrder == [p \in parts |-> p]

\* 1 for a part whose answer is missing.
Missing(p) == IF p \in parts /\ answers[p] = 0 THEN 1 ELSE 0

RequestTypes ==
  /\ parts \in {{1}, {1, 2}}
  /\ where \in [1..2 -> Places]
  /\ answers \in [parts -> {0, 1, 2}]
  /\ sentReplies \in Seq({ConnectError, InOrder})

ReplyInd ==
  /\ reply = Missing(1) + Missing(2)
  /\ \A p \in parts : answers[p] # 0 => answers[p] = p /\ where[p] = "done"
  /\ \A k \in DOMAIN sentReplies : sentReplies[k] # ConnectError => reply = 0
  /\ \A j, k \in DOMAIN sentReplies :
       sentReplies[j] # ConnectError /\ sentReplies[k] # ConnectError => j = k
  /\ parts = {1} => Len(sentReplies) <= 1 /\ (where[1] # "done" => sentReplies = <<>>)

ReplyInv == orderly => RequestTypes /\ ReplyInd

\* A command comes with no part answered.
LEMMA ProxyInitInv == ProxyInit => ReplyInv
<1> SUFFICES ASSUME ProxyInit PROVE RequestTypes /\ ReplyInd
  BY DEF ReplyInv
<1>1. parts \in {{1}, {1, 2}} /\ sentReplies = <<>>
  BY DEF ProxyInit
<1>2. RequestTypes
  BY <1>1 DEF ProxyInit, RequestTypes, Places
<1>3. Cardinality({1}) = 1 /\ Cardinality({1, 2}) = 2
  <2>1. IsFiniteSet({1}) /\ Cardinality({1}) = 1
    BY FS_Singleton
  <2>2. Cardinality({1} \cup {2}) = Cardinality({1}) + 1
    BY <2>1, 2 \notin {1}, FS_AddElement
  <2> QED
    BY <2>1, <2>2, {1} \cup {2} = {1, 2}
<1>4. reply = Missing(1) + Missing(2)
  <2>1. reply = Cardinality(parts) /\ answers = [p \in parts |-> 0]
    BY DEF ProxyInit
  <2>2. CASE parts = {1}
    BY <1>3, <2>1, <2>2 DEF Missing
  <2>3. CASE parts = {1, 2}
    BY <1>3, <2>1, <2>3 DEF Missing
  <2> QED
    BY <1>1, <2>2, <2>3
<1> QED
  BY <1>1, <1>2, <1>4 DEF ProxyInit, ReplyInd

\* A step that answers nothing and makes no request done keeps the counts.
LEMMA NoAnswer ==
  ASSUME ReplyInv, orderly' = orderly, where' \in [1..2 -> Places],
         UNCHANGED <<parts, reply, answers, sentReplies>>,
         orderly => \A p \in 1..2 : where'[p] = "done" <=> where[p] = "done"
  PROVE  ReplyInv'
<1> SUFFICES ASSUME orderly PROVE RequestTypes' /\ ReplyInd'
  BY DEF ReplyInv
<1>1. RequestTypes /\ ReplyInd
  BY DEF ReplyInv
<1>2. RequestTypes'
  BY <1>1 DEF RequestTypes, InOrder
<1>3. parts \subseteq 1..2
  BY <1>1 DEF RequestTypes
<1>4. Missing(1)' = Missing(1) /\ Missing(2)' = Missing(2)
  BY DEF Missing
<1> QED
  BY <1>1, <1>2, <1>3, <1>4 DEF ReplyInd

\* forwardTo, the store, the retry loop, a broken connection and a refresh answer nothing.
LEMMA NoAnswerInv ==
  ASSUME ReplyInv,
         \/ \E p \in parts : \/ HandleReq(p) \/ ForwardTo(p) \/ StoreAnswers(p) \/ Retry(p)
                            \/ ForwardFails(p)
         \/ \E s \in Stores : LoseBackend(s)
         \/ Refresh \/ Move \/ UNCHANGED proxyVars
  PROVE  ReplyInv'
<1>1. CASE ~orderly
  BY <1>1, Zenon DEF ReplyInv, HandleReq, ForwardTo, StoreAnswers, Retry, ForwardFails, LoseBackend,
              Refresh, Move, proxyVars, rangeVars
<1>2. CASE orderly
  <2>1. RequestTypes /\ parts \subseteq 1..2
    BY <1>2 DEF ReplyInv, RequestTypes
  <2>2. UNCHANGED <<orderly, parts, reply, answers, sentReplies>>
    BY DEF HandleReq, ForwardTo, StoreAnswers, Retry, ForwardFails, LoseBackend, Refresh, Move,
           proxyVars, rangeVars, requestVars
  <2>3. /\ where' \in [1..2 -> Places]
        /\ \A p \in 1..2 : where'[p] = "done" <=> where[p] = "done"
    <3>1. CASE \E p \in parts : \/ HandleReq(p) \/ ForwardTo(p) \/ StoreAnswers(p) \/ Retry(p)
                                \/ ForwardFails(p)
      BY <2>1, <3>1 DEF RequestTypes, HandleReq, ForwardTo, StoreAnswers, Retry, ForwardFails, To,
                        Places
    <3>2. CASE \E s \in Stores : LoseBackend(s)
      BY <2>1, <3>2 DEF RequestTypes, LoseBackend, Places
    <3>3. CASE Refresh \/ Move \/ UNCHANGED proxyVars
      BY <2>1, <3>3 DEF RequestTypes, Refresh, Move, proxyVars, requestVars
    <3> QED
      BY <3>1, <3>2, <3>3
  <2> QED
    BY <2>2, <2>3, NoAnswer
<1> QED
  BY <1>1, <1>2

\* writeLoop tells the client of a broken connection; the request is done.
LEMMA FlushInv ==
  ASSUME ReplyInv, NEW p \in parts, Flush(p)
  PROVE  ReplyInv'
<1> SUFFICES ASSUME orderly PROVE ReplyInv'
  BY DEF ReplyInv, Flush, rangeVars
<1>1. RequestTypes /\ ReplyInd /\ orderly' /\ p \in 1..2
  BY DEF ReplyInv, RequestTypes, Flush, rangeVars
<1>2. UNCHANGED <<parts, reply, answers>> /\ where[p] = "sending"
  BY DEF Flush
<1>3. CASE dest[p] \in up
  <2>1. where' = [where EXCEPT ![p] = "sent"] /\ UNCHANGED sentReplies
    BY <1>3 DEF Flush, To
  <2> QED
    BY <1>1, <1>2, <2>1, NoAnswer DEF RequestTypes, Places
<1>4. CASE dest[p] \notin up
  <2>1. /\ where' = [where EXCEPT ![p] = "done"]
        /\ sentReplies' = Append(sentReplies, ConnectError)
    BY <1>4 DEF Flush, To
  <2>2. RequestTypes'
    BY <1>1, <1>2, <2>1, AppendProperties DEF RequestTypes, Places, InOrder
  <2>3. /\ sentReplies \in Seq({ConnectError, InOrder})
        /\ Len(sentReplies') = Len(sentReplies) + 1 /\ Len(sentReplies) \in Nat
        /\ \A i \in 1..Len(sentReplies) : sentReplies'[i] = sentReplies[i]
        /\ sentReplies'[Len(sentReplies) + 1] = ConnectError
        /\ DOMAIN sentReplies = 1..Len(sentReplies)
        /\ DOMAIN sentReplies' = 1..(Len(sentReplies) + 1)
    BY <1>1, <2>1, AppendProperties, LenProperties DEF RequestTypes
  <2>4. Missing(1)' = Missing(1) /\ Missing(2)' = Missing(2)
    BY <1>2 DEF Missing
  <2>5. \A k \in DOMAIN sentReplies' :
          sentReplies'[k] # ConnectError => k \in DOMAIN sentReplies /\ sentReplies'[k] = sentReplies[k]
    BY <2>3
  <2>6. parts = {1} => Len(sentReplies') <= 1 /\ where'[1] = "done"
    BY <1>1, <1>2, <2>1, <2>3 DEF RequestTypes, ReplyInd
  <2>7. ReplyInd'
    BY <1>1, <1>2, <2>1, <2>4, <2>5, <2>6 DEF RequestTypes, ReplyInd
  <2> QED
    BY <2>2, <2>7 DEF ReplyInv
<1> QED
  BY <1>3, <1>4

\* onResp: a refused request waits again; an answer is the first of its request, and the
\* last of the command exactly when the count says so.
LEMMA onRespInv ==
  ASSUME ReplyInv, NEW p \in parts, onResp(p)
  PROVE  ReplyInv'
<1> SUFFICES ASSUME orderly PROVE ReplyInv'
  BY DEF ReplyInv, onResp, rangeVars
<1>1. RequestTypes /\ ReplyInd /\ orderly' /\ p \in 1..2 /\ where[p] # "done"
  BY DEF ReplyInv, RequestTypes, onResp, rangeVars
<1>2. CASE where[p] = "refused"
  <2>1. where' = [where EXCEPT ![p] = "retry"] /\ UNCHANGED <<parts, reply, answers, sentReplies>>
    BY <1>2 DEF onResp, To
  <2> QED
    BY <1>1, <1>2, <2>1, NoAnswer DEF RequestTypes, Places, onResp, rangeVars
<1>3. CASE where[p] # "refused"
  <2>1. /\ where' = [where EXCEPT ![p] = "done"] /\ UNCHANGED parts
        /\ answers' = [answers EXCEPT ![p] = p]
        /\ reply' = reply - 1
        /\ sentReplies' = IF reply = 1 THEN Append(sentReplies, answers') ELSE sentReplies
    BY <1>3 DEF onResp, To, AddPart
  <2>2. where' \in [1..2 -> Places] /\ where'[p] = "done"
    BY <1>1, <2>1 DEF RequestTypes, Places
  <2>3. answers' \in [parts -> {0, 1, 2}] /\ answers'[p] = p
    BY <1>1, <2>1 DEF RequestTypes
  <2>4. answers[p] = 0
    BY <1>1 DEF ReplyInd
  <2>5. /\ Missing(p) = 1 /\ Missing(p)' = 0
        /\ \A q \in 1..2 : q # p => Missing(q)' = Missing(q)
        /\ \A q \in 1..2 : Missing(q) \in 0..1
    BY <1>1, <2>1, <2>3, <2>4 DEF Missing, RequestTypes
  <2>6. reply \in 1..2 /\ reply' = (Missing(1) + Missing(2))'
    BY <1>1, <2>1, <2>5 DEF ReplyInd
  <2>7. \A q \in parts : answers'[q] # 0 => answers'[q] = q /\ where'[q] = "done"
    BY <1>1, <2>1, <2>2, <2>3 DEF RequestTypes, ReplyInd
  <2>8. \A k \in DOMAIN sentReplies : sentReplies[k] = ConnectError
    BY <1>1, <2>6 DEF ReplyInd
  <2>9. CASE reply = 1
    <3>1. \A q \in parts : answers'[q] # 0
      BY <1>1, <2>1, <2>3, <2>5, <2>9 DEF Missing, RequestTypes, ReplyInd
    <3>2. answers' = InOrder
      BY <2>3, <2>7, <3>1 DEF InOrder
    <3>3. sentReplies' = Append(sentReplies, InOrder) /\ InOrder' = InOrder
      BY <2>1, <2>9, <3>2, Zenon DEF InOrder
    <3>4. /\ sentReplies' \in Seq({ConnectError, InOrder})
          /\ Len(sentReplies') = Len(sentReplies) + 1 /\ Len(sentReplies) \in Nat
          /\ \A i \in 1..Len(sentReplies) : sentReplies'[i] = sentReplies[i]
          /\ DOMAIN sentReplies = 1..Len(sentReplies)
          /\ DOMAIN sentReplies' = 1..(Len(sentReplies) + 1)
      BY <1>1, <3>3, AppendProperties, LenProperties DEF RequestTypes
    <3>5. \A k \in DOMAIN sentReplies' : sentReplies'[k] # ConnectError => k = Len(sentReplies) + 1
      BY <2>8, <3>4
    <3>6. parts = {1} => Len(sentReplies') <= 1
      BY <1>1, <3>4 DEF ReplyInd
    <3>7. reply' = 0
      BY <2>1, <2>9
    <3>8. RequestTypes'
      BY <1>1, <2>1, <2>2, <2>3, <3>3, <3>4 DEF RequestTypes
    <3>9. ReplyInd'
      BY <1>1, <2>1, <2>2, <2>6, <2>7, <3>5, <3>6, <3>7 DEF ReplyInd
    <3> QED
      BY <3>8, <3>9 DEF ReplyInv
  <2>10. CASE reply # 1
    <3>1. UNCHANGED sentReplies /\ parts = {1, 2}
      BY <1>1, <2>1, <2>5, <2>6, <2>10 DEF RequestTypes, ReplyInd, Missing
    <3>2. RequestTypes'
      BY <1>1, <2>1, <2>2, <2>3, <3>1 DEF RequestTypes, InOrder
    <3>3. ReplyInd'
      BY <2>1, <2>6, <2>7, <2>8, <3>1, SMTT(30) DEF ReplyInd
    <3> QED
      BY <3>2, <3>3 DEF ReplyInv
  <2> QED
    BY <2>9, <2>10
<1> QED
  BY <1>2, <1>3

\* A command is answered once, with the values in the order of its keys, for any number
\* of moves and losses, as long as no two backends decrement aggregationReq.reply at once.
THEOREM CommandsAnsweredOnce == ProxySpec => []OneReply
<1>1. ReplyInv /\ [ProxyNext]_proxyVars => ReplyInv'
  <2> SUFFICES ASSUME ReplyInv, [ProxyNext]_proxyVars PROVE ReplyInv'
    OBVIOUS
  <2>1. CASE RacingAnswers
    BY <2>1 DEF RacingAnswers, ReplyInv, rangeVars
  <2> QED
    BY <2>1, NoAnswerInv, FlushInv, onRespInv DEF ProxyNext, RequestStep
<1>2. ReplyInv => OneReply
  <2> SUFFICES ASSUME ReplyInv, orderly PROVE OneReply
    BY DEF OneReply
  <2>1. RequestTypes /\ ReplyInd
    BY DEF ReplyInv
  <2>2. \A k \in DOMAIN sentReplies : sentReplies[k] \in {ConnectError, InOrder}
    BY <2>1, LenProperties, ElementOfSeq DEF RequestTypes
  <2> QED
    BY <2>1, <2>2 DEF OneReply, ReplyInd, InOrder
<1> QED
  BY ProxyInitInv, <1>1, <1>2, PTL DEF ProxySpec
=============================================================================
