------------------------------ MODULE Watchers ------------------------------
(***************************************************************************)
(* How a proxy learns of changed ranges.  The leading placement driver     *)
(* keeps a queue of events with offsets for the watcher and tells it the   *)
(* last offset (pdserver/watcher.go, util/queue_offset.go); the watcher    *)
(* asks for what it has not seen (pd/watcher.go) and the proxy refreshes   *)
(* its ranges (proxy.go).  When the connection breaks or heartbeats stay   *)
(* away the driver pauses the watcher and forgets the queue; the heartbeat *)
(* that ends the pause makes the proxy fetch everything.                   *)
(* A change is a number; the proxy has heard of the changes up to `known`. *)
(***************************************************************************)
EXTENDS Integers, Sequences

CONSTANTS MaxChanges,     \* bound on the changes of ranges
          ReadyCap,       \* the capacity of the Watcher's channel
          MaxBreaks       \* bound on broken connections, restarts and changes of PD leader

ASSUME MaxChanges \in Nat /\ MaxBreaks \in Nat /\ ReadyCap \in Nat
ASSUME ReadyCap >= MaxChanges + 1

VARIABLES benign,         \* no connection breaks during a sync, no resuming answer is lost
          cur,            \* PD: the last change
          wstate,         \* PD: watcherState.state, "ready" or "paused"
          first,          \* PD: OffsetQueue.start
          items,          \* PD: OffsetQueue.items
          lastNotify,     \* PD: lastNotifyOffset
          notifies,       \* PD: watcherNotifier.notifies
          connected,
          toWatcher, toPD, \* what is on the connection
          localOffset, serverOffset, syncing,    \* the Watcher
          readyC,         \* the Watcher's channel of events
          resuming,       \* whether the answer to a resuming heartbeat is under way
          known,          \* the proxy
          badOffset,      \* whether OffsetQueue.Get panicked
          breaks

watchVars == <<benign, cur, wstate, first, items, lastNotify, notifies, connected, toWatcher,
               toPD, localOffset, serverOffset, syncing, readyC, resuming, known, badOffset, breaks>>

EventInit == -1
NoEvent   == 0       \* the event at offset 0 of a fresh watcher

\* addWatcher puts two events; of their notifications the second replaces the first.
WatchInit ==
  /\ benign \in BOOLEAN
  /\ cur = 0 /\ known = 0
  /\ wstate = "ready" /\ first = 0 /\ items = <<NoEvent, EventInit>> /\ lastNotify = 0
  /\ notifies = <<1>>
  /\ connected = FALSE /\ toWatcher = <<>> /\ toPD = <<>>
  /\ localOffset = 0 /\ serverOffset = 0 /\ syncing = FALSE
  /\ readyC = <<>> /\ resuming = FALSE /\ badOffset = FALSE /\ breaks = 0

pdVars     == <<benign, cur, wstate, first, items, lastNotify, notifies>>
netVars    == <<connected, toWatcher, toPD>>
clientVars == <<localOffset, serverOffset, syncing, readyC>>

\* OffsetQueue.GetMaxOffset
MaxOffset == IF first + Len(items) = 0 THEN 0 ELSE first + Len(items) - 1

\* notify: the event joins the queue; one notification per watcher waits.
Change ==
  /\ cur < MaxChanges
  /\ cur' = cur + 1
  /\ IF wstate = "ready"
     THEN /\ items' = Append(items, cur + 1)
          /\ notifies' = IF notifies = <<>> THEN <<first + Len(items)>>
                         ELSE [notifies EXCEPT ![1] = first + Len(items)]
     ELSE UNCHANGED <<items, notifies>>
  /\ UNCHANGED <<benign, wstate, first, lastNotify, netVars, clientVars, resuming, known, badOffset,
                 breaks>>

\* pause
Paused ==
  /\ wstate' = "paused" /\ first' = 0 /\ items' = <<>> /\ lastNotify' = 0
  /\ connected' = FALSE /\ toWatcher' = <<>> /\ toPD' = <<>>

\* allowSend
AllowSend(offset) == (wstate = "ready" /\ lastNotify = 0) \/ lastNotify < offset

\* The loop of start: a notification, on a new connection when there is none.  The
\* watcher begins a connection at offset 0 (doConnection).
Connect_KeepsOffset == UNCHANGED localOffset

Connect == localOffset' = 0

SendNotify ==
  /\ notifies # <<>>
  /\ notifies' = Tail(notifies)
  /\ IF wstate = "ready" /\ AllowSend(Head(notifies))
     THEN /\ lastNotify' = Head(notifies)
          /\ toWatcher' = Append(toWatcher, [notify |-> Head(notifies)])
          /\ connected' = TRUE
          /\ IF connected THEN UNCHANGED localOffset ELSE Connect
          /\ UNCHANGED toPD
     ELSE UNCHANGED <<lastNotify, netVars, localOffset>>
  /\ UNCHANGED <<benign, cur, wstate, first, items, serverOffset, syncing, readyC, resuming, known,
                 badOffset, breaks>>

\* The connection breaks, cannot be made, or watcherTimeout closes it: what is on it is lost.
LoseWatcher ==
  /\ breaks < MaxBreaks /\ (benign => ~syncing)
  /\ breaks' = breaks + 1
  /\ Paused
  /\ UNCHANGED <<benign, cur, notifies, clientVars, resuming, known, badOffset>>

\* addWatcher of a watcher the server has no connection to.
Registered ==
  /\ wstate' = "ready" /\ first' = 0 /\ items' = <<NoEvent, EventInit>> /\ lastNotify' = 0
  /\ notifies' = <<1>>
  /\ connected' = FALSE /\ toWatcher' = <<>> /\ toPD' = <<>>

\* Another server leads: it loads the watchers and connects to them itself.
NewPdLeader ==
  /\ breaks < MaxBreaks /\ (benign => ~syncing)
  /\ breaks' = breaks + 1
  /\ Registered
  /\ UNCHANGED <<benign, cur, clientVars, resuming, known, badOffset>>

-----------------------------------------------------------------------------
(* The watcher (pd/watcher.go). *)

\* doConnection: a notification.
OnNotify ==
  /\ toWatcher # <<>> /\ "notify" \in DOMAIN Head(toWatcher)
  /\ LET offset == Head(toWatcher).notify IN
     IF offset = 0 \/ offset > localOffset
     THEN /\ serverOffset' = offset
          /\ syncing' = TRUE
          /\ toPD' = IF syncing THEN toPD ELSE Append(toPD, localOffset)
     ELSE UNCHANGED <<serverOffset, syncing, toPD>>
  /\ toWatcher' = Tail(toWatcher)
  /\ UNCHANGED <<pdVars, connected, localOffset, readyC, resuming, known, badOffset, breaks>>

\* Whether more was announced than the answer brought.
SyncsAgain(offset) == offset < serverOffset

\* doConnection: the answer to a sync.
OnSyncRsp ==
  /\ toWatcher # <<>> /\ "events" \in DOMAIN Head(toWatcher)
  /\ LET rsp    == Head(toWatcher)
         events == SelectSeq(rsp.events, LAMBDA e : e # NoEvent) IN
     /\ Len(readyC) + Len(events) <= ReadyCap
     /\ localOffset' = rsp.offset
     /\ readyC' = readyC \o events
     /\ syncing' = SyncsAgain(rsp.offset)
     /\ toPD' = IF SyncsAgain(rsp.offset) THEN Append(toPD, rsp.offset) ELSE toPD
  /\ toWatcher' = Tail(toWatcher)
  /\ UNCHANGED <<pdVars, connected, serverOffset, resuming, known, badOffset, breaks>>

\* doHeartbeat, at the driver: it ends a pause, or announces what the watcher lacks.
\* Only heartbeats that do either are steps.
Heartbeat ==
  /\ ~resuming
  /\ \/ /\ wstate = "paused"
        /\ wstate' = "ready" /\ resuming' = TRUE
        /\ UNCHANGED notifies
     \/ /\ wstate = "ready" /\ localOffset < MaxOffset /\ notifies = <<>>
        /\ notifies' = <<MaxOffset>>
        /\ UNCHANGED <<wstate, resuming>>
  /\ UNCHANGED <<benign, cur, first, items, lastNotify, netVars, clientVars, known, badOffset, breaks>>

\* doHeartbeat, at the watcher: after a pause everything is fetched.
HeartbeatRsp_NoInit ==
  /\ localOffset' = 0
  /\ UNCHANGED readyC

HeartbeatRsp ==
  /\ localOffset' = 0
  /\ readyC' = Append(readyC, EventInit)

Resumed ==
  /\ resuming /\ Len(readyC) < ReadyCap
  /\ resuming' = FALSE
  /\ HeartbeatRsp
  /\ UNCHANGED <<pdVars, netVars, serverOffset, syncing, known, badOffset, breaks>>

LoseResumed ==
  /\ resuming /\ ~benign
  /\ resuming' = FALSE
  /\ UNCHANGED <<pdVars, netVars, clientVars, known, badOffset, breaks>>

\* The proxy restarts: Start registers the watcher anew.
RestartProxy ==
  /\ breaks < MaxBreaks
  /\ breaks' = breaks + 1
  /\ Registered
  /\ localOffset' = 0 /\ serverOffset' = 0 /\ syncing' = FALSE
  /\ readyC' = <<>> /\ resuming' = FALSE /\ known' = 0
  /\ UNCHANGED <<benign, cur, badOffset>>

-----------------------------------------------------------------------------
\* OffsetQueue.Get and sync at the driver: the answer holds what follows the offset, and
\* what the watcher has seen is dropped.
OnSync ==
  /\ toPD # <<>>
  /\ LET offset == Head(toPD)
         all    == offset < first \/ (offset = first /\ first = 0)
         later  == SubSeq(items, offset - first + 2, Len(items)) IN
     IF offset > MaxOffset
     THEN badOffset' = TRUE /\ UNCHANGED <<first, items, toWatcher>>
     ELSE /\ toWatcher' = Append(toWatcher, [events |-> IF all THEN items ELSE later,
                                             offset |-> MaxOffset])
          /\ first' = IF all THEN first ELSE offset + 1
          /\ items' = IF all THEN items ELSE later
          /\ UNCHANGED badOffset
  /\ toPD' = Tail(toPD)
  /\ UNCHANGED <<benign, cur, wstate, lastNotify, notifies, connected, clientVars, resuming, known,
                 breaks>>

\* The loop of initWatcher: refreshRanges asks for all ranges, refreshRange takes the
\* range the event carries.
ProxyEvent ==
  /\ readyC # <<>>
  /\ known' = IF Head(readyC) = EventInit THEN cur ELSE Head(readyC)
  /\ readyC' = Tail(readyC)
  /\ UNCHANGED <<pdVars, netVars, localOffset, serverOffset, syncing, resuming, badOffset,
                 breaks>>

WatchNext ==
  \/ SendNotify \/ OnNotify \/ OnSyncRsp \/ Heartbeat \/ Resumed \/ OnSync \/ ProxyEvent
  \/ Change \/ LoseWatcher \/ NewPdLeader \/ RestartProxy \/ LoseResumed

\* One conjunct per goroutine: the driver's notifier and its reader of the connection, the
\* watcher's reader and its heartbeats, the proxy's loop.
WatchFairness ==
  /\ WF_watchVars(SendNotify) /\ WF_watchVars(OnSync)
  /\ WF_watchVars(OnNotify \/ OnSyncRsp) /\ WF_watchVars(Heartbeat \/ Resumed)
  /\ WF_watchVars(ProxyEvent)

WatchSpec == WatchInit /\ [][WatchNext]_watchVars /\ WatchFairness

-----------------------------------------------------------------------------
\* Once the ranges stop changing and the connections hold, the proxy comes to route by
\* the last ranges, whatever was lost with earlier connections: a pause ends in a complete
\* refresh, and a notification that arrives during a sync leads to another.  Not so when
\* a connection broke during a sync (`syncing` is never reset) or the answer to the
\* heartbeat that ended a pause was lost (the driver answers so only once).
RangesArrive == benign => <>[](known = cur)

\* The watcher never asks for an offset beyond the driver's queue, which OffsetQueue.Get
\* answers with the panic "bug: error offset", ending the driver: the two sides forget
\* their offsets together although each does so by itself.
OffsetsMeet == ~badOffset

=============================================================================
