------------------------------ MODULE PdLeader ------------------------------
(***************************************************************************)
(* The PD servers: the leader loop (election over a leased etcd key), the  *)
(* watcher list a server keeps while it leads, and the id allocator that   *)
(* hands out cell and peer ids in batches.  etcd is third-party code: its  *)
(* transactions are single steps, its leases may run out at any time.      *)
(***************************************************************************)
EXTENDS Naturals, FiniteSets

CONSTANTS
  Servers,     \* the PD servers
  None,        \* no server, no value
  Batch,       \* ids reserved by one update of the id key
  MaxId,       \* bound on the reserved ids
  MaxFaults,   \* bound on expired leases, lost answers and restarts together
  Down,        \* servers that never come back when they crash
  Watched      \* do proxies register as watchers

ASSUME ServersAssumption == None \notin Servers /\ None \notin Nat /\ Down \subseteq Servers
ASSUME BatchAssumption == Batch \in Nat \ {0}

VARIABLES
  leaderKey,   \* etcd: owner of pdLeaderPath, None when the key is absent
  idKey,       \* etcd: value of pdIDPath, 0 when the key is absent
  pc,          \* where each server is in startLeaderLoop
  isLeader,    \* isLeaderValue of each server
  watchers,    \* has the server's watcherNotifier any watcher
  base, end,   \* the allocator's window of reserved ids: base + 1 .. end
  seen,        \* what a running generate read from etcd, None when none runs
  issued,      \* every id handed out, with its serial number
  faults       \* faults so far

etcd == <<leaderKey, idKey>>
loopVars == <<leaderKey, pc, isLeader, watchers>>
allocVars == <<idKey, base, end, seen, issued>>
vars == <<leaderKey, idKey, pc, isLeader, watchers, base, end, seen, issued, faults>>

Init ==
  /\ leaderKey = None /\ idKey = 0
  /\ pc = [s \in Servers |-> "check"]
  /\ isLeader = [s \in Servers |-> FALSE]
  /\ watchers = [s \in Servers |-> FALSE]
  /\ base = [s \in Servers |-> 0] /\ end = [s \in Servers |-> 0]
  /\ seen = [s \in Servers |-> None]
  /\ issued = {} /\ faults = 0

Fault == faults < MaxFaults /\ faults' = faults + 1

(***************************************************************************)
(* startLeaderLoop.                                                        *)
(***************************************************************************)
\* the DELETE event of the leader key reaches the servers that watch it by now
NotifyDelete(p) == [s \in Servers |-> IF p[s] = "watching" THEN "campaign" ELSE p[s]]

\* removedAllWatcher takes the notifier's lock and calls removeWatcher, which
\* takes it again
AfterRemoveWatchers(s) == IF watchers[s] THEN "deadlock" ELSE "watch"

GetCurrentLeader(s) ==
  /\ pc[s] = "check"
  /\ pc' = [pc EXCEPT ![s] = IF leaderKey = None THEN "campaign"
                             ELSE IF leaderKey = s THEN "resign"
                             ELSE AfterRemoveWatchers(s)]
  /\ UNCHANGED <<leaderKey, isLeader, watchers, allocVars, faults>>

\* our own key, left by a campaign that failed or by an earlier process
ResignLeader(s) ==
  /\ pc[s] = "resign"
  /\ leaderKey' = IF leaderKey = s THEN None ELSE leaderKey
  /\ LET after == IF leaderKey = s THEN NotifyDelete(pc) ELSE pc
     IN pc' = [after EXCEPT ![s] = IF leaderKey = s THEN "campaign" ELSE "check"]
  /\ UNCHANGED <<isLeader, watchers, allocVars, faults>>

\* the watch starts at etcd's current revision, not at the one that was read
WatchLeader(s) ==
  /\ pc[s] = "watch"
  /\ pc' = [pc EXCEPT ![s] = "watching"]
  /\ UNCHANGED <<leaderKey, isLeader, watchers, allocVars, faults>>

\* the key is created under a new lease unless it exists; the answer may be lost
CampaignLeader(s) ==
  /\ pc[s] = "campaign"
  /\ \/ /\ leaderKey = None
        /\ leaderKey' = s
        /\ \/ pc' = [pc EXCEPT ![s] = "won"] /\ UNCHANGED faults
           \/ pc' = [pc EXCEPT ![s] = "check"] /\ Fault
     \/ /\ leaderKey # None
        /\ pc' = [pc EXCEPT ![s] = "check"]
        /\ UNCHANGED <<leaderKey, faults>>
  /\ UNCHANGED <<isLeader, watchers, allocVars>>

SilentLeader(s) ==
  /\ pc[s] = "won"
  /\ pc' = [pc EXCEPT ![s] = "lead"]
  /\ UNCHANGED <<leaderKey, isLeader, watchers, allocVars, faults>>

\* the watchers of earlier leaders are loaded from etcd
enableLeader(s) ==
  /\ pc[s] = "won"
  /\ pc' = [pc EXCEPT ![s] = "lead"]
  /\ isLeader' = [isLeader EXCEPT ![s] = TRUE]
  /\ watchers' = [watchers EXCEPT ![s] = @ \/ Watched]
  /\ UNCHANGED <<leaderKey, allocVars, faults>>

StayLeader(s) ==
  /\ pc[s] = "lead"
  /\ IF leaderKey = s THEN Fault ELSE UNCHANGED faults
  /\ pc' = [pc EXCEPT ![s] = "check"]
  /\ UNCHANGED <<leaderKey, isLeader, watchers, allocVars>>

\* the keep-alive channel of the lease is closed: the lease is over, or etcd
\* cannot be reached
disableLeader(s) ==
  /\ pc[s] = "lead"
  /\ IF leaderKey = s THEN Fault ELSE UNCHANGED faults
  /\ pc' = [pc EXCEPT ![s] = "check"]
  /\ isLeader' = [isLeader EXCEPT ![s] = FALSE]
  /\ UNCHANGED <<leaderKey, watchers, allocVars>>

\* a lease is renewed from the end of the campaign on
KeptAlive(s) == pc[s] \in {"won", "lead"}

\* etcd: the lease of the leader key runs out
ExpireLease ==
  /\ leaderKey # None
  /\ IF KeptAlive(leaderKey) THEN Fault ELSE UNCHANGED faults
  /\ leaderKey' = None
  /\ pc' = NotifyDelete(pc)
  /\ UNCHANGED <<isLeader, watchers, allocVars>>

\* the process dies; its windows and its place in the loop are lost
Crash(s) ==
  /\ pc[s] # "down" /\ Fault
  /\ pc' = [pc EXCEPT ![s] = IF s \in Down THEN "down" ELSE "check"]
  /\ isLeader' = [isLeader EXCEPT ![s] = FALSE]
  /\ watchers' = [watchers EXCEPT ![s] = FALSE]
  /\ base' = [base EXCEPT ![s] = 0] /\ end' = [end EXCEPT ![s] = 0]
  /\ seen' = [seen EXCEPT ![s] = None]
  /\ UNCHANGED <<etcd, issued>>

(***************************************************************************)
(* idAllocator.  newID is called for AllocID, for split requests and by    *)
(* the replica checker, leader or not; the window outlives leadership.     *)
(***************************************************************************)
Issue(id) == issued' = issued \cup {<<id, Cardinality(issued)>>}

newID(s) ==
  /\ pc[s] # "down" /\ seen[s] = None /\ base[s] # end[s]
  /\ base' = [base EXCEPT ![s] = @ + 1]
  /\ Issue(base[s] + 1)
  /\ UNCHANGED <<loopVars, idKey, end, seen, faults>>

\* generate: GetID
GetID(s) ==
  /\ pc[s] # "down" /\ seen[s] = None /\ base[s] = end[s] /\ idKey + Batch <= MaxId
  /\ seen' = [seen EXCEPT ![s] = idKey]
  /\ UNCHANGED <<loopVars, idKey, base, end, issued, faults>>

AnyValue(s) == leaderKey = s
\* CreateID compares the create revision, UpdateID the value, both the leader key
leaderTxn(s) == leaderKey = s /\ idKey = seen[s]

SwappedWindow(s) ==
  /\ seen[s] # None /\ leaderTxn(s)
  /\ idKey' = seen[s] + Batch
  /\ end' = [end EXCEPT ![s] = seen[s] + Batch]
  /\ base' = [base EXCEPT ![s] = end[s] - Batch + 1]
  /\ Issue(end[s] - Batch + 1)
  /\ seen' = [seen EXCEPT ![s] = None]
  /\ UNCHANGED <<loopVars, faults>>

\* generate: CreateID or UpdateID succeeds, and newID takes the first id
UpdateID(s) ==
  /\ seen[s] # None /\ leaderTxn(s)
  /\ idKey' = seen[s] + Batch
  /\ end' = [end EXCEPT ![s] = seen[s] + Batch]
  /\ base' = [base EXCEPT ![s] = seen[s] + 1]
  /\ Issue(seen[s] + 1)
  /\ seen' = [seen EXCEPT ![s] = None]
  /\ UNCHANGED <<loopVars, faults>>

\* generate fails: the comparison does not hold, or the answer is lost, with the
\* transaction done or not
UpdateIDFails(s) ==
  /\ seen[s] # None
  /\ \/ ~leaderTxn(s) /\ UNCHANGED <<idKey, faults>>
     \/ Fault /\ (UNCHANGED idKey \/ (leaderTxn(s) /\ idKey' = seen[s] + Batch))
  /\ seen' = [seen EXCEPT ![s] = None]
  /\ UNCHANGED <<loopVars, base, end, issued>>

(***************************************************************************)
LeaderLoop(s) == GetCurrentLeader(s) \/ ResignLeader(s) \/ WatchLeader(s) \/ CampaignLeader(s)
                 \/ enableLeader(s) \/ disableLeader(s)

\* the same without the faults, for fairness
LoopStep(s) == LeaderLoop(s) /\ faults' = faults

Alloc(s) == newID(s) \/ GetID(s) \/ UpdateID(s) \/ UpdateIDFails(s)

Next == ExpireLease \/ \E s \in Servers : LeaderLoop(s) \/ Crash(s) \/ Alloc(s)

Spec == Init /\ [][Next]_vars

\* The leader loop never sleeps for good outside WatchLeader, and etcd drops the
\* key of a server that does not keep its lease alive.
Fairness == /\ \A s \in Servers : WF_vars(LoopStep(s))
            /\ WF_vars(leaderKey # None /\ ~KeptAlive(leaderKey) /\ ExpireLease)

FairSpec == Spec /\ Fairness

(***************************************************************************)
(* Properties.                                                             *)
(***************************************************************************)
Loop == {"check", "resign", "watch", "watching", "campaign", "won", "lead", "down", "deadlock"}

\* The allocator's and the loop's variables keep their types.
TypeOK ==
  /\ leaderKey \in Servers \cup {None} /\ idKey \in Nat
  /\ pc \in [Servers -> Loop]
  /\ isLeader \in [Servers -> BOOLEAN] /\ watchers \in [Servers -> BOOLEAN]
  /\ base \in [Servers -> Nat] /\ end \in [Servers -> Nat]
  /\ seen \in [Servers -> Nat \cup {None}]
  /\ issued \subseteq Nat \X Nat /\ faults \in Nat

\* No id is handed out twice, whatever servers lead, crash or lose answers:
\* cells and peers of the whole cluster are told apart by these ids.
IdsUnique == \A a, b \in issued : a[1] = b[1] => a = b

\* A server that believes it leads either owns the leader key or is about to find
\* out: no server leads on another's key for ever.
StaleLeaderStepsDown ==
  \A s \in Servers : (isLeader[s] /\ leaderKey # s) ~> (~isLeader[s] \/ leaderKey = s)

\* PD stays available: there is always a leader again.
LeaderElected == []<>(\E s \in Servers : isLeader[s] /\ leaderKey = s)
====
