---------------------------- MODULE MCStoreCells ----------------------------
(***************************************************************************)
(* Instances of StoreCells, with what the members of the two cells commit, *)
(* and of SnapshotTransfer.  A behaviour is one of the two: the other part *)
(* stays in a final state.                                                 *)
(***************************************************************************)
EXTENDS StoreCells, SnapshotTransfer

Sc(m, l, r) == [member |-> m, left |-> l, right |-> r]

\* One follower and disturbances, or two without.
MCLagging ==
  { [who |-> {CHOOSE p \in Followers : TRUE}, events |-> 0],
    [who |-> Followers, events |-> MaxSnapEvents] }

MCScenarios ==
  { Sc(TRUE, <<"other", "remove", "add">>, <<>>),   \* removed, and back as a new peer
    Sc(FALSE, <<"add", "split">>, <<>>),            \* joins, then splits
    Sc(TRUE, <<"split">>, <<"remove">>),            \* loses the right half
    Sc(TRUE, <<"split">>, <<"remove", "add">>),     \* loses it and gets it back
    Sc(TRUE, <<"remove", "split", "add">>, <<"add">>) } \* is away during the split

\* A store without a cell.
NoStore ==
  /\ hist = [c \in Cells |-> <<>>]
  /\ state = [c \in Cells |-> None] /\ apply = [c \in Cells |-> 0] /\ commit = apply
  /\ files = [c \in Cells |-> {}] /\ data = {} /\ up = TRUE
  /\ replicas = [c \in Cells |-> None] /\ delegates = [c \in Cells |-> None] /\ tree = {}
  /\ queue = [c \in Cells |-> <<>>] /\ snapq = <<>> /\ results = [c \in Cells |-> <<>>]
  /\ gone = [c \in Cells |-> {}] /\ fault = "none" /\ resplit = FALSE /\ crashes = MaxCrashes

\* No follower lags.
NoTransfer ==
  /\ behind = {} /\ index = 1 /\ cellVer = 1 /\ generated = <<>> /\ snapJobs = <<>>
  /\ sentFiles = {} /\ sendReg = {} /\ mixed = FALSE /\ snapFault = "none" /\ snapEvents = MaxSnapEvents
  /\ sendingSnap = [p \in Followers |-> <<>>] /\ outq = sendingSnap
  /\ streams = sendingSnap /\ awaited = sendingSnap
  /\ sender = [p \in Followers |-> "idle"] /\ answers = [p \in Followers |-> {}]
  /\ replicaVer = [p \in Followers |-> 0] /\ restored = replicaVer
  /\ tmpFile = [p \in Followers |-> NoFiles] /\ gzFile = tmpFile

StoresInit == (Init /\ NoTransfer) \/ (NoStore /\ SnapInit)
StoresNext == (Next /\ UNCHANGED snapVars) \/ (SnapNext /\ UNCHANGED vars)
StoresSpec ==
  /\ StoresInit /\ [][StoresNext]_<<vars, snapVars>>
  /\ Fairness /\ SnapFairness
=============================================================================
