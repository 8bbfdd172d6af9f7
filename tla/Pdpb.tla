-------------------------------- MODULE Pdpb --------------------------------
(***************************************************************************)
(* The codecs of pkg/pb/pdpb: the interface of PD and its notifications.   *)
(* For each message what its MarshalTo writes, what its Size counts and what *)
(* its Unmarshal does with each field number, row by row (see WireFormat). *)
(***************************************************************************)
EXTENDS WireFormat, Metapb

ChangePeer_MarshalTo == <<Put("Type", 1, V), PutSomeMsg("Peer", 2, Peer_MarshalTo)>>
ChangePeer_Size == <<Sz("Type", 1, V), SzSomeMsg("Peer", 1, Peer_Size)>>
ChangePeer_Unmarshal == <<Take("Type", 1, V), TakeSomeMsg("Peer", 2, Peer_Unmarshal)>>

TransferLeader_MarshalTo == <<PutMsg("Peer", 1, Peer_MarshalTo)>>
TransferLeader_Size == <<SzMsg("Peer", 1, Peer_Size)>>
TransferLeader_Unmarshal == <<TakeMsg("Peer", 1, Peer_Unmarshal)>>

PeerStats_MarshalTo == <<PutMsg("Peer", 1, Peer_MarshalTo), Put("DownSeconds", 2, V)>>
PeerStats_Size == <<SzMsg("Peer", 1, Peer_Size), Sz("DownSeconds", 1, V)>>
PeerStats_Unmarshal == <<TakeMsg("Peer", 1, Peer_Unmarshal), Take("DownSeconds", 2, V)>>

Range_MarshalTo ==
  <<PutMsg("Cell", 1, Cell_MarshalTo), PutMsg("LeaderStore", 2, Store_MarshalTo)>>
Range_Size == <<SzMsg("Cell", 1, Cell_Size), SzMsg("LeaderStore", 1, Store_Size)>>
Range_Unmarshal ==
  <<TakeMsg("Cell", 1, Cell_Unmarshal), TakeMsg("LeaderStore", 2, Store_Unmarshal)>>

StoreStats_MarshalTo ==
  <<Put("StoreID", 1, V), Put("Capacity", 2, V), Put("Available", 3, V),
   Put("CellCount", 4, V), Put("SendingSnapCount", 5, V), Put("ReceivingSnapCount", 6, V),
   Put("StartTime", 7, V), Put("ApplyingSnapCount", 8, V), Put("IsBusy", 9, V),
   Put("UsedSize", 10, V), Put("BytesWritten", 11, V), Put("LogLevel", 12, V)>>
StoreStats_Size ==
  <<Sz("StoreID", 1, V), Sz("Capacity", 1, V), Sz("Available", 1, V), Sz("CellCount", 1, V),
   Sz("SendingSnapCount", 1, V), Sz("ReceivingSnapCount", 1, V), Sz("StartTime", 1, V),
   Sz("ApplyingSnapCount", 1, V), Sz("IsBusy", 1, V), Sz("UsedSize", 1, V),
   Sz("BytesWritten", 1, V), Sz("LogLevel", 1, V)>>
StoreStats_Unmarshal ==
  <<Take("StoreID", 1, V), Take("Capacity", 2, V), Take("Available", 3, V),
   Take("CellCount", 4, V), Take("SendingSnapCount", 5, V), Take("ReceivingSnapCount", 6, V),
   Take("StartTime", 7, V), Take("ApplyingSnapCount", 8, V), Take("IsBusy", 9, V),
   Take("UsedSize", 10, V), Take("BytesWritten", 11, V), Take("LogLevel", 12, V)>>

RequestHeader_MarshalTo == <<Put("ClusterID", 1, V)>>
RequestHeader_Size == <<Sz("ClusterID", 1, V)>>
RequestHeader_Unmarshal == <<Take("ClusterID", 1, V)>>

ResponseHeader_MarshalTo == <<Put("ClusterID", 1, V)>>
ResponseHeader_Size == <<Sz("ClusterID", 1, V)>>
ResponseHeader_Unmarshal == <<Take("ClusterID", 1, V)>>

Leader_MarshalTo ==
  <<Put("ID", 1, V), Put("Name", 2, B), Put("Addr", 3, B), Put("EtcdClientAddr", 4, B)>>
Leader_Size == <<Sz("ID", 1, V), Sz("Name", 1, B), Sz("Addr", 1, B), Sz("EtcdClientAddr", 1, B)>>
Leader_Unmarshal ==
  <<Take("ID", 1, V), Take("Name", 2, B), Take("Addr", 3, B), Take("EtcdClientAddr", 4, B)>>

Watcher_MarshalTo == <<Put("Addr", 1, B), Put("EventFlag", 2, V)>>
Watcher_Size == <<Sz("Addr", 1, B), Sz("EventFlag", 1, V)>>
Watcher_Unmarshal == <<Take("Addr", 1, B), Take("EventFlag", 2, V)>>

RegisterWatcherReq_MarshalTo ==
  <<Put("From", 1, B), Put("ID", 2, V), PutMsg("Watcher", 3, Watcher_MarshalTo)>>
RegisterWatcherReq_Size == <<Sz("From", 1, B), Sz("ID", 1, V), SzMsg("Watcher", 1, Watcher_Size)>>
RegisterWatcherReq_Unmarshal ==
  <<Take("From", 1, B), Take("ID", 2, V), TakeMsg("Watcher", 3, Watcher_Unmarshal)>>

RegisterWatcherRsp_MarshalTo == <<>>
RegisterWatcherRsp_Size == <<>>
RegisterWatcherRsp_Unmarshal == <<>>

WatcherHeartbeatReq_MarshalTo ==
  <<Put("From", 1, B), Put("ID", 2, V), Put("Addr", 3, B), Put("Offset", 4, V)>>
WatcherHeartbeatReq_Size ==
  <<Sz("From", 1, B), Sz("ID", 1, V), Sz("Addr", 1, B), Sz("Offset", 1, V)>>
WatcherHeartbeatReq_Unmarshal ==
  <<Take("From", 1, B), Take("ID", 2, V), Take("Addr", 3, B), Take("Offset", 4, V)>>

WatcherHeartbeatRsp_MarshalTo == <<Put("Paused", 1, V)>>
WatcherHeartbeatRsp_Size == <<Sz("Paused", 1, V)>>
WatcherHeartbeatRsp_Unmarshal == <<Take("Paused", 1, V)>>

WatcherNotify_MarshalTo == <<Put("Offset", 1, V)>>
WatcherNotify_Size == <<Sz("Offset", 1, V)>>
WatcherNotify_Unmarshal == <<Take("Offset", 1, V)>>

WatcherNotifySync_MarshalTo == <<Put("Offset", 1, V)>>
WatcherNotifySync_Size == <<Sz("Offset", 1, V)>>
WatcherNotifySync_Unmarshal == <<Take("Offset", 1, V)>>

CellEvent_MarshalTo == <<PutSomeMsg("Range", 1, Range_MarshalTo)>>
CellEvent_Size == <<SzSomeMsg("Range", 1, Range_Size)>>
CellEvent_Unmarshal == <<TakeSomeMsg("Range", 1, Range_Unmarshal)>>

StoreEvent_MarshalTo == <<PutSomeMsg("Store", 1, Store_MarshalTo)>>
StoreEvent_Size == <<SzSomeMsg("Store", 1, Store_Size)>>
StoreEvent_Unmarshal == <<TakeSomeMsg("Store", 1, Store_Unmarshal)>>

WatchEvent_MarshalTo ==
  <<Put("Event", 1, V), PutSomeMsg("CellEvent", 2, CellEvent_MarshalTo),
   PutSomeMsg("StoreEvent", 3, StoreEvent_MarshalTo)>>
WatchEvent_Size ==
  <<Sz("Event", 1, V), SzSomeMsg("CellEvent", 1, CellEvent_Size),
   SzSomeMsg("StoreEvent", 1, StoreEvent_Size)>>
WatchEvent_Unmarshal ==
  <<Take("Event", 1, V), TakeSomeMsg("CellEvent", 2, CellEvent_Unmarshal),
   TakeSomeMsg("StoreEvent", 3, StoreEvent_Unmarshal)>>

WatcherNotifyRsp_MarshalTo ==
  <<Put("Offset", 1, V), PutEachMsg("Events", 2, WatchEvent_MarshalTo)>>
WatcherNotifyRsp_Size == <<Sz("Offset", 1, V), SzEachMsg("Events", 1, WatchEvent_Size)>>
WatcherNotifyRsp_Unmarshal ==
  <<Take("Offset", 1, V), TakeEachMsg("Events", 2, WatchEvent_Unmarshal)>>

LeaderReq_MarshalTo == <<Put("From", 1, B), Put("ID", 2, V)>>
LeaderReq_Size == <<Sz("From", 1, B), Sz("ID", 1, V)>>
LeaderReq_Unmarshal == <<Take("From", 1, B), Take("ID", 2, V)>>

LeaderRsp_MarshalTo == <<PutMsg("Leader", 1, Leader_MarshalTo)>>
LeaderRsp_Size == <<SzMsg("Leader", 1, Leader_Size)>>
LeaderRsp_Unmarshal == <<TakeMsg("Leader", 1, Leader_Unmarshal)>>

ListStoreReq_MarshalTo == <<Put("From", 1, B), Put("ID", 2, V)>>
ListStoreReq_Size == <<Sz("From", 1, B), Sz("ID", 1, V)>>
ListStoreReq_Unmarshal == <<Take("From", 1, B), Take("ID", 2, V)>>

ListStoreRsp_MarshalTo == <<PutEachMsg("Stores", 1, Store_MarshalTo)>>
ListStoreRsp_Size == <<SzEachMsg("Stores", 1, Store_Size)>>
ListStoreRsp_Unmarshal == <<TakeEachMsg("Stores", 1, Store_Unmarshal)>>

PutStoreReq_MarshalTo ==
  <<Put("From", 1, B), Put("ID", 2, V), PutMsg("Header", 3, RequestHeader_MarshalTo),
   PutMsg("Store", 4, Store_MarshalTo)>>
PutStoreReq_Size ==
  <<Sz("From", 1, B), Sz("ID", 1, V), SzMsg("Header", 1, RequestHeader_Size),
   SzMsg("Store", 1, Store_Size)>>
PutStoreReq_Unmarshal ==
  <<Take("From", 1, B), Take("ID", 2, V), TakeMsg("Header", 3, RequestHeader_Unmarshal),
   TakeMsg("Store", 4, Store_Unmarshal)>>

PutStoreRsp_MarshalTo == <<PutMsg("Header", 1, ResponseHeader_MarshalTo)>>
PutStoreRsp_Size == <<SzMsg("Header", 1, ResponseHeader_Size)>>
PutStoreRsp_Unmarshal == <<TakeMsg("Header", 1, ResponseHeader_Unmarshal)>>

GetStoreReq_MarshalTo ==
  <<Put("From", 1, B), Put("ID", 2, V), PutMsg("Header", 3, RequestHeader_MarshalTo),
   Put("StoreID", 4, V)>>
GetStoreReq_Size ==
  <<Sz("From", 1, B), Sz("ID", 1, V), SzMsg("Header", 1, RequestHeader_Size),
   Sz("StoreID", 1, V)>>
GetStoreReq_Unmarshal ==
  <<Take("From", 1, B), Take("ID", 2, V), TakeMsg("Header", 3, RequestHeader_Unmarshal),
   Take("StoreID", 4, V)>>

GetStoreRsp_MarshalTo ==
  <<PutMsg("Header", 1, ResponseHeader_MarshalTo), PutMsg("Store", 2, Store_MarshalTo)>>
GetStoreRsp_Size == <<SzMsg("Header", 1, ResponseHeader_Size), SzMsg("Store", 1, Store_Size)>>
GetStoreRsp_Unmarshal ==
  <<TakeMsg("Header", 1, ResponseHeader_Unmarshal), TakeMsg("Store", 2, Store_Unmarshal)>>

GetClusterIDReq_MarshalTo == <<Put("From", 1, B), Put("ID", 2, V)>>
GetClusterIDReq_Size == <<Sz("From", 1, B), Sz("ID", 1, V)>>
GetClusterIDReq_Unmarshal == <<Take("From", 1, B), Take("ID", 2, V)>>

GetClusterIDRsp_MarshalTo == <<Put("ID", 1, V)>>
GetClusterIDRsp_Size == <<Sz("ID", 1, V)>>
GetClusterIDRsp_Unmarshal == <<Take("ID", 1, V)>>

GetInitParamsReq_MarshalTo == <<Put("From", 1, B), Put("ID", 2, V)>>
GetInitParamsReq_Size == <<Sz("From", 1, B), Sz("ID", 1, V)>>
GetInitParamsReq_Unmarshal == <<Take("From", 1, B), Take("ID", 2, V)>>

GetInitParamsRsp_MarshalTo == <<PutSome("Params", 1, B)>>
GetInitParamsRsp_Size == <<SzSome("Params", 1, B)>>
GetInitParamsRsp_Unmarshal == <<TakeSome("Params", 1, B)>>

AllocIDReq_MarshalTo == <<Put("From", 1, B), Put("ID", 2, V)>>
AllocIDReq_Size == <<Sz("From", 1, B), Sz("ID", 1, V)>>
AllocIDReq_Unmarshal == <<Take("From", 1, B), Take("ID", 2, V)>>

AllocIDRsp_MarshalTo == <<Put("ID", 1, V)>>
AllocIDRsp_Size == <<Sz("ID", 1, V)>>
AllocIDRsp_Unmarshal == <<Take("ID", 1, V)>>

IsClusterBootstrapReq_MarshalTo == <<Put("From", 1, B), Put("ID", 2, V)>>
IsClusterBootstrapReq_Size == <<Sz("From", 1, B), Sz("ID", 1, V)>>
IsClusterBootstrapReq_Unmarshal == <<Take("From", 1, B), Take("ID", 2, V)>>

IsClusterBootstrapRsp_MarshalTo == <<Put("Value", 1, V)>>
IsClusterBootstrapRsp_Size == <<Sz("Value", 1, V)>>
IsClusterBootstrapRsp_Unmarshal == <<Take("Value", 1, V)>>

BootstrapClusterReq_MarshalTo ==
  <<Put("From", 1, B), Put("ID", 2, V), PutMsg("Store", 3, Store_MarshalTo),
   PutEachMsg("Cells", 4, Cell_MarshalTo)>>
BootstrapClusterReq_Size ==
  <<Sz("From", 1, B), Sz("ID", 1, V), SzMsg("Store", 1, Store_Size),
   SzEachMsg("Cells", 1, Cell_Size)>>
BootstrapClusterReq_Unmarshal ==
  <<Take("From", 1, B), Take("ID", 2, V), TakeMsg("Store", 3, Store_Unmarshal),
   TakeEachMsg("Cells", 4, Cell_Unmarshal)>>

BootstrapClusterRsp_MarshalTo == <<Put("AlreadyBootstrapped", 1, V)>>
BootstrapClusterRsp_Size == <<Sz("AlreadyBootstrapped", 1, V)>>
BootstrapClusterRsp_Unmarshal == <<Take("AlreadyBootstrapped", 1, V)>>

CellHeartbeatReq_MarshalTo ==
  <<Put("From", 1, B), Put("ID", 2, V), PutMsg("Cell", 3, Cell_MarshalTo),
   PutSomeMsg("Leader", 4, Peer_MarshalTo), PutEachMsg("DownPeers", 5, PeerStats_MarshalTo),
   PutEachMsg("PendingPeers", 6, Peer_MarshalTo), Put("BytesWritten", 7, V),
   Put("BytesRead", 8, V), Put("KeysWritten", 9, V), Put("KeysRead", 10, V)>>
CellHeartbeatReq_Size ==
  <<Sz("From", 1, B), Sz("ID", 1, V), SzMsg("Cell", 1, Cell_Size),
   SzSomeMsg("Leader", 1, Peer_Size), SzEachMsg("DownPeers", 1, PeerStats_Size),
   SzEachMsg("PendingPeers", 1, Peer_Size), Sz("BytesWritten", 1, V), Sz("BytesRead", 1, V),
   Sz("KeysWritten", 1, V), Sz("KeysRead", 1, V)>>
CellHeartbeatReq_Unmarshal ==
  <<Take("From", 1, B), Take("ID", 2, V), TakeMsg("Cell", 3, Cell_Unmarshal),
   TakeSomeMsg("Leader", 4, Peer_Unmarshal), TakeEachMsg("DownPeers", 5, PeerStats_Unmarshal),
   TakeEachMsg("PendingPeers", 6, Peer_Unmarshal), Take("BytesWritten", 7, V),
   Take("BytesRead", 8, V), Take("KeysWritten", 9, V), Take("KeysRead", 10, V)>>

CellHeartbeatRsp_MarshalTo ==
  <<PutSomeMsg("ChangePeer", 1, ChangePeer_MarshalTo),
   PutSomeMsg("TransferLeader", 2, TransferLeader_MarshalTo)>>
CellHeartbeatRsp_Size ==
  <<SzSomeMsg("ChangePeer", 1, ChangePeer_Size),
   SzSomeMsg("TransferLeader", 1, TransferLeader_Size)>>
CellHeartbeatRsp_Unmarshal ==
  <<TakeSomeMsg("ChangePeer", 1, ChangePeer_Unmarshal),
   TakeSomeMsg("TransferLeader", 2, TransferLeader_Unmarshal)>>

StoreHeartbeatReq_MarshalTo ==
  <<Put("From", 1, B), Put("ID", 2, V), PutMsg("Header", 3, RequestHeader_MarshalTo),
   PutSomeMsg("Stats", 4, StoreStats_MarshalTo)>>
StoreHeartbeatReq_Size ==
  <<Sz("From", 1, B), Sz("ID", 1, V), SzMsg("Header", 1, RequestHeader_Size),
   SzSomeMsg("Stats", 1, StoreStats_Size)>>
StoreHeartbeatReq_Unmarshal ==
  <<Take("From", 1, B), Take("ID", 2, V), TakeMsg("Header", 3, RequestHeader_Unmarshal),
   TakeSomeMsg("Stats", 4, StoreStats_Unmarshal)>>

AskSplitReq_MarshalTo ==
  <<Put("From", 1, B), Put("ID", 2, V), PutMsg("Header", 3, RequestHeader_MarshalTo),
   PutMsg("Cell", 4, Cell_MarshalTo)>>
AskSplitReq_Size ==
  <<Sz("From", 1, B), Sz("ID", 1, V), SzMsg("Header", 1, RequestHeader_Size),
   SzMsg("Cell", 1, Cell_Size)>>
AskSplitReq_Unmarshal ==
  <<Take("From", 1, B), Take("ID", 2, V), TakeMsg("Header", 3, RequestHeader_Unmarshal),
   TakeMsg("Cell", 4, Cell_Unmarshal)>>

AskSplitRsp_MarshalTo ==
  <<PutMsg("Header", 1, ResponseHeader_MarshalTo), Put("NewCellID", 2, V),
   PutEach("NewPeerIDs", 3, V)>>
AskSplitRsp_Size ==
  <<SzMsg("Header", 1, ResponseHeader_Size), Sz("NewCellID", 1, V), SzEach("NewPeerIDs", 1, V)>>
AskSplitRsp_Unmarshal ==
  <<TakeMsg("Header", 1, ResponseHeader_Unmarshal), Take("NewCellID", 2, V),
   TakeEach("NewPeerIDs", 3, V)>>

ReportSplitReq_MarshalTo ==
  <<Put("From", 1, B), Put("ID", 2, V), PutMsg("Header", 3, RequestHeader_MarshalTo),
   PutMsg("Left", 4, Cell_MarshalTo), PutMsg("Right", 5, Cell_MarshalTo)>>
ReportSplitReq_Size ==
  <<Sz("From", 1, B), Sz("ID", 1, V), SzMsg("Header", 1, RequestHeader_Size),
   SzMsg("Left", 1, Cell_Size), SzMsg("Right", 1, Cell_Size)>>
ReportSplitReq_Unmarshal ==
  <<Take("From", 1, B), Take("ID", 2, V), TakeMsg("Header", 3, RequestHeader_Unmarshal),
   TakeMsg("Left", 4, Cell_Unmarshal), TakeMsg("Right", 5, Cell_Unmarshal)>>

ReportSplitRsp_MarshalTo == <<PutMsg("Header", 1, ResponseHeader_MarshalTo)>>
ReportSplitRsp_Size == <<SzMsg("Header", 1, ResponseHeader_Size)>>
ReportSplitRsp_Unmarshal == <<TakeMsg("Header", 1, ResponseHeader_Unmarshal)>>

GetLastRangesReq_MarshalTo == <<Put("From", 1, B), Put("ID", 2, V)>>
GetLastRangesReq_Size == <<Sz("From", 1, B), Sz("ID", 1, V)>>
GetLastRangesReq_Unmarshal == <<Take("From", 1, B), Take("ID", 2, V)>>

GetLastRangesRsp_MarshalTo == <<PutEachMsg("Ranges", 1, Range_MarshalTo)>>
GetLastRangesRsp_Size == <<SzEachMsg("Ranges", 1, Range_Size)>>
GetLastRangesRsp_Unmarshal == <<TakeEachMsg("Ranges", 1, Range_Unmarshal)>>

SetLogLevel_MarshalTo == <<Put("NewLevel", 1, V)>>
SetLogLevel_Size == <<Sz("NewLevel", 1, V)>>
SetLogLevel_Unmarshal == <<Take("NewLevel", 1, V)>>

FieldDef_MarshalTo == <<PutNeeded("Name", 1, B), PutNeeded("Type", 2, V)>>
FieldDef_Size == <<SzNeeded("Name", 1, B), SzNeeded("Type", 1, V)>>
FieldDef_Unmarshal == <<TakeNeeded("Name", 1, B), TakeNeeded("Type", 2, V)>>

IndexDef_MarshalTo ==
  <<Put("Name", 1, B), Put("KeyPattern", 2, B), PutEachMsg("Fields", 3, FieldDef_MarshalTo)>>
IndexDef_Size ==
  <<Sz("Name", 1, B), Sz("KeyPattern", 1, B), SzEachMsg("Fields", 1, FieldDef_Size)>>
IndexDef_Unmarshal ==
  <<Take("Name", 1, B), Take("KeyPattern", 2, B), TakeEachMsg("Fields", 3, FieldDef_Unmarshal)>>

StoreHeartbeatRsp_MarshalTo ==
  <<PutMsg("Header", 1, ResponseHeader_MarshalTo),
   PutSomeMsg("SetLogLevel", 2, SetLogLevel_MarshalTo),
   PutEachMsg("Indices", 3, IndexDef_MarshalTo)>>
StoreHeartbeatRsp_Size ==
  <<SzMsg("Header", 1, ResponseHeader_Size), SzSomeMsg("SetLogLevel", 1, SetLogLevel_Size),
   SzEachMsg("Indices", 1, IndexDef_Size)>>
StoreHeartbeatRsp_Unmarshal ==
  <<TakeMsg("Header", 1, ResponseHeader_Unmarshal),
   TakeSomeMsg("SetLogLevel", 2, SetLogLevel_Unmarshal),
   TakeEachMsg("Indices", 3, IndexDef_Unmarshal)>>

IndexKeyRequest_MarshalTo ==
  <<Put("CellID", 1, V), Put("IdxName", 2, B), PutEach("CmdArgs", 3, B), Put("IsDel", 4, V)>>
IndexKeyRequest_Size ==
  <<Sz("CellID", 1, V), Sz("IdxName", 1, B), SzEach("CmdArgs", 1, B), Sz("IsDel", 1, V)>>
IndexKeyRequest_Unmarshal ==
  <<Take("CellID", 1, V), Take("IdxName", 2, B), TakeEach("CmdArgs", 3, B),
   Take("IsDel", 4, V)>>

IndexSplitRequest_MarshalTo == <<Put("LeftCellID", 1, V), Put("RightCellID", 2, V)>>
IndexSplitRequest_Size == <<Sz("LeftCellID", 1, V), Sz("RightCellID", 1, V)>>
IndexSplitRequest_Unmarshal == <<Take("LeftCellID", 1, V), Take("RightCellID", 2, V)>>

IndexDestroyCellRequest_MarshalTo == <<Put("CellID", 1, V)>>
IndexDestroyCellRequest_Size == <<Sz("CellID", 1, V)>>
IndexDestroyCellRequest_Unmarshal == <<Take("CellID", 1, V)>>

IndexRebuildCellRequest_MarshalTo == <<Put("CellID", 1, V)>>
IndexRebuildCellRequest_Size == <<Sz("CellID", 1, V)>>
IndexRebuildCellRequest_Unmarshal == <<Take("CellID", 1, V)>>

IndexRequest_MarshalTo ==
  <<PutSomeMsg("IdxSplit", 1, IndexSplitRequest_MarshalTo),
   PutSomeMsg("IdxDestroy", 2, IndexDestroyCellRequest_MarshalTo),
   PutSomeMsg("IdxRebuild", 3, IndexRebuildCellRequest_MarshalTo)>>
IndexRequest_Size ==
  <<SzSomeMsg("IdxSplit", 1, IndexSplitRequest_Size),
   SzSomeMsg("IdxDestroy", 1, IndexDestroyCellRequest_Size),
   SzSomeMsg("IdxRebuild", 1, IndexRebuildCellRequest_Size)>>
IndexRequest_Unmarshal ==
  <<TakeSomeMsg("IdxSplit", 1, IndexSplitRequest_Unmarshal),
   TakeSomeMsg("IdxDestroy", 2, IndexDestroyCellRequest_Unmarshal),
   TakeSomeMsg("IdxRebuild", 3, IndexRebuildCellRequest_Unmarshal)>>

KeyMetaVal_MarshalTo == <<Put("IdxName", 1, B), Put("DocID", 2, V), Put("CellID", 3, V)>>
KeyMetaVal_Size == <<Sz("IdxName", 1, B), Sz("DocID", 1, V), Sz("CellID", 1, V)>>
KeyMetaVal_Unmarshal == <<Take("IdxName", 1, B), Take("DocID", 2, V), Take("CellID", 3, V)>>

=============================================================================
