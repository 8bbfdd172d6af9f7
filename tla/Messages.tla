------------------------------ MODULE Messages ------------------------------
(***************************************************************************)
(* Every message type of pkg/pb by name, with its three generated methods. *)
(***************************************************************************)
EXTENDS Mraft, Raftcmdpb

Codec(out, size, in) == [out |-> out, size |-> size, in |-> in]

Codecs == [
  NotLeader |-> Codec(NotLeader_MarshalTo, NotLeader_Size, NotLeader_Unmarshal),
  StoreNotMatch |-> Codec(StoreNotMatch_MarshalTo, StoreNotMatch_Size, StoreNotMatch_Unmarshal),
  CellNotFound |-> Codec(CellNotFound_MarshalTo, CellNotFound_Size, CellNotFound_Unmarshal),
  KeyNotInCell |-> Codec(KeyNotInCell_MarshalTo, KeyNotInCell_Size, KeyNotInCell_Unmarshal),
  StaleEpoch |-> Codec(StaleEpoch_MarshalTo, StaleEpoch_Size, StaleEpoch_Unmarshal),
  ServerIsBusy |-> Codec(ServerIsBusy_MarshalTo, ServerIsBusy_Size, ServerIsBusy_Unmarshal),
  StaleCommand |-> Codec(StaleCommand_MarshalTo, StaleCommand_Size, StaleCommand_Unmarshal),
  RaftEntryTooLarge |-> Codec(RaftEntryTooLarge_MarshalTo, RaftEntryTooLarge_Size, RaftEntryTooLarge_Unmarshal),
  Error |-> Codec(Error_MarshalTo, Error_Size, Error_Unmarshal),
  Label |-> Codec(Label_MarshalTo, Label_Size, Label_Unmarshal),
  Cluster |-> Codec(Cluster_MarshalTo, Cluster_Size, Cluster_Unmarshal),
  Peer |-> Codec(Peer_MarshalTo, Peer_Size, Peer_Unmarshal),
  CellEpoch |-> Codec(CellEpoch_MarshalTo, CellEpoch_Size, CellEpoch_Unmarshal),
  Cell |-> Codec(Cell_MarshalTo, Cell_Size, Cell_Unmarshal),
  Store |-> Codec(Store_MarshalTo, Store_Size, Store_Unmarshal),
  RaftMessage |-> Codec(RaftMessage_MarshalTo, RaftMessage_Size, RaftMessage_Unmarshal),
  StoreIdent |-> Codec(StoreIdent_MarshalTo, StoreIdent_Size, StoreIdent_Unmarshal),
  ACKMessage |-> Codec(ACKMessage_MarshalTo, ACKMessage_Size, ACKMessage_Unmarshal),
  SnapshotMessageHeader |-> Codec(SnapshotMessageHeader_MarshalTo, SnapshotMessageHeader_Size, SnapshotMessageHeader_Unmarshal),
  SnapshotChunkMessage |-> Codec(SnapshotChunkMessage_MarshalTo, SnapshotChunkMessage_Size, SnapshotChunkMessage_Unmarshal),
  SnapshotAckMessage |-> Codec(SnapshotAckMessage_MarshalTo, SnapshotAckMessage_Size, SnapshotAckMessage_Unmarshal),
  SnapshotAskMessage |-> Codec(SnapshotAskMessage_MarshalTo, SnapshotAskMessage_Size, SnapshotAskMessage_Unmarshal),
  SnapshotMessage |-> Codec(SnapshotMessage_MarshalTo, SnapshotMessage_Size, SnapshotMessage_Unmarshal),
  CellLocalState |-> Codec(CellLocalState_MarshalTo, CellLocalState_Size, CellLocalState_Unmarshal),
  RaftLocalState |-> Codec(RaftLocalState_MarshalTo, RaftLocalState_Size, RaftLocalState_Unmarshal),
  RaftTruncatedState |-> Codec(RaftTruncatedState_MarshalTo, RaftTruncatedState_Size, RaftTruncatedState_Unmarshal),
  RaftApplyState |-> Codec(RaftApplyState_MarshalTo, RaftApplyState_Size, RaftApplyState_Unmarshal),
  ChangePeer |-> Codec(ChangePeer_MarshalTo, ChangePeer_Size, ChangePeer_Unmarshal),
  TransferLeader |-> Codec(TransferLeader_MarshalTo, TransferLeader_Size, TransferLeader_Unmarshal),
  PeerStats |-> Codec(PeerStats_MarshalTo, PeerStats_Size, PeerStats_Unmarshal),
  Range |-> Codec(Range_MarshalTo, Range_Size, Range_Unmarshal),
  StoreStats |-> Codec(StoreStats_MarshalTo, StoreStats_Size, StoreStats_Unmarshal),
  RequestHeader |-> Codec(RequestHeader_MarshalTo, RequestHeader_Size, RequestHeader_Unmarshal),
  ResponseHeader |-> Codec(ResponseHeader_MarshalTo, ResponseHeader_Size, ResponseHeader_Unmarshal),
  Leader |-> Codec(Leader_MarshalTo, Leader_Size, Leader_Unmarshal),
  Watcher |-> Codec(Watcher_MarshalTo, Watcher_Size, Watcher_Unmarshal),
  RegisterWatcherReq |-> Codec(RegisterWatcherReq_MarshalTo, RegisterWatcherReq_Size, RegisterWatcherReq_Unmarshal),
  RegisterWatcherRsp |-> Codec(RegisterWatcherRsp_MarshalTo, RegisterWatcherRsp_Size, RegisterWatcherRsp_Unmarshal),
  WatcherHeartbeatReq |-> Codec(WatcherHeartbeatReq_MarshalTo, WatcherHeartbeatReq_Size, WatcherHeartbeatReq_Unmarshal),
  WatcherHeartbeatRsp |-> Codec(WatcherHeartbeatRsp_MarshalTo, WatcherHeartbeatRsp_Size, WatcherHeartbeatRsp_Unmarshal),
  WatcherNotify |-> Codec(WatcherNotify_MarshalTo, WatcherNotify_Size, WatcherNotify_Unmarshal),
  WatcherNotifySync |-> Codec(WatcherNotifySync_MarshalTo, WatcherNotifySync_Size, WatcherNotifySync_Unmarshal),
  CellEvent |-> Codec(CellEvent_MarshalTo, CellEvent_Size, CellEvent_Unmarshal),
  StoreEvent |-> Codec(StoreEvent_MarshalTo, StoreEvent_Size, StoreEvent_Unmarshal),
  WatchEvent |-> Codec(WatchEvent_MarshalTo, WatchEvent_Size, WatchEvent_Unmarshal),
  WatcherNotifyRsp |-> Codec(WatcherNotifyRsp_MarshalTo, WatcherNotifyRsp_Size, WatcherNotifyRsp_Unmarshal),
  LeaderReq |-> Codec(LeaderReq_MarshalTo, LeaderReq_Size, LeaderReq_Unmarshal),
  LeaderRsp |-> Codec(LeaderRsp_MarshalTo, LeaderRsp_Size, LeaderRsp_Unmarshal),
  ListStoreReq |-> Codec(ListStoreReq_MarshalTo, ListStoreReq_Size, ListStoreReq_Unmarshal),
  ListStoreRsp |-> Codec(ListStoreRsp_MarshalTo, ListStoreRsp_Size, ListStoreRsp_Unmarshal),
  PutStoreReq |-> Codec(PutStoreReq_MarshalTo, PutStoreReq_Size, PutStoreReq_Unmarshal),
  PutStoreRsp |-> Codec(PutStoreRsp_MarshalTo, PutStoreRsp_Size, PutStoreRsp_Unmarshal),
  GetStoreReq |-> Codec(GetStoreReq_MarshalTo, GetStoreReq_Size, GetStoreReq_Unmarshal),
  GetStoreRsp |-> Codec(GetStoreRsp_MarshalTo, GetStoreRsp_Size, GetStoreRsp_Unmarshal),
  GetClusterIDReq |-> Codec(GetClusterIDReq_MarshalTo, GetClusterIDReq_Size, GetClusterIDReq_Unmarshal),
  GetClusterIDRsp |-> Codec(GetClusterIDRsp_MarshalTo, GetClusterIDRsp_Size, GetClusterIDRsp_Unmarshal),
  GetInitParamsReq |-> Codec(GetInitParamsReq_MarshalTo, GetInitParamsReq_Size, GetInitParamsReq_Unmarshal),
  GetInitParamsRsp |-> Codec(GetInitParamsRsp_MarshalTo, GetInitParamsRsp_Size, GetInitParamsRsp_Unmarshal),
  AllocIDReq |-> Codec(AllocIDReq_MarshalTo, AllocIDReq_Size, AllocIDReq_Unmarshal),
  AllocIDRsp |-> Codec(AllocIDRsp_MarshalTo, AllocIDRsp_Size, AllocIDRsp_Unmarshal),
  IsClusterBootstrapReq |-> Codec(IsClusterBootstrapReq_MarshalTo, IsClusterBootstrapReq_Size, IsClusterBootstrapReq_Unmarshal),
  IsClusterBootstrapRsp |-> Codec(IsClusterBootstrapRsp_MarshalTo, IsClusterBootstrapRsp_Size, IsClusterBootstrapRsp_Unmarshal),
  BootstrapClusterReq |-> Codec(BootstrapClusterReq_MarshalTo, BootstrapClusterReq_Size, BootstrapClusterReq_Unmarshal),
  BootstrapClusterRsp |-> Codec(BootstrapClusterRsp_MarshalTo, BootstrapClusterRsp_Size, BootstrapClusterRsp_Unmarshal),
  CellHeartbeatReq |-> Codec(CellHeartbeatReq_MarshalTo, CellHeartbeatReq_Size, CellHeartbeatReq_Unmarshal),
  CellHeartbeatRsp |-> Codec(CellHeartbeatRsp_MarshalTo, CellHeartbeatRsp_Size, CellHeartbeatRsp_Unmarshal),
  StoreHeartbeatReq |-> Codec(StoreHeartbeatReq_MarshalTo, StoreHeartbeatReq_Size, StoreHeartbeatReq_Unmarshal),
  AskSplitReq |-> Codec(AskSplitReq_MarshalTo, AskSplitReq_Size, AskSplitReq_Unmarshal),
  AskSplitRsp |-> Codec(AskSplitRsp_MarshalTo, AskSplitRsp_Size, AskSplitRsp_Unmarshal),
  ReportSplitReq |-> Codec(ReportSplitReq_MarshalTo, ReportSplitReq_Size, ReportSplitReq_Unmarshal),
  ReportSplitRsp |-> Codec(ReportSplitRsp_MarshalTo, ReportSplitRsp_Size, ReportSplitRsp_Unmarshal),
  GetLastRangesReq |-> Codec(GetLastRangesReq_MarshalTo, GetLastRangesReq_Size, GetLastRangesReq_Unmarshal),
  GetLastRangesRsp |-> Codec(GetLastRangesRsp_MarshalTo, GetLastRangesRsp_Size, GetLastRangesRsp_Unmarshal),
  SetLogLevel |-> Codec(SetLogLevel_MarshalTo, SetLogLevel_Size, SetLogLevel_Unmarshal),
  FieldDef |-> Codec(FieldDef_MarshalTo, FieldDef_Size, FieldDef_Unmarshal),
  IndexDef |-> Codec(IndexDef_MarshalTo, IndexDef_Size, IndexDef_Unmarshal),
  StoreHeartbeatRsp |-> Codec(StoreHeartbeatRsp_MarshalTo, StoreHeartbeatRsp_Size, StoreHeartbeatRsp_Unmarshal),
  IndexKeyRequest |-> Codec(IndexKeyRequest_MarshalTo, IndexKeyRequest_Size, IndexKeyRequest_Unmarshal),
  IndexSplitRequest |-> Codec(IndexSplitRequest_MarshalTo, IndexSplitRequest_Size, IndexSplitRequest_Unmarshal),
  IndexDestroyCellRequest |-> Codec(IndexDestroyCellRequest_MarshalTo, IndexDestroyCellRequest_Size, IndexDestroyCellRequest_Unmarshal),
  IndexRebuildCellRequest |-> Codec(IndexRebuildCellRequest_MarshalTo, IndexRebuildCellRequest_Size, IndexRebuildCellRequest_Unmarshal),
  IndexRequest |-> Codec(IndexRequest_MarshalTo, IndexRequest_Size, IndexRequest_Unmarshal),
  KeyMetaVal |-> Codec(KeyMetaVal_MarshalTo, KeyMetaVal_Size, KeyMetaVal_Unmarshal),
  UintPred |-> Codec(UintPred_MarshalTo, UintPred_Size, UintPred_Unmarshal),
  StrPred |-> Codec(StrPred_MarshalTo, StrPred_Size, StrPred_Unmarshal),
  QueryReq |-> Codec(QueryReq_MarshalTo, QueryReq_Size, QueryReq_Unmarshal),
  Document |-> Codec(Document_MarshalTo, Document_Size, Document_Unmarshal),
  QueryRsp |-> Codec(QueryRsp_MarshalTo, QueryRsp_Size, QueryRsp_Unmarshal),
  RaftRequestHeader |-> Codec(RaftRequestHeader_MarshalTo, RaftRequestHeader_Size, RaftRequestHeader_Unmarshal),
  RaftResponseHeader |-> Codec(RaftResponseHeader_MarshalTo, RaftResponseHeader_Size, RaftResponseHeader_Unmarshal),
  AdminRequest |-> Codec(AdminRequest_MarshalTo, AdminRequest_Size, AdminRequest_Unmarshal),
  AdminResponse |-> Codec(AdminResponse_MarshalTo, AdminResponse_Size, AdminResponse_Unmarshal),
  ChangePeerRequest |-> Codec(ChangePeerRequest_MarshalTo, ChangePeerRequest_Size, ChangePeerRequest_Unmarshal),
  ChangePeerResponse |-> Codec(ChangePeerResponse_MarshalTo, ChangePeerResponse_Size, ChangePeerResponse_Unmarshal),
  SplitRequest |-> Codec(SplitRequest_MarshalTo, SplitRequest_Size, SplitRequest_Unmarshal),
  SplitResponse |-> Codec(SplitResponse_MarshalTo, SplitResponse_Size, SplitResponse_Unmarshal),
  TransferLeaderRequest |-> Codec(TransferLeaderRequest_MarshalTo, TransferLeaderRequest_Size, TransferLeaderRequest_Unmarshal),
  TransferLeaderResponse |-> Codec(TransferLeaderResponse_MarshalTo, TransferLeaderResponse_Size, TransferLeaderResponse_Unmarshal),
  RaftLogGCRequest |-> Codec(RaftLogGCRequest_MarshalTo, RaftLogGCRequest_Size, RaftLogGCRequest_Unmarshal),
  RaftLogGCResponse |-> Codec(RaftLogGCResponse_MarshalTo, RaftLogGCResponse_Size, RaftLogGCResponse_Unmarshal),
  FVPair |-> Codec(FVPair_MarshalTo, FVPair_Size, FVPair_Unmarshal),
  ScorePair |-> Codec(ScorePair_MarshalTo, ScorePair_Size, ScorePair_Unmarshal),
  Request |-> Codec(Request_MarshalTo, Request_Size, Request_Unmarshal),
  RaftCMDRequest |-> Codec(RaftCMDRequest_MarshalTo, RaftCMDRequest_Size, RaftCMDRequest_Unmarshal),
  Response |-> Codec(Response_MarshalTo, Response_Size, Response_Unmarshal),
  RaftCMDResponse |-> Codec(RaftCMDResponse_MarshalTo, RaftCMDResponse_Size, RaftCMDResponse_Unmarshal)]

Types == DOMAIN Codecs
Out(type)  == Codecs[type].out
SizeOf(type, m) == Size(Codecs[type].size, m)
In(type)   == Codecs[type].in
Zero(type) == Reset(In(type))
=============================================================================
