------------------------------ MODULE Raftcmdpb -----------------------------
(***************************************************************************)
(* The codecs of pkg/pb/raftcmdpb: client and admin commands.              *)
(* For each message what its MarshalTo writes, what its Size counts and what *)
(* its Unmarshal does with each field number, row by row (see WireFormat). *)
(***************************************************************************)
EXTENDS WireFormat, Errorpb, Pdpb, Querypb

RaftRequestHeader_MarshalTo ==
  <<Put("CellId", 1, V), PutMsg("Peer", 2, Peer_MarshalTo), Put("ReadQuorum", 3, V),
   PutSome("UUID", 4, B), PutMsg("CellEpoch", 5, CellEpoch_MarshalTo), Put("Term", 6, V)>>
RaftRequestHeader_Size ==
  <<Sz("CellId", 1, V), SzMsg("Peer", 1, Peer_Size), Sz("ReadQuorum", 1, V),
   SzSome("UUID", 1, B), SzMsg("CellEpoch", 1, CellEpoch_Size), Sz("Term", 1, V)>>
RaftRequestHeader_Unmarshal ==
  <<Take("CellId", 1, V), TakeMsg("Peer", 2, Peer_Unmarshal), Take("ReadQuorum", 3, V),
   TakeSome("UUID", 4, B), TakeMsg("CellEpoch", 5, CellEpoch_Unmarshal), Take("Term", 6, V)>>

RaftResponseHeader_MarshalTo ==
  <<PutMsg("Error", 1, Error_MarshalTo), PutSome("UUID", 2, B), Put("CurrentTerm", 3, V)>>
RaftResponseHeader_Size ==
  <<SzMsg("Error", 1, Error_Size), SzSome("UUID", 1, B), Sz("CurrentTerm", 1, V)>>
RaftResponseHeader_Unmarshal ==
  <<TakeMsg("Error", 1, Error_Unmarshal), TakeSome("UUID", 2, B), Take("CurrentTerm", 3, V)>>

AdminRequest_MarshalTo == <<Put("Type", 1, V), PutSome("Body", 2, B)>>
AdminRequest_Size == <<Sz("Type", 1, V), SzSome("Body", 1, B)>>
AdminRequest_Unmarshal == <<Take("Type", 1, V), TakeSome("Body", 2, B)>>

AdminResponse_MarshalTo == <<Put("Type", 1, V), PutSome("Body", 2, B)>>
AdminResponse_Size == <<Sz("Type", 1, V), SzSome("Body", 1, B)>>
AdminResponse_Unmarshal == <<Take("Type", 1, V), TakeSome("Body", 2, B)>>

ChangePeerRequest_MarshalTo == <<Put("ChangeType", 1, V), PutMsg("Peer", 2, Peer_MarshalTo)>>
ChangePeerRequest_Size == <<Sz("ChangeType", 1, V), SzMsg("Peer", 1, Peer_Size)>>
ChangePeerRequest_Unmarshal == <<Take("ChangeType", 1, V), TakeMsg("Peer", 2, Peer_Unmarshal)>>

ChangePeerResponse_MarshalTo == <<PutMsg("Cell", 1, Cell_MarshalTo)>>
ChangePeerResponse_Size == <<SzMsg("Cell", 1, Cell_Size)>>
ChangePeerResponse_Unmarshal == <<TakeMsg("Cell", 1, Cell_Unmarshal)>>

SplitRequest_MarshalTo ==
  <<PutSome("SplitKey", 1, B), Put("NewCellID", 2, V), PutEach("NewPeerIDs", 3, V),
   Put("RightDerive", 4, V)>>
SplitRequest_Size ==
  <<SzSome("SplitKey", 1, B), Sz("NewCellID", 1, V), SzEach("NewPeerIDs", 1, V),
   Sz("RightDerive", 1, V)>>
SplitRequest_Unmarshal ==
  <<TakeSome("SplitKey", 1, B), Take("NewCellID", 2, V), TakeEach("NewPeerIDs", 3, V),
   Take("RightDerive", 4, V)>>

SplitResponse_MarshalTo ==
  <<PutMsg("Left", 1, Cell_MarshalTo), PutMsg("Right", 2, Cell_MarshalTo)>>
SplitResponse_Size == <<SzMsg("Left", 1, Cell_Size), SzMsg("Right", 1, Cell_Size)>>
SplitResponse_Unmarshal ==
  <<TakeMsg("Left", 1, Cell_Unmarshal), TakeMsg("Right", 2, Cell_Unmarshal)>>

TransferLeaderRequest_MarshalTo == <<PutMsg("Peer", 1, Peer_MarshalTo)>>
TransferLeaderRequest_Size == <<SzMsg("Peer", 1, Peer_Size)>>
TransferLeaderRequest_Unmarshal == <<TakeMsg("Peer", 1, Peer_Unmarshal)>>

TransferLeaderResponse_MarshalTo == <<>>
TransferLeaderResponse_Size == <<>>
TransferLeaderResponse_Unmarshal == <<>>

RaftLogGCRequest_MarshalTo == <<Put("CompactIndex", 1, V), Put("CompactTerm", 2, V)>>
RaftLogGCRequest_Size == <<Sz("CompactIndex", 1, V), Sz("CompactTerm", 1, V)>>
RaftLogGCRequest_Unmarshal == <<Take("CompactIndex", 1, V), Take("CompactTerm", 2, V)>>

RaftLogGCResponse_MarshalTo == <<>>
RaftLogGCResponse_Size == <<>>
RaftLogGCResponse_Unmarshal == <<>>

FVPair_MarshalTo == <<PutSome("Field", 1, B), PutSome("Value", 2, B)>>
FVPair_Size == <<SzSome("Field", 1, B), SzSome("Value", 1, B)>>
FVPair_Unmarshal == <<TakeSome("Field", 1, B), TakeSome("Value", 2, B)>>

ScorePair_MarshalTo == <<Put("Score", 1, F), PutSome("Member", 2, B)>>
ScorePair_Size == <<Sz("Score", 1, F), SzSome("Member", 1, B)>>
ScorePair_Unmarshal == <<Take("Score", 1, F), TakeSome("Member", 2, B)>>

Request_MarshalTo ==
  <<PutSome("UUID", 1, B), Put("Type", 2, V), PutEach("Cmd", 3, B), Put("Epoch", 4, V),
   Put("StartAt", 5, V), Put("LastStageAt", 6, V), Put("SessionID", 7, V)>>
Request_Size ==
  <<SzSome("UUID", 1, B), Sz("Type", 1, V), SzEach("Cmd", 1, B), Sz("Epoch", 1, V),
   Sz("StartAt", 1, V), Sz("LastStageAt", 1, V), Sz("SessionID", 1, V)>>
Request_Unmarshal ==
  <<TakeSome("UUID", 1, B), Take("Type", 2, V), TakeEach("Cmd", 3, B), Take("Epoch", 4, V),
   Take("StartAt", 5, V), Take("LastStageAt", 6, V), Take("SessionID", 7, V)>>

RaftCMDRequest_MarshalTo ==
  <<PutSomeMsg("Header", 1, RaftRequestHeader_MarshalTo),
   PutEachMsg("Requests", 2, Request_MarshalTo),
   PutSomeMsg("AdminRequest", 3, AdminRequest_MarshalTo)>>
RaftCMDRequest_Size ==
  <<SzSomeMsg("Header", 1, RaftRequestHeader_Size), SzEachMsg("Requests", 1, Request_Size),
   SzSomeMsg("AdminRequest", 1, AdminRequest_Size)>>
RaftCMDRequest_Unmarshal ==
  <<TakeSomeMsg("Header", 1, RaftRequestHeader_Unmarshal),
   TakeEachMsg("Requests", 2, Request_Unmarshal),
   TakeSomeMsg("AdminRequest", 3, AdminRequest_Unmarshal)>>

Response_MarshalTo ==
  <<PutSome("UUID", 1, B), Put("Type", 2, V), PutSome("ErrorResult", 3, B),
   PutEach("ErrorResults", 4, B), PutSome("StatusResult", 5, B),
   PutSome("IntegerResult", 6, V), PutSome("BulkResult", 7, B),
   PutSome("HasEmptyBulkResult", 8, V), PutEach("SliceArrayResult", 9, B),
   PutSome("HasEmptySliceArrayResult", 10, V),
   PutEachMsg("FvPairArrayResult", 11, FVPair_MarshalTo),
   PutSome("HasEmptyFVPairArrayResult", 12, V),
   PutEachMsg("ScorePairArrayResult", 13, ScorePair_MarshalTo),
   PutSome("HasEmptyScorePairArrayResult", 14, V), PutSome("Withscores", 15, V),
   PutSomeMsg("OriginRequest", 16, Request_MarshalTo), Put("SessionID", 17, V),
   PutEachMsg("DocArrayResult", 18, Document_MarshalTo),
   PutSome("HasEmptyDocArrayResult", 19, V), PutMsg("Error", 20, Error_MarshalTo)>>
Response_Size ==
  <<SzSome("UUID", 1, B), Sz("Type", 1, V), SzSome("ErrorResult", 1, B),
   SzEach("ErrorResults", 1, B), SzSome("StatusResult", 1, B), SzSome("IntegerResult", 1, V),
   SzSome("BulkResult", 1, B), SzSome("HasEmptyBulkResult", 1, V),
   SzEach("SliceArrayResult", 1, B), SzSome("HasEmptySliceArrayResult", 1, V),
   SzEachMsg("FvPairArrayResult", 1, FVPair_Size), SzSome("HasEmptyFVPairArrayResult", 1, V),
   SzEachMsg("ScorePairArrayResult", 1, ScorePair_Size),
   SzSome("HasEmptyScorePairArrayResult", 1, V), SzSome("Withscores", 1, V),
   SzSomeMsg("OriginRequest", 2, Request_Size), Sz("SessionID", 2, V),
   SzEachMsg("DocArrayResult", 2, Document_Size), SzSome("HasEmptyDocArrayResult", 2, V),
   SzMsg("Error", 2, Error_Size)>>
Response_Unmarshal ==
  <<TakeSome("UUID", 1, B), Take("Type", 2, V), TakeSome("ErrorResult", 3, B),
   TakeEach("ErrorResults", 4, B), TakeSome("StatusResult", 5, B),
   TakeSome("IntegerResult", 6, V), TakeSome("BulkResult", 7, B),
   TakeSome("HasEmptyBulkResult", 8, V), TakeEach("SliceArrayResult", 9, B),
   TakeSome("HasEmptySliceArrayResult", 10, V),
   TakeEachMsg("FvPairArrayResult", 11, FVPair_Unmarshal),
   TakeSome("HasEmptyFVPairArrayResult", 12, V),
   TakeEachMsg("ScorePairArrayResult", 13, ScorePair_Unmarshal),
   TakeSome("HasEmptyScorePairArrayResult", 14, V), TakeSome("Withscores", 15, V),
   TakeSomeMsg("OriginRequest", 16, Request_Unmarshal), Take("SessionID", 17, V),
   TakeEachMsg("DocArrayResult", 18, Document_Unmarshal),
   TakeSome("HasEmptyDocArrayResult", 19, V), TakeMsg("Error", 20, Error_Unmarshal)>>

RaftCMDResponse_MarshalTo ==
  <<PutSomeMsg("Header", 1, RaftResponseHeader_MarshalTo),
   PutEachMsg("Responses", 2, Response_MarshalTo),
   PutSomeMsg("AdminResponse", 3, AdminResponse_MarshalTo)>>
RaftCMDResponse_Size ==
  <<SzSomeMsg("Header", 1, RaftResponseHeader_Size), SzEachMsg("Responses", 1, Response_Size),
   SzSomeMsg("AdminResponse", 1, AdminResponse_Size)>>
RaftCMDResponse_Unmarshal ==
  <<TakeSomeMsg("Header", 1, RaftResponseHeader_Unmarshal),
   TakeEachMsg("Responses", 2, Response_Unmarshal),
   TakeSomeMsg("AdminResponse", 3, AdminResponse_Unmarshal)>>

=============================================================================
