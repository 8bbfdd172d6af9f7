-------------------------------- MODULE Mraft -------------------------------
(***************************************************************************)
(* The codecs of pkg/pb/mraft: messages between stores and the state they persist. *)
(* For each message what its MarshalTo writes, what its Size counts and what *)
(* its Unmarshal does with each field number, row by row (see WireFormat). *)
(***************************************************************************)
EXTENDS WireFormat, Metapb

\* raftpb (etcd) is external: the fields the store looks at.
RaftpbHardState_MarshalTo ==
  <<Put("Term", 1, V), Put("Vote", 2, V), Put("Commit", 3, V)>>
RaftpbHardState_Size ==
  <<Sz("Term", 1, V), Sz("Vote", 1, V), Sz("Commit", 1, V)>>
RaftpbHardState_Unmarshal ==
  <<Take("Term", 1, V), Take("Vote", 2, V), Take("Commit", 3, V)>>

RaftpbMessage_MarshalTo ==
  <<Put("Type", 1, V), Put("To", 2, V), PutEach("Entries", 7, B), PutSome("Context", 12, B)>>
RaftpbMessage_Size ==
  <<Sz("Type", 1, V), Sz("To", 1, V), SzEach("Entries", 1, B), SzSome("Context", 1, B)>>
RaftpbMessage_Unmarshal ==
  <<Take("Type", 1, V), Take("To", 2, V), TakeEach("Entries", 7, B), TakeSome("Context", 12, B)>>

RaftMessage_MarshalTo ==
  <<Put("CellID", 1, V), PutMsg("FromPeer", 2, Peer_MarshalTo),
   PutMsg("ToPeer", 3, Peer_MarshalTo), PutMsg("Message", 4, RaftpbMessage_MarshalTo),
   PutMsg("CellEpoch", 5, CellEpoch_MarshalTo), Put("IsTombstone", 6, V),
   PutSome("Start", 7, B), PutSome("End", 8, B)>>
RaftMessage_Size ==
  <<Sz("CellID", 1, V), SzMsg("FromPeer", 1, Peer_Size), SzMsg("ToPeer", 1, Peer_Size),
   SzMsg("Message", 1, RaftpbMessage_Size), SzMsg("CellEpoch", 1, CellEpoch_Size),
   Sz("IsTombstone", 1, V), SzSome("Start", 1, B), SzSome("End", 1, B)>>
RaftMessage_Unmarshal ==
  <<Take("CellID", 1, V), TakeMsg("FromPeer", 2, Peer_Unmarshal),
   TakeMsg("ToPeer", 3, Peer_Unmarshal), TakeMsg("Message", 4, RaftpbMessage_Unmarshal),
   TakeMsg("CellEpoch", 5, CellEpoch_Unmarshal), Take("IsTombstone", 6, V),
   TakeSome("Start", 7, B), TakeSome("End", 8, B)>>

StoreIdent_MarshalTo == <<Put("ClusterID", 1, V), Put("StoreID", 2, V)>>
StoreIdent_Size == <<Sz("ClusterID", 1, V), Sz("StoreID", 1, V)>>
StoreIdent_Unmarshal == <<Take("ClusterID", 1, V), Take("StoreID", 2, V)>>

ACKMessage_MarshalTo == <<Put("Seq", 1, V), Put("To", 2, V)>>
ACKMessage_Size == <<Sz("Seq", 1, V), Sz("To", 1, V)>>
ACKMessage_Unmarshal == <<Take("Seq", 1, V), Take("To", 2, V)>>

SnapshotMessageHeader_MarshalTo ==
  <<PutMsg("Cell", 1, Cell_MarshalTo), PutMsg("FromPeer", 2, Peer_MarshalTo),
   PutMsg("ToPeer", 3, Peer_MarshalTo), Put("Term", 4, V), Put("Index", 5, V),
   Put("Seq", 6, V)>>
SnapshotMessageHeader_Size ==
  <<SzMsg("Cell", 1, Cell_Size), SzMsg("FromPeer", 1, Peer_Size),
   SzMsg("ToPeer", 1, Peer_Size), Sz("Term", 1, V), Sz("Index", 1, V), Sz("Seq", 1, V)>>
SnapshotMessageHeader_Unmarshal ==
  <<TakeMsg("Cell", 1, Cell_Unmarshal), TakeMsg("FromPeer", 2, Peer_Unmarshal),
   TakeMsg("ToPeer", 3, Peer_Unmarshal), Take("Term", 4, V), Take("Index", 5, V),
   Take("Seq", 6, V)>>

SnapshotChunkMessage_MarshalTo ==
  <<PutSome("Data", 1, B), Put("First", 2, V), Put("Last", 3, V), Put("FileSize", 4, V),
   Put("CheckSum", 5, V)>>
SnapshotChunkMessage_Size ==
  <<SzSome("Data", 1, B), Sz("First", 1, V), Sz("Last", 1, V), Sz("FileSize", 1, V),
   Sz("CheckSum", 1, V)>>
SnapshotChunkMessage_Unmarshal ==
  <<TakeSome("Data", 1, B), Take("First", 2, V), Take("Last", 3, V), Take("FileSize", 4, V),
   Take("CheckSum", 5, V)>>

SnapshotAckMessage_MarshalTo == <<Put("Ack", 1, V)>>
SnapshotAckMessage_Size == <<Sz("Ack", 1, V)>>
SnapshotAckMessage_Unmarshal == <<Take("Ack", 1, V)>>

SnapshotAskMessage_MarshalTo == <<>>
SnapshotAskMessage_Size == <<>>
SnapshotAskMessage_Unmarshal == <<>>

SnapshotMessage_MarshalTo ==
  <<PutMsg("Header", 1, SnapshotMessageHeader_MarshalTo),
   PutSomeMsg("Chunk", 2, SnapshotChunkMessage_MarshalTo),
   PutSomeMsg("Ack", 3, SnapshotAckMessage_MarshalTo),
   PutSomeMsg("Ask", 4, SnapshotAskMessage_MarshalTo)>>
SnapshotMessage_Size ==
  <<SzMsg("Header", 1, SnapshotMessageHeader_Size),
   SzSomeMsg("Chunk", 1, SnapshotChunkMessage_Size),
   SzSomeMsg("Ack", 1, SnapshotAckMessage_Size), SzSomeMsg("Ask", 1, SnapshotAskMessage_Size)>>
SnapshotMessage_Unmarshal ==
  <<TakeMsg("Header", 1, SnapshotMessageHeader_Unmarshal),
   TakeSomeMsg("Chunk", 2, SnapshotChunkMessage_Unmarshal),
   TakeSomeMsg("Ack", 3, SnapshotAckMessage_Unmarshal),
   TakeSomeMsg("Ask", 4, SnapshotAskMessage_Unmarshal)>>

CellLocalState_MarshalTo == <<Put("State", 1, V), PutMsg("Cell", 2, Cell_MarshalTo)>>
CellLocalState_Size == <<Sz("State", 1, V), SzMsg("Cell", 1, Cell_Size)>>
CellLocalState_Unmarshal == <<Take("State", 1, V), TakeMsg("Cell", 2, Cell_Unmarshal)>>

RaftLocalState_MarshalTo ==
  <<PutMsg("HardState", 1, RaftpbHardState_MarshalTo), Put("LastIndex", 2, V)>>
RaftLocalState_Size == <<SzMsg("HardState", 1, RaftpbHardState_Size), Sz("LastIndex", 1, V)>>
RaftLocalState_Unmarshal ==
  <<TakeMsg("HardState", 1, RaftpbHardState_Unmarshal), Take("LastIndex", 2, V)>>

RaftTruncatedState_MarshalTo == <<Put("Index", 1, V), Put("Term", 2, V)>>
RaftTruncatedState_Size == <<Sz("Index", 1, V), Sz("Term", 1, V)>>
RaftTruncatedState_Unmarshal == <<Take("Index", 1, V), Take("Term", 2, V)>>

RaftApplyState_MarshalTo ==
  <<Put("AppliedIndex", 1, V), PutMsg("TruncatedState", 2, RaftTruncatedState_MarshalTo)>>
RaftApplyState_Size ==
  <<Sz("AppliedIndex", 1, V), SzMsg("TruncatedState", 1, RaftTruncatedState_Size)>>
RaftApplyState_Unmarshal ==
  <<Take("AppliedIndex", 1, V), TakeMsg("TruncatedState", 2, RaftTruncatedState_Unmarshal)>>

=============================================================================
