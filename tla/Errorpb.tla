------------------------------- MODULE Errorpb ------------------------------
(***************************************************************************)
(* The codecs of pkg/pb/errorpb: errors a store answers with.              *)
(* For each message what its MarshalTo writes, what its Size counts and what *)
(* its Unmarshal does with each field number, row by row (see WireFormat). *)
(***************************************************************************)
EXTENDS WireFormat, Metapb

NotLeader_MarshalTo == <<Put("CellID", 1, V), PutMsg("Leader", 2, Peer_MarshalTo)>>
NotLeader_Size == <<Sz("CellID", 1, V), SzMsg("Leader", 1, Peer_Size)>>
NotLeader_Unmarshal == <<Take("CellID", 1, V), TakeMsg("Leader", 2, Peer_Unmarshal)>>

StoreNotMatch_MarshalTo == <<>>
StoreNotMatch_Size == <<>>
StoreNotMatch_Unmarshal == <<>>

CellNotFound_MarshalTo == <<Put("CellID", 1, V)>>
CellNotFound_Size == <<Sz("CellID", 1, V)>>
CellNotFound_Unmarshal == <<Take("CellID", 1, V)>>

KeyNotInCell_MarshalTo ==
  <<PutSome("Key", 1, B), Put("CellID", 2, V), PutSome("StartKey", 3, B),
   PutSome("EndKey", 4, B)>>
KeyNotInCell_Size ==
  <<SzSome("Key", 1, B), Sz("CellID", 1, V), SzSome("StartKey", 1, B), SzSome("EndKey", 1, B)>>
KeyNotInCell_Unmarshal ==
  <<TakeSome("Key", 1, B), Take("CellID", 2, V), TakeSome("StartKey", 3, B),
   TakeSome("EndKey", 4, B)>>

StaleEpoch_MarshalTo == <<PutEachMsg("NewCells", 1, Cell_MarshalTo)>>
StaleEpoch_Size == <<SzEachMsg("NewCells", 1, Cell_Size)>>
StaleEpoch_Unmarshal == <<TakeEachMsg("NewCells", 1, Cell_Unmarshal)>>

ServerIsBusy_MarshalTo == <<>>
ServerIsBusy_Size == <<>>
ServerIsBusy_Unmarshal == <<>>

StaleCommand_MarshalTo == <<>>
StaleCommand_Size == <<>>
StaleCommand_Unmarshal == <<>>

RaftEntryTooLarge_MarshalTo == <<Put("CellID", 1, V), Put("EntrySize", 2, V)>>
RaftEntryTooLarge_Size == <<Sz("CellID", 1, V), Sz("EntrySize", 1, V)>>
RaftEntryTooLarge_Unmarshal == <<Take("CellID", 1, V), Take("EntrySize", 2, V)>>

Error_MarshalTo ==
  <<Put("Message", 1, B), PutSomeMsg("NotLeader", 2, NotLeader_MarshalTo),
   PutSomeMsg("CellNotFound", 3, CellNotFound_MarshalTo),
   PutSomeMsg("KeyNotInCell", 4, KeyNotInCell_MarshalTo),
   PutSomeMsg("StaleEpoch", 5, StaleEpoch_MarshalTo),
   PutSomeMsg("ServerIsBusy", 6, ServerIsBusy_MarshalTo),
   PutSomeMsg("StaleCommand", 7, StaleCommand_MarshalTo),
   PutSomeMsg("StoreNotMatch", 8, StoreNotMatch_MarshalTo),
   PutSomeMsg("RaftEntryTooLarge", 9, RaftEntryTooLarge_MarshalTo)>>
Error_Size ==
  <<Sz("Message", 1, B), SzSomeMsg("NotLeader", 1, NotLeader_Size),
   SzSomeMsg("CellNotFound", 1, CellNotFound_Size),
   SzSomeMsg("KeyNotInCell", 1, KeyNotInCell_Size),
   SzSomeMsg("StaleEpoch", 1, StaleEpoch_Size),
   SzSomeMsg("ServerIsBusy", 1, ServerIsBusy_Size),
   SzSomeMsg("StaleCommand", 1, StaleCommand_Size),
   SzSomeMsg("StoreNotMatch", 1, StoreNotMatch_Size),
   SzSomeMsg("RaftEntryTooLarge", 1, RaftEntryTooLarge_Size)>>
Error_Unmarshal ==
  <<Take("Message", 1, B), TakeSomeMsg("NotLeader", 2, NotLeader_Unmarshal),
   TakeSomeMsg("CellNotFound", 3, CellNotFound_Unmarshal),
   TakeSomeMsg("KeyNotInCell", 4, KeyNotInCell_Unmarshal),
   TakeSomeMsg("StaleEpoch", 5, StaleEpoch_Unmarshal),
   TakeSomeMsg("ServerIsBusy", 6, ServerIsBusy_Unmarshal),
   TakeSomeMsg("StaleCommand", 7, StaleCommand_Unmarshal),
   TakeSomeMsg("StoreNotMatch", 8, StoreNotMatch_Unmarshal),
   TakeSomeMsg("RaftEntryTooLarge", 9, RaftEntryTooLarge_Unmarshal)>>

=============================================================================
