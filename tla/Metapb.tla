------------------------------- MODULE Metapb -------------------------------
(***************************************************************************)
(* The codecs of pkg/pb/metapb: cells, peers and stores.                   *)
(* For each message what its MarshalTo writes, what its Size counts and what *)
(* its Unmarshal does with each field number, row by row (see WireFormat). *)
(***************************************************************************)
EXTENDS WireFormat

Label_MarshalTo == <<Put("Key", 1, B), Put("Value", 2, B)>>
Label_Size == <<Sz("Key", 1, B), Sz("Value", 1, B)>>
Label_Unmarshal == <<Take("Key", 1, B), Take("Value", 2, B)>>

Cluster_MarshalTo == <<Put("ID", 1, V), Put("MaxReplicas", 2, V)>>
Cluster_Size == <<Sz("ID", 1, V), Sz("MaxReplicas", 1, V)>>
Cluster_Unmarshal == <<Take("ID", 1, V), Take("MaxReplicas", 2, V)>>

Peer_MarshalTo == <<Put("ID", 1, V), Put("StoreID", 2, V)>>
Peer_Size == <<Sz("ID", 1, V), Sz("StoreID", 1, V)>>
Peer_Unmarshal == <<Take("ID", 1, V), Take("StoreID", 2, V)>>

CellEpoch_MarshalTo == <<Put("ConfVer", 1, V), Put("CellVer", 2, V)>>
CellEpoch_Size == <<Sz("ConfVer", 1, V), Sz("CellVer", 1, V)>>
CellEpoch_Unmarshal == <<Take("ConfVer", 1, V), Take("CellVer", 2, V)>>

Cell_MarshalTo ==
  <<Put("ID", 1, V), PutSome("Start", 2, B), PutSome("End", 3, B),
   PutMsg("Epoch", 4, CellEpoch_MarshalTo), PutEachMsg("Peers", 5, Peer_MarshalTo)>>
Cell_Size ==
  <<Sz("ID", 1, V), SzSome("Start", 1, B), SzSome("End", 1, B),
   SzMsg("Epoch", 1, CellEpoch_Size), SzEachMsg("Peers", 1, Peer_Size)>>
Cell_Unmarshal ==
  <<Take("ID", 1, V), TakeSome("Start", 2, B), TakeSome("End", 3, B),
   TakeMsg("Epoch", 4, CellEpoch_Unmarshal), TakeEachMsg("Peers", 5, Peer_Unmarshal)>>

Store_MarshalTo ==
  <<Put("ID", 1, V), Put("Address", 2, B), PutEachMsg("Lables", 3, Label_MarshalTo),
   Put("State", 4, V), Put("ClientAddress", 5, B)>>
Store_Size ==
  <<Sz("ID", 1, V), Sz("Address", 1, B), SzEachMsg("Lables", 1, Label_Size), Sz("State", 1, V),
   Sz("ClientAddress", 1, B)>>
Store_Unmarshal ==
  <<Take("ID", 1, V), Take("Address", 2, B), TakeEachMsg("Lables", 3, Label_Unmarshal),
   Take("State", 4, V), Take("ClientAddress", 5, B)>>

=============================================================================
