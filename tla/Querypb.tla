------------------------------- MODULE Querypb ------------------------------
(***************************************************************************)
(* The codecs of pkg/pb/querypb: index queries.                            *)
(* For each message what its MarshalTo writes, what its Size counts and what *)
(* its Unmarshal does with each field number, row by row (see WireFormat). *)
(***************************************************************************)
EXTENDS WireFormat, Errorpb

UintPred_MarshalTo == <<Put("Name", 1, B), Put("Low", 2, V), Put("High", 3, V)>>
UintPred_Size == <<Sz("Name", 1, B), Sz("Low", 1, V), Sz("High", 1, V)>>
UintPred_Unmarshal == <<Take("Name", 1, B), Take("Low", 2, V), Take("High", 3, V)>>

StrPred_MarshalTo == <<Put("Name", 1, B), Put("ContWord", 2, B)>>
StrPred_Size == <<Sz("Name", 1, B), Sz("ContWord", 1, B)>>
StrPred_Unmarshal == <<Take("Name", 1, B), Take("ContWord", 2, B)>>

QueryReq_MarshalTo ==
  <<PutSome("UUID", 1, B), Put("SessionID", 2, V), Put("ToStore", 3, V),
   Put("FromStore", 4, V), PutEach("Cells", 5, V), Put("Index", 6, B),
   PutEachMsg("UintPreds", 7, UintPred_MarshalTo),
   PutEachMsg("StrPreds", 8, StrPred_MarshalTo), Put("Limit", 9, V), Put("OrderBy", 10, B)>>
QueryReq_Size ==
  <<SzSome("UUID", 1, B), Sz("SessionID", 1, V), Sz("ToStore", 1, V), Sz("FromStore", 1, V),
   SzEach("Cells", 1, V), Sz("Index", 1, B), SzEachMsg("UintPreds", 1, UintPred_Size),
   SzEachMsg("StrPreds", 1, StrPred_Size), Sz("Limit", 1, V), Sz("OrderBy", 1, B)>>
QueryReq_Unmarshal ==
  <<TakeSome("UUID", 1, B), Take("SessionID", 2, V), Take("ToStore", 3, V),
   Take("FromStore", 4, V), TakeEach("Cells", 5, V), Take("Index", 6, B),
   TakeEachMsg("UintPreds", 7, UintPred_Unmarshal),
   TakeEachMsg("StrPreds", 8, StrPred_Unmarshal), Take("Limit", 9, V), Take("OrderBy", 10, B)>>

Document_MarshalTo == <<PutEach("Order", 1, V), PutSome("Key", 2, B), PutEach("FvPairs", 3, B)>>
Document_Size == <<SzEach("Order", 1, V), SzSome("Key", 1, B), SzEach("FvPairs", 1, B)>>
Document_Unmarshal ==
  <<TakeEach("Order", 1, V), TakeSome("Key", 2, B), TakeEach("FvPairs", 3, B)>>

QueryRsp_MarshalTo ==
  <<PutSome("UUID", 1, B), Put("ToStore", 2, V), Put("FromStore", 3, V),
   PutEach("Cells", 4, V), PutSomeMsg("Error", 5, Error_MarshalTo),
   PutEachMsg("Docs", 6, Document_MarshalTo)>>
QueryRsp_Size ==
  <<SzSome("UUID", 1, B), Sz("ToStore", 1, V), Sz("FromStore", 1, V), SzEach("Cells", 1, V),
   SzSomeMsg("Error", 1, Error_Size), SzEachMsg("Docs", 1, Document_Size)>>
QueryRsp_Unmarshal ==
  <<TakeSome("UUID", 1, B), Take("ToStore", 2, V), Take("FromStore", 3, V),
   TakeEach("Cells", 4, V), TakeSomeMsg("Error", 5, Error_Unmarshal),
   TakeEachMsg("Docs", 6, Document_Unmarshal)>>

=============================================================================
