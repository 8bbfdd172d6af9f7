---------------------------- MODULE RedisCommands ---------------------------
(***************************************************************************)
(* The redis commands: the argument checks of the server (pkg/server), the *)
(* executors of the store (pkg/raftstore/redis_*.go) and the reply that a  *)
(* session writes for a response (doResp).                                 *)
(*                                                                         *)
(* A command is its type and its number of arguments.  An executor is the  *)
(* set of responses it may return for that many arguments: what is stored  *)
(* is left to the engine, and a value is nil, empty or something.          *)
(***************************************************************************)
EXTENDS Integers, Sequences, SequencesExt

ArgCounts == 0..5

\* Contents of a byte slice and of a slice of slices.
Bulks  == {<<>>, <<0>>, <<1>>}
Slices == {<<>>, <<1>>}

\* Error texts.
Invalid    == 1            \* redis.ErrInvalidCommandResp
NotSupport == 2            \* redis.ErrNotSupportCommand
Parse      == 3            \* util.StrInt64, util.StrFloat64
Engine     == 4            \* the storage engine
Raft       == 5            \* a marshalled RaftResponseHeader
NoCell     == 6            \* Store.OnRedisCommand found no cell

True  == 1
False == 0

-----------------------------------------------------------------------------
(* Responses. *)

\* raftcmdpb.Response; a field is empty or holds one value.
NoResult ==
  [f \in {"UUID", "Type", "Error", "SessionID", "ErrorResult", "ErrorResults", "BulkResult",
          "HasEmptyBulkResult", "FvPairArrayResult", "HasEmptyFVPairArrayResult",
          "IntegerResult", "ScorePairArrayResult", "HasEmptyScorePairArrayResult",
          "Withscores", "SliceArrayResult", "HasEmptySliceArrayResult", "StatusResult",
          "OriginRequest", "DocArrayResult", "HasEmptyDocArrayResult"} |-> <<>>]
With(fields) == [f \in DOMAIN NoResult |->
                   IF f \in DOMAIN fields THEN fields[f] ELSE NoResult[f]]

Err(e)     == With([ErrorResult |-> <<e>>])
Status     == With([StatusResult |-> <<1>>])
Locked     == With([StatusResult |-> <<2>>])
Integer    == With([IntegerResult |-> <<1>>])
Bulk(v)    == With([BulkResult |-> v])
BulkOrEmpty(v) == With([BulkResult |-> v, HasEmptyBulkResult |-> <<True>>])
SliceArray(v)  == With([SliceArrayResult |-> v, HasEmptySliceArrayResult |-> <<True>>])
FVPairs(v) == With([FvPairArrayResult |-> v,
                    HasEmptyFVPairArrayResult |-> <<True>>])
ScorePairsOnly(v) == With([ScorePairArrayResult |-> v,
                           HasEmptyScorePairArrayResult |-> <<True>>])
ScorePairs(v, withScores) ==
  LET flag == IF withScores THEN <<True>> ELSE <<False>>
  IN  With([ScorePairArrayResult |-> v,
            HasEmptyScorePairArrayResult |-> flag, Withscores |-> flag])
Errors == With([ErrorResults |-> <<Engine, Engine>>])

\* An executor: the argument check, the errors it may meet, its results.
Exec(ok, errs, results) ==
  IF ok THEN {Err(e) : e \in errs} \cup results ELSE {Err(Invalid)}

-----------------------------------------------------------------------------
\* raftstore/redis_kv.go: Key-value commands.
execKVSet[n \in ArgCounts] == Exec(n = 2, {}, {Status})
execKVGet[n \in ArgCounts] == Exec(n = 1, {Engine}, {Bulk(v) : v \in Bulks})
execKVStrLen[n \in ArgCounts] == Exec(n = 1, {Engine}, {Integer})
execKVIncrBy[n \in ArgCounts] == Exec(n = 2, {Parse, Engine}, {Integer})
execKVIncr[n \in ArgCounts] == Exec(n = 1, {Engine}, {Integer})
execKVDecrby[n \in ArgCounts] == Exec(n = 2, {Parse, Engine}, {Integer})
execKVDecr[n \in ArgCounts] == Exec(n = 1, {Engine}, {Integer})
execKVGetSet[n \in ArgCounts] == Exec(n = 2, {Engine}, {Bulk(v) : v \in Bulks})
execKVAppend[n \in ArgCounts] == Exec(n = 2, {Engine}, {Integer})
execKVSetNX[n \in ArgCounts] == Exec(n = 2, {Engine}, {Integer})

\* raftstore/redis_hash.go: Hashes.
execHSet[n \in ArgCounts] == Exec(n = 3, {Engine}, {Integer})
execHDel[n \in ArgCounts] == Exec(n >= 2, {Engine}, {Integer})
execHMSet[n \in ArgCounts] == Exec(n >= 3 /\ n % 2 = 1, {Engine}, {Status})
execHSetNX[n \in ArgCounts] == Exec(n = 3, {Engine}, {Integer})
execHIncrBy[n \in ArgCounts] == Exec(n = 3, {Parse, Engine}, {Integer})
execHGet[n \in ArgCounts] == Exec(n = 2, {Engine}, {BulkOrEmpty(v) : v \in Bulks})
execHExists[n \in ArgCounts] == Exec(n = 2, {Engine}, {Integer})
execHKeys[n \in ArgCounts] == Exec(n = 1, {Engine}, {SliceArray(v) : v \in Slices})
execHVals[n \in ArgCounts] == Exec(n = 1, {Engine}, {SliceArray(v) : v \in Slices})
execHGetAll[n \in ArgCounts] == Exec(n = 1, {Engine}, {FVPairs(v) : v \in Slices})
execHScanGet[n \in ArgCounts] == Exec(n = 3, {Parse, Engine}, {FVPairs(v) : v \in Slices})
execHLen[n \in ArgCounts] == Exec(n = 1, {Engine}, {Integer})
execHMGet[n \in ArgCounts] == Exec(n >= 2, {}, {Errors} \cup {SliceArray(v) : v \in Slices})
execHStrLen[n \in ArgCounts] == Exec(n = 2, {Engine}, {Integer})

\* raftstore/redis_list.go: Lists.
execLIndex[n \in ArgCounts] == Exec(n = 2, {Parse, Engine}, {BulkOrEmpty(v) : v \in Bulks})
execLLEN[n \in ArgCounts] == Exec(n = 1, {Engine}, {Integer})
execLRange[n \in ArgCounts] == Exec(n = 3, {Parse, Engine}, {SliceArray(v) : v \in Slices})
execLInsert[n \in ArgCounts] == Exec(n = 4, {Parse, Engine}, {Integer})
execLPop[n \in ArgCounts] == Exec(n = 1, {Engine}, {BulkOrEmpty(v) : v \in Bulks})
execLPush[n \in ArgCounts] == Exec(n >= 2, {Engine}, {Integer})
execLPushX[n \in ArgCounts] == Exec(n = 2, {Engine}, {Integer})
execLRem[n \in ArgCounts] == Exec(n = 3, {Parse, Engine}, {Integer})
execLSet[n \in ArgCounts] == Exec(n = 3, {Parse, Engine}, {Status})
execLTrim[n \in ArgCounts] == Exec(n = 3, {Parse, Engine}, {Status})
execRPop[n \in ArgCounts] == Exec(n = 1, {Engine}, {BulkOrEmpty(v) : v \in Bulks})
execRPush[n \in ArgCounts] == Exec(n >= 2, {Engine}, {Integer})
execRPushX[n \in ArgCounts] == Exec(n = 2, {Engine}, {Integer})

\* raftstore/redis_set.go: Sets.
execSAdd[n \in ArgCounts] == Exec(n >= 2, {Engine}, {Integer})
execSRem[n \in ArgCounts] == Exec(n >= 2, {Engine}, {Integer})
execSCard[n \in ArgCounts] == Exec(n = 1, {Engine}, {Integer})
execSMembers[n \in ArgCounts] == Exec(n = 1, {Engine}, {SliceArray(v) : v \in Slices})
execSIsMember[n \in ArgCounts] == Exec(n = 2, {Engine}, {Integer})
execSPop[n \in ArgCounts] == Exec(n = 1, {Engine}, {BulkOrEmpty(v) : v \in Bulks})

\* raftstore/redis_zset.go: Sorted sets.
execZAdd[n \in ArgCounts] == Exec(n = 3, {Parse, Engine}, {Integer})
execZCard[n \in ArgCounts] == Exec(n = 1, {Engine}, {Integer})
execZCount[n \in ArgCounts] == Exec(n = 3, {Engine}, {Integer})
execZIncrBy[n \in ArgCounts] == Exec(n = 3, {Parse, Engine}, {BulkOrEmpty(v) : v \in Bulks})
execZLexCount[n \in ArgCounts] == Exec(n = 3, {Engine}, {Integer})
execZRange[n \in ArgCounts] == Exec(n >= 3, {Parse, Engine}, {ScorePairs(v, n = 4) : v \in Slices})
execZRangeByLex[n \in ArgCounts] == Exec(n = 3, {Engine}, {SliceArray(v) : v \in Slices})
execZRangeByScore[n \in ArgCounts] == Exec(n >= 3, {Engine}, {ScorePairsOnly(v) : v \in Slices})
execZRank[n \in ArgCounts] == Exec(n = 2, {Engine}, {Integer, BulkOrEmpty(<<>>)})
execZRem[n \in ArgCounts] == Exec(n >= 2, {Engine}, {Integer})
execZRemRangeByLex[n \in ArgCounts] == Exec(n = 3, {Engine}, {Integer})
execZRemRangeByRank[n \in ArgCounts] == Exec(n = 3, {Parse, Engine}, {Integer})
execZRemRangeByScore[n \in ArgCounts] == Exec(n = 3, {Engine}, {Integer})
execZScore[n \in ArgCounts] == Exec(n = 2, {Engine}, {BulkOrEmpty(v) : v \in Bulks})

\* raftstore/redis_lock.go: Locks.
execLock[n \in ArgCounts] == Exec(n >= 3, {Engine}, {Status, Locked})
execLockable[n \in ArgCounts] == Exec(n >= 3, {Engine}, {Status, Locked})
execUnlock[n \in ArgCounts] == Exec(n >= 2, {Engine}, {Status})

\* Store.initRedisHandle.
redisWriteHandles == [
  Set |-> execKVSet, Incrby |-> execKVIncrBy, Incr |-> execKVIncr, Decrby |-> execKVDecrby,
  Decr |-> execKVDecr, GetSet |-> execKVGetSet, Append |-> execKVAppend,
  Setnx |-> execKVSetNX, HSet |-> execHSet, HDel |-> execHDel, HMSet |-> execHMSet,
  HSetNX |-> execHSetNX, HIncrBy |-> execHIncrBy, LInsert |-> execLInsert,
  LPop |-> execLPop, LPush |-> execLPush, LPushX |-> execLPushX, LRem |-> execLRem,
  LSet |-> execLSet, LTrim |-> execLTrim, RPop |-> execRPop, RPush |-> execRPush,
  RPushX |-> execRPushX, SAdd |-> execSAdd, SRem |-> execSRem, ZAdd |-> execZAdd,
  ZIncrBy |-> execZIncrBy, ZRem |-> execZRem, ZRemRangeByLex |-> execZRemRangeByLex,
  ZRemRangeByRank |-> execZRemRangeByRank, ZRemRangeByScore |-> execZRemRangeByScore,
  Lock |-> execLock, Unlock |-> execUnlock]

redisReadHandles == [
  Get |-> execKVGet, StrLen |-> execKVStrLen, HGet |-> execHGet, HExists |-> execHExists,
  HKeys |-> execHKeys, HVals |-> execHVals, HGetAll |-> execHGetAll,
  HScanGet |-> execHScanGet, HLen |-> execHLen, HMGet |-> execHMGet,
  HStrLen |-> execHStrLen, LIndex |-> execLIndex, LLEN |-> execLLEN, LRange |-> execLRange,
  SCard |-> execSCard, SIsMember |-> execSIsMember, SMembers |-> execSMembers,
  ZCard |-> execZCard, ZCount |-> execZCount, ZLexCount |-> execZLexCount,
  ZRange |-> execZRange, ZRangeByLex |-> execZRangeByLex,
  ZRangeByScore |-> execZRangeByScore, ZRank |-> execZRank, ZScore |-> execZScore,
  Lockable |-> execLockable]

-----------------------------------------------------------------------------
\* pkg/server: the number of arguments each command is accepted with.
onSet[n \in ArgCounts] == n = 2
onGet[n \in ArgCounts] == n = 1
onIncrBy[n \in ArgCounts] == n = 2
onIncr[n \in ArgCounts] == n = 1
onDecrby[n \in ArgCounts] == n = 2
onDecr[n \in ArgCounts] == n = 1
onGetSet[n \in ArgCounts] == n = 2
onAppend[n \in ArgCounts] == n = 2
onSetNX[n \in ArgCounts] == n = 2
onStrLen[n \in ArgCounts] == n = 1
onHSet[n \in ArgCounts] == n = 3
onHGet[n \in ArgCounts] == n = 2
onHDel[n \in ArgCounts] == n >= 2
onHExists[n \in ArgCounts] == n = 2
onHKeys[n \in ArgCounts] == n = 1
onHVals[n \in ArgCounts] == n = 1
onHGetAll[n \in ArgCounts] == n = 1
onHLen[n \in ArgCounts] == n = 1
onHMGet[n \in ArgCounts] == n >= 2
onHMSet[n \in ArgCounts] == n >= 3 /\ n % 2 = 1
onHSetNX[n \in ArgCounts] == n = 3
onHStrLen[n \in ArgCounts] == n = 2
onHIncrBy[n \in ArgCounts] == n = 3
onLIndex[n \in ArgCounts] == n = 2
onLInsert[n \in ArgCounts] == n = 4
onLLen[n \in ArgCounts] == n = 1
onLPop[n \in ArgCounts] == n = 1
onLPush[n \in ArgCounts] == n >= 2
onLPushX[n \in ArgCounts] == n = 2
onLRange[n \in ArgCounts] == n = 3
onLRem[n \in ArgCounts] == n = 3
onLSet[n \in ArgCounts] == n = 3
onLTrim[n \in ArgCounts] == n = 3
onRPop[n \in ArgCounts] == n = 1
onRPush[n \in ArgCounts] == n >= 2
onRPushX[n \in ArgCounts] == n = 2
onSAdd[n \in ArgCounts] == n >= 2
onSCard[n \in ArgCounts] == n = 1
onSRem[n \in ArgCounts] == n >= 2
onSMembers[n \in ArgCounts] == n = 1
onSIsMember[n \in ArgCounts] == n = 2
onSPop[n \in ArgCounts] == n = 1
onZAdd[n \in ArgCounts] == n = 3
onZCard[n \in ArgCounts] == n = 1
onZCount[n \in ArgCounts] == n = 3
onZIncrBy[n \in ArgCounts] == n = 3
onZLexCount[n \in ArgCounts] == n = 3
onZRange[n \in ArgCounts] == n >= 3
onZRangeByLex[n \in ArgCounts] == n = 3
onZRangeByScore[n \in ArgCounts] == n >= 3
onZRank[n \in ArgCounts] == n = 2
onZRem[n \in ArgCounts] == n >= 2
onZRemRangeByLex[n \in ArgCounts] == n = 3
onZRemRangeByRank[n \in ArgCounts] == n = 3
onZRemRangeByScore[n \in ArgCounts] == n = 3
onZScore[n \in ArgCounts] == n = 2
onLockable[n \in ArgCounts] == n >= 3
onLock[n \in ArgCounts] == n >= 3
onUnlock[n \in ArgCounts] == n >= 2
onDel[n \in ArgCounts] == n = 1

\* RedisServer.init.
handlers == [
  Del |-> onDel, Set |-> onSet, Get |-> onGet, Incrby |-> onIncrBy, Incr |-> onIncr,
  Decrby |-> onDecrby, Decr |-> onDecr, GetSet |-> onGetSet, Append |-> onAppend,
  Setnx |-> onSetNX, StrLen |-> onStrLen, HSet |-> onHSet, HDel |-> onHDel,
  HExists |-> onHExists, HGet |-> onHGet, HGetAll |-> onHGetAll, HIncrBy |-> onHIncrBy,
  HKeys |-> onHKeys, HLen |-> onHLen, HMGet |-> onHMGet, HMSet |-> onHMSet,
  HSetNX |-> onHSetNX, HStrLen |-> onHStrLen, HVals |-> onHVals, LIndex |-> onLIndex,
  LInsert |-> onLInsert, LLEN |-> onLLen, LPop |-> onLPop, LPush |-> onLPush,
  LPushX |-> onLPushX, LRange |-> onLRange, LRem |-> onLRem, LSet |-> onLSet,
  LTrim |-> onLTrim, RPop |-> onRPop, RPush |-> onRPush, RPushX |-> onRPushX,
  SAdd |-> onSAdd, SCard |-> onSCard, SRem |-> onSRem, SMembers |-> onSMembers,
  SIsMember |-> onSIsMember, SPop |-> onSPop, ZAdd |-> onZAdd, ZCard |-> onZCard,
  ZCount |-> onZCount, ZIncrBy |-> onZIncrBy, ZLexCount |-> onZLexCount,
  ZRange |-> onZRange, ZRangeByLex |-> onZRangeByLex, ZRangeByScore |-> onZRangeByScore,
  ZRank |-> onZRank, ZRem |-> onZRem, ZRemRangeByLex |-> onZRemRangeByLex,
  ZRemRangeByRank |-> onZRemRangeByRank, ZRemRangeByScore |-> onZRemRangeByScore,
  ZScore |-> onZScore, Lock |-> onLock, Unlock |-> onUnlock, Lockable |-> onLockable]

localHandlers == {"Ping"}

-----------------------------------------------------------------------------
(***************************************************************************)
(* session.doResp and redisSession.doResp: the RESP values written for a   *)
(* response, one for each result field that is set.  "panic" is the nil    *)
(* dereference of resp.Withscores.                                         *)
(***************************************************************************)
Value(kind, content) == <<[kind |-> kind, content |-> content]>>
If(cond, values) == IF cond THEN values ELSE <<>>

doResp(r) ==
     If(r.ErrorResult # <<>>, Value("error", r.ErrorResult))
  \o [i \in DOMAIN r.ErrorResults |-> Value("error", <<r.ErrorResults[i]>>)[1]]
  \o If(r.BulkResult # <<>> \/ r.HasEmptyBulkResult # <<>>, Value("bulk", r.BulkResult))
  \o If(r.FvPairArrayResult # <<>> \/ r.HasEmptyFVPairArrayResult # <<>>,
        Value("pairs", r.FvPairArrayResult))
  \o If(r.IntegerResult # <<>>, Value("integer", r.IntegerResult))
  \o If(r.ScorePairArrayResult # <<>> \/ r.HasEmptyScorePairArrayResult # <<>>,
        CASE r.Withscores = <<>>     -> Value("panic", <<>>)
          [] r.Withscores = <<True>> -> Value("pairs", r.ScorePairArrayResult)
          [] OTHER                   -> Value("members", r.ScorePairArrayResult))
  \o If(r.SliceArrayResult # <<>> \/ r.HasEmptySliceArrayResult # <<>>,
        Value("array", r.SliceArrayResult))
  \o If(r.StatusResult # <<>>, Value("status", r.StatusResult))
  \o If(r.DocArrayResult # <<>> \/ r.HasEmptyDocArrayResult # <<>>,
        Value("documents", r.DocArrayResult))
=============================================================================
