-------------------------------- MODULE Links -------------------------------
(***************************************************************************)
(* One direction of a connection between two processes: the sender fills a *)
(* message object, often one taken from a sync.Pool, and queues it; a      *)
(* writer encodes it into a frame and gives the object back; the bytes     *)
(* arrive piecewise; the decoder of the other side waits for a whole frame *)
(* and decodes it, again often into a pooled object.                       *)
(*                                                                         *)
(* raftstore/codec.go frames what stores send each other, codec/proxy.go   *)
(* and redis/parser.go what proxies, stores and PD send each other.  All   *)
(* other messages are values: they are marshalled into the store or into a *)
(* gRPC call and unmarshalled into a new object.                           *)
(***************************************************************************)
EXTENDS Messages

CONSTANT Batches          \* the sequences of messages a sender may send

VARIABLES toSend,         \* messages the sender will still send
          queue,          \* message objects waiting for the writer
          stream,         \* units written to the connection and not decoded yet
          avail,          \* how many of them have arrived
          pool,           \* pool[p]: contents of the pooled objects of process p
          fault,          \* "none", or the log.Fatalf that ended a process
          flying,         \* number of messages in stream
          chan,           \* the messages sent and not yet decoded
          got             \* the messages decoded

linkVars == <<toSend, queue, stream, avail, pool, fault, flying, chan, got>>

RaftTypes  == <<"RaftMessage", "SnapshotMessage", "ACKMessage", "QueryReq", "QueryRsp">>
ProxyTypes == <<"Response", "WatcherNotify", "WatcherNotifySync", "WatcherNotifyRsp">>

-----------------------------------------------------------------------------
(* Pools: pkg/pool. *)

PooledAt(p) == IF p = "src" THEN {"RaftMessage", "Response"} ELSE {"RaftMessage", "Request"}

\* Acquire: a pooled object, or a new one.  sync.Pool may forget objects.
Acquire(p, type) ==
  {Zero(type)} \cup
    {o.body : o \in {x \in pool[p] : x.type = type /\ type \in PooledAt(p)}}

\* Release: Reset, then back to the pool.
Release_NoReset(p, msg) ==
  IF msg.type \in PooledAt(p) THEN [pool EXCEPT ![p] = {msg}] ELSE pool
Release(p, msg) ==
  IF msg.type \in PooledAt(p)
  THEN [pool EXCEPT ![p] = {[type |-> msg.type, body |-> Zero(msg.type)]}] ELSE pool

\* The fields sendRaftMsg assigns in every message; the others only if needed.
AlwaysSet == {"CellID", "CellEpoch", "FromPeer", "ToPeer", "Message"}
Fill(content, msg) ==
  [f \in DOMAIN content |->
     IF msg.body[f] # Zero(msg.type)[f] \/ (msg.type = "RaftMessage" /\ f \in AlwaysSet)
     THEN msg.body[f] ELSE content[f]]

-----------------------------------------------------------------------------
(* Frames. *)

Unit(what, val, len) == [what |-> what, val |-> val, len |-> len]
Tag(t) == Unit("tag", t, 1)
Length(n) == Unit("length", n, 4)
BodyOf(tokens) == [k \in DOMAIN tokens |-> Unit("token", tokens[k], tokens[k].len)]
TagIn(types, type) == CHOOSE t \in DOMAIN types : types[t] = type

\* raftEncoder.Encode: the length counts the type byte.
RaftEncode_BodyLength(msg) ==
  <<Length(SizeOf(msg.type, msg.body)), Tag(TagIn(RaftTypes, msg.type))>>
    \o BodyOf(MarshalTo(Out(msg.type), msg.body))
RaftEncode(msg) ==
  <<Length(SizeOf(msg.type, msg.body) + 1), Tag(TagIn(RaftTypes, msg.type))>>
    \o BodyOf(MarshalTo(Out(msg.type), msg.body))

\* ProxyEncoder.Encode, WriteProxyMessage and session.doResp.
ProxyEncode(msg) ==
  <<Tag(IF msg.type = "Request" THEN 1 ELSE TagIn(ProxyTypes, msg.type)),
    Length(SizeOf(msg.type, msg.body))>>
    \o BodyOf(MarshalTo(Out(msg.type), msg.body))

MustMarshal(msg) == BodyOf(MarshalTo(Out(msg.type), msg.body))

Framing(type) ==
  IF type \in Range(RaftTypes) THEN "raft"
  ELSE IF type \in Range(ProxyTypes) THEN "proxy"
  ELSE IF type = "Request" THEN "redis" ELSE "value"

Encode(msg) ==
  CASE Framing(msg.type) = "raft" -> RaftEncode(msg)
    [] Framing(msg.type) \in {"proxy", "redis"} -> ProxyEncode(msg)
    [] Framing(msg.type) = "value" -> MustMarshal(msg)

\* MarshalTo writes into a slice of exactly Size bytes.
Fits(msg) == Bytes(MarshalTo(Out(msg.type), msg.body)) = SizeOf(msg.type, msg.body)

-----------------------------------------------------------------------------
LinkInit ==
  /\ toSend \in Batches
  /\ queue = <<>> /\ stream = <<>> /\ avail = 0
  /\ pool = [p \in {"src", "dst"} |-> {}]
  /\ fault = "none" /\ flying = 0 /\ chan = <<>> /\ got = <<>>

\* An object is acquired, filled and queued for the writer.
Send ==
  /\ fault = "none" /\ toSend # <<>>
  /\ LET msg == Head(toSend)
     IN  /\ \E content \in Acquire("src", msg.type) :
              queue' = Append(queue, [type |-> msg.type, body |-> Fill(content, msg)])
         /\ chan' = Append(chan, msg)
  /\ toSend' = Tail(toSend)
  /\ UNCHANGED <<stream, avail, pool, fault, flying, got>>

\* The writer encodes the first object and releases it (postSend, writeLoop).
Write ==
  /\ fault = "none" /\ queue # <<>>
  /\ LET msg == Head(queue)
     IN  /\ IF Fits(msg)
            THEN stream' = stream \o Encode(msg) /\ flying' = flying + 1 /\ UNCHANGED fault
            ELSE fault' = "marshal" /\ UNCHANGED <<stream, flying>>
         /\ pool' = Release("src", msg)
  /\ queue' = Tail(queue)
  /\ UNCHANGED <<toSend, avail, chan, got>>

\* Some more bytes arrive.
Arrive ==
  /\ fault = "none"
  /\ avail < Len(stream)
  /\ avail' \in (avail + 1)..Len(stream)
  /\ UNCHANGED <<toSend, queue, stream, pool, fault, flying, chan, got>>

\* The connection breaks: what was written to it is lost.
Break ==
  /\ fault = "none" /\ flying > 0
  /\ stream' = <<>> /\ avail' = 0 /\ flying' = 0
  /\ chan' = SubSeq(chan, flying + 1, Len(chan))
  /\ UNCHANGED <<toSend, queue, pool, fault, got>>

Readable(from) == Bytes(SubSeq(stream, from, avail))

\* The k units after the header hold exactly `size` bytes.
Cut(size) == {k \in 0..(avail - 2) : Bytes(SubSeq(stream, 3, 2 + k)) = size}

\* What is left once the first n units are read.
Rest(n) == stream' = SubSeq(stream, n + 1, Len(stream)) /\ avail' = avail - n

\* Decoding of the n units from `first` on into a content of the type.
Decoded(type, first, n, content) ==
  LET tokens == [k \in 1..n |-> stream[first + k - 1].val]
  IN  IF WellTyped(In(type), tokens)
      THEN /\ got' = Append(got, [type |-> type, body |-> Unmarshal(In(type), content, tokens)])
           /\ chan' = Tail(chan) /\ flying' = flying - 1
           /\ UNCHANGED fault
      ELSE fault' = "unmarshal" /\ UNCHANGED <<got, chan, flying>>

\* The message is handled and, if it came from a pool, released by the handler.
Handled(type) == pool' = Release("dst", got'[Len(got')])

\* goetty's length-field decoder around raftDecoder.Decode.
RaftDecode ==
  /\ fault = "none" /\ flying > 0 /\ Framing(Head(chan).type) = "raft"
  /\ avail > 0 /\ Readable(1) >= 4
  /\ LET size == stream[1].val
     IN  /\ Readable(2) >= size
         /\ IF stream[2].val \in DOMAIN RaftTypes /\ Cut(size - 1) # {}
            THEN LET type == RaftTypes[stream[2].val]
                     n == CHOOSE k \in Cut(size - 1) : TRUE
                 IN  /\ \E content \in Acquire("dst", type) : Decoded(type, 3, n, content)
                     /\ Rest(2 + n)
                     /\ Handled(type)
            ELSE fault' = "frame" /\ UNCHANGED <<stream, avail, pool, flying, chan, got>>
  /\ UNCHANGED <<toSend, queue>>

\* Whether a frame that starts with its tag has arrived whole (hasEnoughData);
\* if not the reader index goes back to the tag.
Enough == avail >= 2 /\ Readable(2) >= 4 + stream[2].val

\* readCommandByProxyProtocol: a Request into a pooled object.
RedisDecode ==
  /\ fault = "none" /\ flying > 0 /\ Framing(Head(chan).type) = "redis"
  /\ avail > 0 /\ stream[1].val = 1
  /\ Enough
  /\ LET size == stream[2].val
         n == CHOOSE k \in Cut(size) : TRUE
     IN  IF Cut(size) # {}
         THEN /\ \E content \in Acquire("dst", "Request") : Decoded("Request", 3, n, content)
              /\ Rest(2 + n)
              /\ Handled("Request")
         ELSE fault' = "frame" /\ UNCHANGED <<stream, avail, pool, flying, chan, got>>
  /\ UNCHANGED <<toSend, queue>>

\* ProxyDecoder.Decode: responses and notifications, always into a new object.
ProxyDecode ==
  /\ fault = "none" /\ flying > 0 /\ Framing(Head(chan).type) = "proxy"
  /\ avail > 0 /\ stream[1].val \in DOMAIN ProxyTypes
  /\ Enough
  /\ LET type == ProxyTypes[stream[1].val]
         size == stream[2].val
         n == CHOOSE k \in Cut(size) : TRUE
     IN  IF Cut(size) # {}
         THEN Decoded(type, 3, n, Zero(type)) /\ Rest(2 + n)
         ELSE fault' = "frame" /\ UNCHANGED <<stream, avail, flying, chan, got>>
  /\ UNCHANGED <<toSend, queue, pool>>

\* util.MustUnmarshal of a whole value into a new object.
MustUnmarshal ==
  /\ fault = "none" /\ flying > 0 /\ Framing(Head(chan).type) = "value"
  /\ avail = Len(stream)
  /\ LET type == Head(chan).type
     IN  Decoded(type, 1, Len(stream), Zero(type)) /\ Rest(Len(stream))
  /\ UNCHANGED <<toSend, queue, pool>>

LinkNext ==
  \/ Send \/ Write \/ Arrive \/ Break
  \/ RaftDecode \/ RedisDecode \/ ProxyDecode \/ MustUnmarshal

LinkSpec == LinkInit /\ [][LinkNext]_linkVars

-----------------------------------------------------------------------------
Sent == UNION {Range(b) : b \in Batches}
Channel == INSTANCE MessageChannel WITH Message <- Sent

(***************************************************************************)
(* Every connection is a message channel: whatever the sizes of the pieces *)
(* that arrive, and whatever the pooled objects held before, the decoder   *)
(* hands over the messages that were sent, in order and unchanged.         *)
(***************************************************************************)
IsChannel == Channel!Spec

(***************************************************************************)
(* No encoder or decoder meets the log.Fatalf of util.MustMarshalTo,        *)
(* util.MustUnmarshal or raftDecoder: the length that Size announces is    *)
(* the number of bytes MarshalTo writes, for every message type.           *)
(***************************************************************************)
FramesHold == fault = "none"
=============================================================================
