------------------------------ MODULE QueryWire ------------------------------
(***************************************************************************)
(* The bytes of the query protocols: what the responders read from a       *)
(* request (proto/sqp/sqp.go, proto/a2s/a2s.go), what the encoders make of *)
(* an answer (proto/query.go, the two encoder.go), and how a client that   *)
(* follows the protocol reads it. A byte is a number below 256, a string a *)
(* sequence of bytes, a challenge a number of 32 bits.                     *)
(***************************************************************************)
EXTENDS Integers, Sequences, SequencesExt

(* Conversions to a byte and to a uint16, also of a negative number.       *)
Byte(n) == n % 256
UInt16(n) == n % 256^2
BigEndian(n, width) == [i \in 1 .. width |-> Byte(n \div 256^(width - i))]
LittleEndian(n, width) == [i \in 1 .. width |-> Byte(n \div 256^(i - 1))]
FromBigEndian(s) ==
  LET value[i \in 0 .. Len(s)] == IF i = 0 THEN 0 ELSE 256 * value[i - 1] + s[i]
  IN value[Len(s)]
FromLittleEndian(s) == FromBigEndian(Reverse(s))

(* The endpoint reads into a buffer it has cleared and hands all of it on:  *)
(* a short datagram is padded with zeros, a long one cut.                  *)
ReadBuffer(datagram, size) ==
  [i \in 1 .. size |-> IF i <= Len(datagram) THEN datagram[i] ELSE 0]

-----------------------------------------------------------------------------
(* Requests in the SQP format.                                             *)
isChallenge(buf) == SubSeq(buf, 1, 5) = <<0, 0, 0, 0, 0>>
isQuery(buf) == buf[1] = 1
Bit(b, n) == (b \div n) % 2 = 1

ParseQuery(buf) ==
  [challenge |-> FromBigEndian(SubSeq(buf, 2, 5)),
   version |-> FromBigEndian(SubSeq(buf, 6, 7)),
   wantsServerInfo |-> Bit(buf[8], 1), wantsMetrics |-> Bit(buf[8], 16)]

(* Requests in the A2S format: a payload up to a zero byte, then perhaps a *)
(* challenge. A buffer that ends within the challenge is an error.         *)
a2sInfoRequest == <<255, 255, 255, 255, 84>>
isInfoRequest(buf) == SubSeq(buf, 1, 5) = a2sInfoRequest

(* Mutant: the zero byte is not skipped.                                   *)
parseInfoRequestAtNul(buf) ==
  LET ends == {i \in 6 .. Len(buf) : buf[i] = 0}
      end == IF ends = {} THEN Len(buf) ELSE (CHOOSE i \in ends : \A j \in ends : i <= j) - 1
  IN IF end >= Len(buf) THEN [ok |-> TRUE, challenge |-> 0]
     ELSE IF Len(buf) - end < 4 THEN [ok |-> FALSE, challenge |-> 0]
     ELSE [ok |-> TRUE, challenge |-> FromLittleEndian(SubSeq(buf, end + 1, end + 4))]

parseInfoRequest(buf) ==
  LET ends == {i \in 6 .. Len(buf) : buf[i] = 0}
      end == IF ends = {} THEN Len(buf) ELSE CHOOSE i \in ends : \A j \in ends : i <= j
  IN IF end >= Len(buf) THEN [ok |-> TRUE, challenge |-> 0]
     ELSE IF Len(buf) - end < 4 THEN [ok |-> FALSE, challenge |-> 0]
     ELSE [ok |-> TRUE, challenge |-> FromLittleEndian(SubSeq(buf, end + 1, end + 4))]

-----------------------------------------------------------------------------
(* WireWrite goes through the fields of a structure in their order, those  *)
(* of a nested one in its place, and skips nil pointers: an absent chunk   *)
(* is the empty sequence here.                                             *)
WireWrite(fields) == FlattenSeq(fields)

(* Mutant: what does not fit is cut off, but counted by the sizes.        *)
SqpStringCut(s) == <<Byte(Len(s))>> \o SubSeq(s, 1, Byte(Len(s)))

(* Mutant: the length is not narrowed.                                     *)
SqpStringWide(s) == <<Len(s)>> \o s

(* The length of a string goes out in one byte, and then all of it.        *)
SqpString(s) == <<Byte(Len(s))>> \o s
A2sString(s) == s \o <<0>>

SqpServerInfo(state) == WireWrite(<<
  BigEndian(UInt16(state.players), 2), BigEndian(UInt16(state.maxPlayers), 2),
  SqpString(state.name), SqpString(state.gameType), SqpString(<<>>), SqpString(state.map),
  BigEndian(state.port, 2)>>)
SqpServerInfoSize(state) ==
  2 + 2 + Len(state.name) + 1 + Len(state.gameType) + 1 + 1 + Len(state.map) + 1 + 2

(* SetMetric keeps the metrics within the number that is sent.             *)
SqpMetrics(state) == WireWrite(<<
  <<Len(state.metrics)>>,
  FlattenSeq([i \in 1 .. Len(state.metrics) |-> BigEndian(state.metrics[i], 4)])>>)
SqpMetricsSize(state) == 1 + 4 * Len(state.metrics)

SqpChallenge(challenge) == WireWrite(<<<<0>>, BigEndian(challenge, 4)>>)

(* Metrics are for version 2 and later only. The payload length is a sum   *)
(* of 16 bits.                                                             *)
SqpAnswer(query, state) ==
  LET metrics == query.version >= 2 /\ query.wantsMetrics
      infoSize == SqpServerInfoSize(state)
      metricsSize == SqpMetricsSize(state)
      payload == (IF query.wantsServerInfo THEN infoSize + 4 ELSE 0)
                 + (IF metrics THEN metricsSize + 4 ELSE 0)
  IN WireWrite(<<
       <<1>>, BigEndian(query.challenge, 4), BigEndian(1, 2), <<0>>, <<0>>,
       BigEndian(payload, 2),
       IF query.wantsServerInfo THEN BigEndian(infoSize, 4) \o SqpServerInfo(state) ELSE <<>>,
       IF metrics THEN BigEndian(metricsSize, 4) \o SqpMetrics(state) ELSE <<>>>>)

A2sChallenge(challenge) ==
  WireWrite(<<<<255, 255, 255, 255, 65>>, LittleEndian(challenge, 4)>>)

NotAvailable == <<110, 47, 97>>        \* "n/a"
A2sInfo(state) == WireWrite(<<
  <<255, 255, 255, 255, 73>>, <<1>>, A2sString(state.name), A2sString(state.map),
  A2sString(NotAvailable), A2sString(state.gameType), LittleEndian(0, 2),
  LittleEndian(Byte(state.players), 1), LittleEndian(Byte(state.maxPlayers), 1),
  <<0>>, <<100>>, <<108>>, <<0>>, <<0>>, A2sString(<<>>)>>)

-----------------------------------------------------------------------------
(* A client's reading of an answer, by the formats of the protocols: the   *)
(* chunks by their lengths, the strings by theirs or by the zero byte.     *)
From(s, i) == SubSeq(s, i, Len(s))
TakeSqp(s) == SubSeq(s, 2, 1 + s[1])
AfterSqp(s) == From(s, 2 + s[1])
TakeA2s(s) == SubSeq(s, 1, SelectInSeq(s, LAMBDA b : b = 0) - 1)
AfterA2s(s) == From(s, SelectInSeq(s, LAMBDA b : b = 0) + 1)

ReadSqpServerInfo(chunk) ==
  LET s0 == From(chunk, 5)
      s1 == AfterSqp(s0)
      s2 == AfterSqp(s1)
      s3 == AfterSqp(s2)
      s4 == AfterSqp(s3)
  IN [players |-> FromBigEndian(SubSeq(chunk, 1, 2)),
      maxPlayers |-> FromBigEndian(SubSeq(chunk, 3, 4)), name |-> TakeSqp(s0),
      gameType |-> TakeSqp(s1), map |-> TakeSqp(s3), port |-> FromBigEndian(SubSeq(s4, 1, 2))]

(* A chunk, and what is behind it, by the length in its first four bytes.  *)
ChunkLength(s) == FromBigEndian(SubSeq(s, 1, 4))
ReadChunk(s) == SubSeq(s, 5, 4 + ChunkLength(s))
AfterChunk(s) == From(s, 5 + ChunkLength(s))
ReadSqpMetrics(chunk) ==
  [i \in 1 .. chunk[1] |-> FromBigEndian(SubSeq(chunk, 4 * i - 2, 4 * i + 1))]

ReadA2sInfo(packet) ==
  LET s0 == From(packet, 7)
      s1 == AfterA2s(s0)
      s3 == AfterA2s(AfterA2s(s1))
      rest == AfterA2s(s3)
  IN [name |-> TakeA2s(s0), map |-> TakeA2s(s1), gameType |-> TakeA2s(s3),
      players |-> rest[3], maxPlayers |-> rest[4]]
=============================================================================
