-------------------------------- MODULE Wire --------------------------------
(***************************************************************************)
(* What travels: the payload of every request and response, written field   *)
(* by field into a gatherer of byte segments, compressed, framed by the RPC *)
(* header, streamed segment by segment, and read back by a peer that may    *)
(* have been sent less or more than was written.                           *)
(*                                                                         *)
(* Bytes are sequences of numbers, one cell for a fixed-width field: a flag, *)
(* a length, a count, an id, a salt.  JSON text is v cells of value v, so    *)
(* that a piece of it is not JSON.  A payload is a sequence of fields; its   *)
(* format names how each field is laid out.                                *)
(***************************************************************************)
EXTENDS Integers, Sequences, SequencesExt

CONSTANTS
  JsonValues,    \* values that have a JSON text
  Blobs,         \* byte strings carried opaquely: posts, bundles, headers
  Entries,       \* feedback entries, as records
  CountLimit,    \* 2^16: counts are written as u16
  MaxList,       \* bound: length of lists
  MinLz4,        \* MIN_BYTES_FOR_LZ4
  SmallSegment,  \* TRANSPORT_BYTES_GATHERER_COMPACT_THRESHOLD
  MaxRequest,    \* PROTOCOL_MAX_BLOB_SIZE_REQUEST
  MaxResponse    \* PROTOCOL_MAX_BLOB_SIZE_RESPONSE

ASSUME WireAssumption ==
  /\ JsonValues \subseteq Nat \ {0}
  /\ {CountLimit, MaxList, MinLz4, SmallSegment, MaxRequest, MaxResponse} \subseteq Nat
  /\ MaxList < CountLimit
  /\ Blobs \subseteq Seq(Nat)
  /\ Entries \subseteq [post_id : Nat, feedback_type : Nat, salt : Nat, pow : Nat]

VARIABLE wire    \* the message under way: what was meant, what travels, what was read

wireVars == <<wire>>

-----------------------------------------------------------------------------
(* The gatherer: small fields accumulate, blobs are attached by reference.   *)
EmptyGatherer == [segments |-> <<>>, current |-> <<>>]

Flush(g) == IF g.current = <<>> THEN g ELSE [segments |-> Append(g.segments, g.current), current |-> <<>>]

PutSlice(g, s) == [g EXCEPT !.current = @ \o s]

PutBytes(g, s) ==
  IF s = <<>> THEN g ELSE LET f == Flush(g) IN [f EXCEPT !.segments = Append(@, s)]

\* Mutant: the segments of the other go in front of what is still accumulating.
PutBytesGathererUnflushed(g, other) ==
  IF other.segments = <<>> THEN PutSlice(g, other.current)
  ELSE [g EXCEPT !.segments = @ \o Flush(other).segments]

PutBytesGatherer(g, other) ==
  IF other.segments = <<>> THEN PutSlice(g, other.current)
  ELSE [segments |-> Flush(g).segments \o Flush(other).segments, current |-> <<>>]

\* Small neighbours are merged; a large segment goes through untouched.
Compact(g) ==
  Flush(FoldLeft(LAMBDA out, s : IF Len(s) < SmallSegment THEN PutSlice(out, s) ELSE PutBytes(out, s),
                 EmptyGatherer, Flush(g).segments))

ToBytes(g) == FlattenSeq(Flush(g).segments)

-----------------------------------------------------------------------------
(* Compression: a version cell, then the bytes or what the compressor made   *)
(* of them.  The compressor here shortens runs of one cell.                 *)
IsRun(s) == s # <<>> /\ \A i \in DOMAIN s : s[i] = s[1]

CompressLz4(s) ==
  IF Len(s) < MinLz4 \/ ~IsRun(s) THEN <<0>> \o s ELSE <<1, Len(s), s[1]>>

CompressForSpeed(s) == IF Len(CompressLz4(s)) < Len(s) THEN CompressLz4(s) ELSE <<0>> \o s

Refused == [ok |-> FALSE, val |-> <<>>, rest |-> <<>>]

Got(val, rest) == [ok |-> TRUE, val |-> val, rest |-> rest]

Decompress(s) ==
  CASE s = <<>> -> Refused
    [] s # <<>> /\ s[1] = 0 -> Got(Tail(s), <<>>)
    [] s # <<>> /\ s[1] = 1 /\ Len(s) = 3 -> Got([i \in 1 .. s[2] |-> s[3]], <<>>)
    [] OTHER -> Refused

-----------------------------------------------------------------------------
(* Fields.  An optional value is a sequence of none or one.                  *)
Some(x) == <<x>>

Nothing == <<>>

Json(v) == [i \in 1 .. v |-> v]

BytesToStruct(s) == IF Len(s) \in JsonValues /\ s = Json(Len(s)) THEN Got(Len(s), <<>>) ELSE Refused

AppendEncode(e) == <<1, e.post_id, e.feedback_type, e.salt, e.pow>>

EntrySize == 5

WriteLengthPrefixedJson(g, v) == PutBytes(PutSlice(g, <<Len(Json(v))>>), Json(v))

\* Bundles are attached to a response by reference and copied into a request.
WriteSized(g, list, byReference) ==
  FoldLeft(LAMBDA a, b : IF byReference THEN PutBytes(PutSlice(a, <<Len(b)>>), b) ELSE PutSlice(a, <<Len(b)>> \o b),
           PutSlice(g, <<Len(list) % CountLimit>>), list)

Write(g, kind, x) ==
  CASE kind = "json" -> WriteLengthPrefixedJson(g, x)
    [] kind = "opt_json" -> IF x = Nothing THEN PutSlice(g, <<0>>) ELSE WriteLengthPrefixedJson(PutSlice(g, <<1>>), x[1])
    [] kind = "blobs" -> WriteSized(g, x, TRUE)
    [] kind = "slices" -> WriteSized(g, x, FALSE)
    [] kind = "opt_tail" -> IF x = Nothing THEN PutSlice(g, <<0>>) ELSE PutBytes(PutSlice(g, <<1>>), x[1])
    [] kind = "opt_sized" -> IF x = Nothing THEN PutSlice(g, <<0>>) ELSE PutSlice(g, <<Len(x[1])>> \o x[1])
    [] kind \in {"tail", "some_tail"} -> PutSlice(g, x)
    [] kind \in {"whole_json", "ignored"} -> PutBytes(g, Json(x))
    [] kind = "id" -> PutSlice(g, <<x>>)
    [] kind = "entry" -> PutBytes(g, AppendEncode(x))
    [] kind = "entries" -> PutSlice(g, FlattenSeq([i \in DOMAIN x |-> AppendEncode(x[i])]))

Left(s) == SubSeq(s, 2, Len(s))

ReadSized(s, found) ==
  IF s = <<>> \/ Len(s) <= s[1] THEN Refused
  ELSE Got(Append(found, SubSeq(s, 2, s[1] + 1)), SubSeq(s, s[1] + 2, Len(s)))

ReadLengthPrefixedJson(s) ==
  LET r == ReadSized(s, <<>>)
      v == BytesToStruct(r.val[1])
  IN IF r.ok /\ v.ok THEN Got(v.val, r.rest) ELSE Refused

\* Mutant: an entry that is cut short is taken for what there is of it.
ReadBlobsLoosely(s) ==
  IF s = <<>> THEN Refused
  ELSE FoldLeft(LAMBDA r, i : IF ~r.ok \/ r.rest = <<>> THEN r
                              ELSE LET n == IF r.rest[1] < Len(r.rest) THEN r.rest[1] ELSE Len(r.rest) - 1
                                   IN Got(Append(r.val, SubSeq(r.rest, 2, n + 1)), SubSeq(r.rest, n + 2, Len(r.rest))),
                Got(<<>>, Left(s)), [i \in 1 .. s[1] |-> i])

ReadBlobs(s) ==
  IF s = <<>> THEN Refused
  ELSE FoldLeft(LAMBDA r, i : IF r.ok THEN ReadSized(r.rest, r.val) ELSE r, Got(<<>>, Left(s)), [i \in 1 .. s[1] |-> i])

DecodeEntry(s) ==
  IF Len(s) < EntrySize \/ s[1] # 1 THEN Refused
  ELSE Got([post_id |-> s[2], feedback_type |-> s[3], salt |-> s[4], pow |-> s[5]], SubSeq(s, EntrySize + 1, Len(s)))

ReadEntries(s) ==
  FoldLeft(LAMBDA r, i : LET e == DecodeEntry(r.rest)
                         IN IF ~r.ok \/ r.rest = <<>> THEN r ELSE IF e.ok THEN Got(Append(r.val, e.val), e.rest) ELSE Refused,
           Got(<<>>, s), s)

Read(kind, s) ==
  CASE kind = "json" -> ReadLengthPrefixedJson(s)
    [] kind = "opt_json" ->
         IF s = <<>> \/ s[1] \notin {0, 1} THEN Refused
         ELSE IF s[1] = 0 THEN Got(Nothing, Left(s))
         ELSE LET r == ReadLengthPrefixedJson(Left(s)) IN IF r.ok THEN Got(Some(r.val), r.rest) ELSE Refused
    [] kind \in {"blobs", "slices"} -> ReadBlobs(s)
    [] kind = "opt_tail" ->
         IF s = <<>> \/ s[1] \notin {0, 1} THEN Refused ELSE Got(IF s[1] = 0 THEN Nothing ELSE Some(Left(s)), <<>>)
    [] kind = "opt_sized" ->
         IF s = <<>> THEN Refused
         ELSE IF s[1] = 0 THEN Got(Nothing, Left(s)) ELSE ReadSized(s, <<>>)
    [] kind = "tail" -> Got(s, <<>>)
    [] kind = "some_tail" -> IF s = <<>> THEN Refused ELSE Got(s, <<>>)
    [] kind = "whole_json" -> BytesToStruct(s)
    [] kind = "ignored" -> Got(1, <<>>)
    [] kind = "id" -> IF s = <<>> THEN Refused ELSE Got(s[1], Left(s))
    [] kind = "entry" -> DecodeEntry(s)
    [] kind = "entries" -> ReadEntries(s)

ListsOf(S) == UNION {[1 .. n -> S] : n \in 0 .. MaxList}

Domain(kind) ==
  CASE kind \in {"json", "whole_json", "id"} -> JsonValues
    [] kind = "ignored" -> {1}
    [] kind = "opt_json" -> {Some(v) : v \in JsonValues} \cup {Nothing}
    [] kind \in {"blobs", "slices"} -> ListsOf(Blobs)
    [] kind \in {"opt_tail", "opt_sized"} -> {Some(b) : b \in Blobs} \cup {Nothing}
    [] kind \in {"tail", "some_tail"} -> Blobs
    [] kind = "entry" -> Entries
    [] kind = "entries" -> ListsOf(Entries)

-----------------------------------------------------------------------------
(* The formats of payload.rs.                                               *)
JsonMessage == <<"whole_json">>

EmptyRequest == <<"ignored">>

GetPostBundleResponseV1 == <<"json", "opt_json", "blobs", "opt_tail">>

GetPostBundleFeedbackResponseV1 == <<"json", "opt_json", "blobs", "opt_tail">>

SubmitPostClaimV1 == <<"json", "opt_sized", "json", "some_tail">>

SubmitPostCommitV1 == <<"json", "json", "tail">>

SubmitPostFeedbackV1 == <<"json", "entry">>

HealPostBundleClaimV1 == <<"json", "json">>

HealPostBundleCommitV1 == <<"json", "json", "tail">>

HealPostBundleFeedbackV1 == <<"id", "entries">>

CachePostBundleV1 == <<"json", "slices">>

CachePostBundleFeedbackV1 == <<"json", "tail">>

FetchUrlPreviewV1 == <<"json">>

FetchUrlPreviewResponseV1 == JsonMessage

TrendingHashtagsFetchV1 == <<"json">>

TrendingHashtagsFetchResponseV1 == JsonMessage

PeerStatsV1 == JsonMessage

(* The kinds in the order of their numbers, from 0, with their formats.       *)
PayloadRequestKind ==
  << EmptyRequest, EmptyRequest, EmptyRequest, JsonMessage, JsonMessage, JsonMessage,
     SubmitPostClaimV1, SubmitPostCommitV1, SubmitPostFeedbackV1,
     HealPostBundleClaimV1, HealPostBundleCommitV1, HealPostBundleFeedbackV1,
     CachePostBundleV1, CachePostBundleFeedbackV1,
     FetchUrlPreviewV1, TrendingHashtagsFetchV1, PeerStatsV1, JsonMessage >>

PayloadResponseKind ==
  << JsonMessage, JsonMessage, JsonMessage, JsonMessage,
     GetPostBundleResponseV1, GetPostBundleFeedbackResponseV1,
     JsonMessage, JsonMessage, JsonMessage, JsonMessage, JsonMessage, JsonMessage, JsonMessage, JsonMessage,
     FetchUrlPreviewResponseV1, TrendingHashtagsFetchResponseV1, PeerStatsV1, JsonMessage >>

Kinds(way) == IF way = "request" THEN PayloadRequestKind ELSE PayloadResponseKind

MaxBlob(way) == IF way = "request" THEN MaxRequest ELSE MaxResponse

(* Posts and bundles are mostly compressed already, so claims, commits and    *)
(* heal commits are not, nor are the answers to requests for bundles.        *)
Compresses(way, code) == code \notin (IF way = "request" THEN {6, 7, 10} ELSE {4, 12})

-----------------------------------------------------------------------------
ToBytesGatherer(format, msg) ==
  FoldLeft(LAMBDA g, i : Write(g, format[i], msg[i]), EmptyGatherer, [i \in DOMAIN format |-> i])

FromBytes(format, s) ==
  FoldLeft(LAMBDA r, kind : LET f == Read(kind, r.rest)
                            IN IF r.ok /\ f.ok THEN Got(Append(r.val, f.val), f.rest) ELSE Refused,
           Got(<<>>, s), format)

HeaderSize == 4

(* The packet: version, flags, kind and length, then the payload.             *)
EncodePacket(way, code, g) ==
  LET payload == IF Compresses(way, code)
                 THEN PutBytes(EmptyGatherer, CompressForSpeed(ToBytes(g))) ELSE g
      flags == IF Compresses(way, code) THEN 1 ELSE 0
  IN PutBytesGatherer(PutSlice(EmptyGatherer, <<1, flags, code, Len(ToBytes(payload))>>), payload)

\* Mutant: what follows the payload is ignored.
FillsPacketAtLeast(s) == Len(s) - HeaderSize >= s[4]

FillsPacket(s) == Len(s) - HeaderSize = s[4]

(* Header fields are checked before anything is taken out of the payload.      *)
DecodePacket(way, s) ==
  IF Len(s) < HeaderSize \/ s[1] # 1 \/ s[2] \notin {0, 1} \/ s[3] >= Len(Kinds(way)) \/ s[4] > MaxBlob(way) \/ ~FillsPacket(s)
  THEN Refused
  ELSE LET payload == SubSeq(s, HeaderSize + 1, HeaderSize + s[4])
           bytes == IF s[2] = 1 THEN Decompress(payload) ELSE Got(payload, <<>>)
           read == FromBytes(Kinds(way)[s[3] + 1], bytes.val)
       IN IF bytes.ok /\ read.ok THEN Got([code |-> s[3], msg |-> read.val], <<>>) ELSE Refused

-----------------------------------------------------------------------------
WireInit == wire = [at |-> "idle"]

WireSend(way, code) ==
  /\ wire.at = "idle"
  /\ LET format == Kinds(way)[code + 1]
     IN \E first \in Domain(format[1]) :
          wire' = [at |-> "writing", way |-> way, code |-> code, msg |-> <<first>>]

(* The fields of the message, one after the other.                           *)
WireField ==
  /\ wire.at = "writing"
  /\ LET format == Kinds(wire.way)[wire.code + 1]
     IN /\ Len(wire.msg) < Len(format)
        /\ \E x \in Domain(format[Len(wire.msg) + 1]) : wire' = [wire EXCEPT !.msg = Append(@, x)]

(* The packet is made; a payload may have been cut before that, by a peer      *)
(* that holds no more of it.  One that is too large is not sent.             *)
WirePacket ==
  /\ wire.at = "writing"
  /\ LET format == Kinds(wire.way)[wire.code + 1]
         whole == ToBytesGatherer(format, wire.msg)
         size == Len(ToBytes(whole))
     IN /\ Len(wire.msg) = Len(format)
        /\ \E keep \in 0 .. size :
             LET g == IF keep = size THEN whole ELSE PutBytes(EmptyGatherer, SubSeq(ToBytes(whole), 1, keep))
                 packet == EncodePacket(wire.way, wire.code, g)
             IN wire' = IF Len(ToBytes(packet)) - HeaderSize > MaxBlob(wire.way)
                        THEN [at |-> "idle"]
                        ELSE [at |-> "sent", way |-> wire.way, code |-> wire.code, msg |-> wire.msg,
                              short |-> keep < size, damaged |-> FALSE,
                              stream |-> IF wire.way = "request" THEN <<ToBytes(packet)>> ELSE Compact(packet).segments]

(* The stream ends early, or the peer writes on.                              *)
WireDamage ==
  /\ wire.at = "sent"
  /\ ~wire.damaged
  /\ LET bytes == FlattenSeq(wire.stream)
     IN \/ \E n \in 0 .. Len(bytes) - 1 : wire' = [wire EXCEPT !.damaged = TRUE, !.stream = <<SubSeq(bytes, 1, n)>>]
        \/ \E c \in {0, 1} : wire' = [wire EXCEPT !.damaged = TRUE, !.stream = Append(wire.stream, <<c>>)]

WireReceive ==
  /\ wire.at = "sent"
  /\ LET r == DecodePacket(wire.way, FlattenSeq(wire.stream))
     IN wire' = [at |-> "read", way |-> wire.way, code |-> wire.code, msg |-> wire.msg,
                 short |-> wire.short, damaged |-> wire.damaged, got |-> r]

WireAgain == wire.at = "read" /\ wire' = [at |-> "idle"]

WireNext ==
  \/ \E way \in {"request", "response"}, code \in 0 .. 17 : WireSend(way, code)
  \/ WireField \/ WirePacket \/ WireDamage \/ WireReceive \/ WireAgain

WireSpec == WireInit /\ [][WireNext]_wireVars

-----------------------------------------------------------------------------
ReadWhole == wire.at = "read" /\ ~wire.short /\ ~wire.damaged

(* What a message is after the wire: a header of no bytes is no header.        *)
Normal(format, msg) ==
  [i \in DOMAIN format |-> IF format[i] = "opt_sized" /\ msg[i] = Some(<<>>) THEN Nothing ELSE msg[i]]

(* Every message that is sent is read back as what was meant, through the      *)
(* gatherer, the compressor, the framing, and the merging of segments; only    *)
(* a claim without a post is refused.                                        *)
RoundTrip ==
  ReadWhole =>
    LET format == Kinds(wire.way)[wire.code + 1]
        refused == \E i \in DOMAIN format : format[i] = "some_tail" /\ wire.msg[i] = <<>>
    IN IF refused THEN ~wire.got.ok
       ELSE wire.got.ok /\ wire.got.val = [code |-> wire.code, msg |-> Normal(format, wire.msg)]

(* A stream that ends early or goes on is never taken for a message.          *)
DamagedRefused == (wire.at = "read" /\ wire.damaged) => ~wire.got.ok

(* A payload that holds less than was meant is refused, or only its last       *)
(* field is shorter: no field is filled with the bytes of another.           *)
Shorter(kind, x, y) ==
  CASE kind \in {"tail", "some_tail", "entries"} -> IsPrefix(x, y)
    [] kind = "opt_tail" -> x # Nothing /\ y # Nothing /\ IsPrefix(x[1], y[1])
    [] OTHER -> x = y

ShortIsPrefix ==
  (wire.at = "read" /\ wire.short /\ wire.got.ok) =>
    LET format == Kinds(wire.way)[wire.code + 1]
        meant == Normal(format, wire.msg)
        last == Len(format)
    IN /\ SubSeq(wire.got.val.msg, 1, last - 1) = SubSeq(meant, 1, last - 1)
       /\ Shorter(format[last], wire.got.val.msg[last], meant[last])

\* What is read of a packet is what was written into it: undamaged packets give back their
\* payload, packets cut or continued are refused, and a list never gives what was not sent.
PacketsFaithful == RoundTrip /\ DamagedRefused /\ ShortIsPrefix
=============================================================================
