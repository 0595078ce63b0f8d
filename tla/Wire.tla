-------------------------------- MODULE Wire --------------------------------
(***************************************************************************)
(* The binary messages of the protocol (packages/protocol/src): varint.ts, *)
(* primitives.ts, codec.ts (OPS), presenceCodec.ts (PRESENCE),             *)
(* controlCodec.ts (CONTROL) and snapshotBody.ts.                          *)
(*                                                                         *)
(* A message is given by its layout, the sequence of its fields; one       *)
(* operator writes a field and one reads it.  A reader takes a sequence of *)
(* bytes to the set of what it reads, with the bytes left over: the empty  *)
(* set is a ProtocolDecodeError.  An optional field is a sequence of at    *)
(* most one value.                                                         *)
(*                                                                         *)
(* The behaviours take a message that is encoded, a frame that is cut,     *)
(* padded or altered in one byte, and the side that reads it.  The debug   *)
(* projection of frames is left out.                                       *)
(***************************************************************************)
EXTENDS Integers, FiniteSets, Sequences, SequencesExt

CONSTANTS
  MaxBytes,     \* MAX_VARINT_BYTES
  MaxSafe,      \* Number.MAX_SAFE_INTEGER
  UuidLength,   \* bytes of a UUID
  Messages,     \* the messages that are encoded
  Patches       \* the bytes that overwrite another or follow the last

ASSUME WireAssumption ==
  MaxBytes \in Nat /\ MaxSafe \in Nat /\ UuidLength \in Nat /\ Patches \subseteq 0..255

VARIABLES
  message,  \* what was encoded
  frame,    \* its bytes, or what has become of them
  reader,   \* the side the decoder takes the frame to come from
  fate      \* what has been done to it

vars == <<message, frame, reader, fate>>

-----------------------------------------------------------------------------
(* Bytes *)

ReadByte(s) == IF s = <<>> THEN {} ELSE {<<Head(s), Tail(s)>>}

ReadBytes(s, n) == IF n > Len(s) THEN {} ELSE {<<SubSeq(s, 1, n), SubSeq(s, n + 1, Len(s))>>}

\* Seven bits a byte, the least significant first; all but the last carry 128.
WriteVarint(value) ==
  LET write[v \in Nat] == IF v < 128 THEN <<v>> ELSE <<128 + (v % 128)>> \o write[v \div 128]
  IN  write[value]

\* Mutant: the bits of the later bytes are worth more than those before them by 127.
ReadVarintSkewed(s) ==
  LET last == SelectInSeq(s, LAMBDA b : b < 128)
      value == FoldRight(LAMBDA b, v : (127 * v) + (b % 128), SubSeq(s, 1, last), 0)
  IN  IF last = 0 \/ last > MaxBytes \/ value > MaxSafe THEN {}
      ELSE {<<value, SubSeq(s, last + 1, Len(s))>>}

ReadVarint(s) ==
  LET last == SelectInSeq(s, LAMBDA b : b < 128)
      value == FoldRight(LAMBDA b, v : (128 * v) + (b % 128), SubSeq(s, 1, last), 0)
  IN  IF last = 0 \/ last > MaxBytes \/ value > MaxSafe THEN {}
      ELSE {<<value, SubSeq(s, last + 1, Len(s))>>}

\* UTF-8 of the scalars below 2048, which take one byte or two.
Utf8(scalar) ==
  IF scalar < 128 THEN <<scalar>> ELSE <<192 + (scalar \div 64), 128 + (scalar % 64)>>

\* TextDecoder with fatal: true.
FromUtf8(bytes) ==
  LET step(acc, b) ==
        IF acc.lead # 0
        THEN [ok |-> acc.ok /\ b \in 128..191, lead |-> 0,
              out |-> Append(acc.out, 64 * (acc.lead - 192) + b - 128)]
        ELSE IF b \in 194..223 THEN [acc EXCEPT !.lead = b]
        ELSE [acc EXCEPT !.ok = @ /\ b < 128, !.out = Append(@, b)]
      end == FoldLeft(step, [ok |-> TRUE, lead |-> 0, out |-> <<>>], bytes)
  IN  IF end.ok /\ end.lead = 0 THEN {end.out} ELSE {}

-----------------------------------------------------------------------------
(* Fields *)

Num(n)          == [name |-> n, type |-> "varint"]
Stamp(n)        == [name |-> n, type |-> "stamp"]
Uuid(n)         == [name |-> n, type |-> "uuid"]
Blob(n)         == [name |-> n, type |-> "blob"]
Text(n)         == [name |-> n, type |-> "text"]
Octet(n)        == [name |-> n, type |-> "code", codes |-> 0..255]
Code(n, codes)  == [name |-> n, type |-> "code", codes |-> codes]
Bool(n)         == [name |-> n, type |-> "bool"]
Opt(field)      == [name |-> field.name, type |-> "opt", of |-> field]
Flags(bits)     == [name |-> "flags", type |-> "flags", bits |-> bits]
Seq0            == [name |-> "seq", type |-> "seq"]          \* the client leaves it 0
Relayed(field)  == [name |-> field.name, type |-> "relayed", of |-> field]
Count(n, least) == [name |-> "count", type |-> "count", of |-> n, least |-> least]
Chars(n)        == [name |-> n, type |-> "chars"]            \* as many as "count" said
List(n, least, group) == [name |-> n, type |-> "list", least |-> least, group |-> group]

WriteString(values) ==
  LET bytes == FlattenSeq([i \in DOMAIN values |-> Utf8(values[i])])
  IN  WriteVarint(Len(bytes)) \o bytes

WriteSimple(f, v) ==
  CASE f.type = "varint" -> WriteVarint(v)
    [] f.type = "stamp"  -> WriteVarint(v[1]) \o WriteVarint(v[2])
    [] f.type = "uuid"   -> v
    [] f.type = "blob"   -> WriteVarint(Len(v)) \o v
    [] f.type \in {"text", "chars"} -> WriteString(v)
    [] f.type = "code"   -> <<v>>
    [] f.type = "bool"   -> <<IF v THEN 1 ELSE 0>>

\* Bit i - 1 of the flags is set when the i-th field is present, or true.
FlagsByte(bits, m) ==
  LET set(f) == IF f.type = "opt" THEN m[f.name] # <<>> ELSE m[f.name]
  IN  FoldRight(LAMBDA f, n : (2 * n) + (IF set(f) THEN 1 ELSE 0), bits, 0)

WriteItem(f, m, from) ==
  CASE f.type = "flags" -> <<FlagsByte(f.bits, m)>>
    [] f.type = "opt"   -> IF m[f.name] = <<>> THEN <<>> ELSE WriteSimple(f.of, m[f.name][1])
    [] f.type = "seq"   -> WriteVarint(m.seq)
    [] f.type = "relayed" -> IF from = "server" THEN WriteVarint(m[f.name]) ELSE <<>>
    [] f.type = "count" -> WriteVarint(Len(m[f.of]))
    [] OTHER -> WriteSimple(f, m[f.name])

WriteGroup(group, m, from) ==
  FlattenSeq([i \in DOMAIN group |-> WriteItem(group[i], m, from)])

WriteField(f, m, from) ==
  IF f.type # "list" THEN WriteItem(f, m, from)
  ELSE WriteVarint(Len(m[f.name]))
       \o FlattenSeq([i \in DOMAIN m[f.name] |-> WriteGroup(f.group, m[f.name][i], from)])

WritePayload(layout, m, from) ==
  FlattenSeq([i \in DOMAIN layout |-> WriteField(layout[i], m, from)])

-----------------------------------------------------------------------------
(* Reading fields: m is what has been read so far, rest what is left *)

ReadStamp(s) ==
  UNION {{<<<<c[1], r[1]>>, r[2]>> : r \in ReadVarint(c[2])} : c \in ReadVarint(s)}

ReadBlob(s) == UNION {ReadBytes(n[2], n[1]) : n \in ReadVarint(s)}

ReadText(s) == UNION {{<<t, b[2]>> : t \in FromUtf8(b[1])} : b \in ReadBlob(s)}

ReadSimple(f, s) ==
  CASE f.type = "varint" -> ReadVarint(s)
    [] f.type = "stamp"  -> ReadStamp(s)
    [] f.type = "uuid"   -> ReadBytes(s, UuidLength)
    [] f.type = "blob"   -> ReadBlob(s)
    [] f.type \in {"text", "chars"} -> ReadText(s)
    [] f.type = "code"   -> {b \in ReadByte(s) : b[1] \in f.codes}
    [] f.type = "bool"   -> {<<b[1] # 0, b[2]>> : b \in ReadByte(s)}

\* A bit that stands for no field is reserved and must be 0.
ReadFlags(bits, acc) ==
  {[m |-> [i \in {bits[k].name : k \in DOMAIN bits} |->
             LET k == CHOOSE k \in DOMAIN bits : bits[k].name = i
             IN  (b[1] \div 2^(k - 1)) % 2 = 1] @@ acc.m,
    rest |-> b[2]] : b \in {x \in ReadByte(acc.rest) : x[1] < 2^Len(bits)}}

Keep(acc, name, results) == {[m |-> (name :> r[1]) @@ acc.m, rest |-> r[2]] : r \in results}

\* Mutant: the declared length of a run is not compared with its characters.
CountUnchecked(f, acc) == ReadText(acc.rest)

CountedText(f, acc) == {t \in ReadText(acc.rest) : Len(t[1]) = acc.m.count}

\* Mutant: the server takes a sequence number from a client.
AnySeq(s, from) == ReadVarint(s)

\* A frame of a client must leave the number to the server.
ReadSeq(s, from) == {n \in ReadVarint(s) : from = "client" => n[1] = 0}

ReadItem(f, acc, from) ==
  CASE f.type = "flags" -> ReadFlags(f.bits, acc)
    [] f.type = "opt"   ->
         IF acc.m[f.name]
         THEN Keep(acc, f.name, {<<<<r[1]>>, r[2]>> : r \in ReadSimple(f.of, acc.rest)})
         ELSE {[acc EXCEPT !.m[f.name] = <<>>]}
    [] f.type = "seq"   -> Keep(acc, f.name, ReadSeq(acc.rest, from))
    [] f.type = "relayed" ->
         Keep(acc, f.name, IF from = "server" THEN ReadVarint(acc.rest) ELSE {<<0, acc.rest>>})
    [] f.type = "count" -> Keep(acc, "count", {n \in ReadVarint(acc.rest) : n[1] >= f.least})
    [] f.type = "chars" -> Keep(acc, f.name, CountedText(f, acc))
    [] OTHER -> Keep(acc, f.name, ReadSimple(f, acc.rest))

ReadGroup(group, s, from) ==
  FoldLeft(LAMBDA accs, f : UNION {ReadItem(f, a, from) : a \in accs},
           {[m |-> <<>>, rest |-> s]}, group)

\* An element takes at least a byte: a count beyond the bytes left runs out of them.
ReadList(f, s, from) ==
  LET element(accs, k) ==
        UNION {{<<Append(a[1], g.m), g.rest>> : g \in ReadGroup(f.group, a[2], from)} : a \in accs}
  IN  UNION {IF n[1] < f.least \/ n[1] > Len(n[2]) THEN {}
             ELSE FoldLeft(element, {<<<<>>, n[2]>>}, [k \in 1..n[1] |-> k]) : n \in ReadVarint(s)}

ReadField(f, acc, from) ==
  IF f.type = "list" THEN Keep(acc, f.name, ReadList(f, acc.rest, from))
  ELSE ReadItem(f, acc, from)

ReadPayload(layout, s, from) ==
  FoldLeft(LAMBDA accs, f : UNION {ReadField(f, a, from) : a \in accs},
           {[m |-> <<>>, rest |-> s]}, layout)

-----------------------------------------------------------------------------
(* The layouts *)

InsertFlags(parent, side) == Flags(<<Opt(Stamp(parent)), Bool(side), Bool("bind")>>)

OpInsert == <<Seq0, InsertFlags("parent", "side"), Stamp("id"), Opt(Stamp("parent")), Num("value")>>

OpInsertRun ==
  <<Seq0, InsertFlags("firstParent", "firstSide"), Stamp("firstId"), Opt(Stamp("firstParent")),
    Count("values", 2), Chars("values")>>

OpDelete == <<Seq0, Stamp("target"), Stamp("id")>>

OpDeleteBatch == <<Seq0, Num("by"), Num("atFirst"), List("targets", 2, <<Stamp("target")>>)>>

OpUndelete == <<Seq0, Stamp("target"), Stamp("id")>>

OpAck == <<List("acks", 0, <<Num("ackSeq"), Stamp("ackedId")>>)>>

OpReject == <<List("rejects", 0, <<Stamp("rejectedId"), Code("reason", 1..7)>>), Text("detail")>>

PresenceUpdate ==
  <<Relayed(Num("replicaId")),
    Flags(<<Opt(Stamp("anchor")), Opt(Stamp("focus")), Bool("collapsed")>>),
    Opt(Stamp("anchor")), Opt(Stamp("focus"))>>

Participant == <<Num("replicaId"), Uuid("userId"), Text("displayName")>>

Role == Code("role", 0..2)

PresenceJoin == Participant \o <<Role>>

PresenceLeave == <<Num("replicaId"), Code("reason", 0..1)>>

PresenceRoster == <<List("participants", 0, Participant \o <<Role>>)>>

Hello ==
  <<Uuid("documentId"), Blob("ticket"), Num("lastServerSeq"),
    List("unacked", 0, <<Stamp("id")>>), Num("clientCapabilities")>>

Welcome ==
  <<Uuid("sessionId"), Num("replicaId"), Role, Num("serverSeq"), Code("syncMode", 0..2),
    List("participants", 0, Participant)>>

Snapshot == <<Num("seq"), Code("form", 0..1), Blob("body")>>

CatchupBegin == <<Num("fromSeq"), Num("toSeq"), Num("totalOps")>>

CatchupChunk == <<Num("throughSeq"), List("ops", 0, <<Blob("frame")>>)>>

CatchupEnd == <<Num("toSeq"), Num("totalOps")>>

AlreadyHave == <<List("alreadyHave", 0, <<Stamp("id")>>)>>

SyncComplete == <<Num("lastServerSeq"), Num("resentCount")>>

PermissionChanged == <<Flags(<<Opt(Role)>>), Opt(Role), Num("effectiveAtSeq")>>

Ping == <<Num("clientTimeMs"), Num("lastAppliedSeq")>>

Pong == <<Num("clientTimeMs"), Num("serverSeq"), Num("serverTimeMs")>>

Leave == <<Num("lastAppliedSeq")>>

Goodbye == <<Code("reason", 0..3), Num("retryAfterMs")>>

Error == <<Octet("code"), Bool("fatal"), Text("message")>>

\* A maximal chain of nodes with consecutive identifiers, each the right child
\* of the one before it and all with the same marks.
SnapshotBlock ==
  <<Flags(<<Opt(Stamp("parent")), Bool("side"), Bool("bind"), Bool("deleted"),
            Opt(Stamp("deletedBy"))>>),
    Stamp("id"), Count("values", 1), Opt(Stamp("parent")), Chars("values"),
    Opt(Stamp("deletedBy"))>>

SnapshotBody == <<List("blocks", 0, SnapshotBlock)>>

-----------------------------------------------------------------------------
(* Frames *)

Version == 1

Kind(channel, type, from, layout) ==
  [channel |-> channel, type |-> type, from |-> from, layout |-> layout]

Both == {"client", "server"}

OpsKinds ==
  [opInsert      |-> Kind(1, 1, Both, OpInsert),
   opInsertRun   |-> Kind(1, 2, Both, OpInsertRun),
   opDelete      |-> Kind(1, 3, Both, OpDelete),
   opDeleteBatch |-> Kind(1, 4, Both, OpDeleteBatch),
   opUndelete    |-> Kind(1, 5, Both, OpUndelete),
   opAck         |-> Kind(1, 16, {"server"}, OpAck),
   opReject      |-> Kind(1, 17, {"server"}, OpReject)]

PresenceKinds ==
  [presenceUpdate |-> Kind(2, 1, Both, PresenceUpdate),
   presenceJoin   |-> Kind(2, 2, {"server"}, PresenceJoin),
   presenceLeave  |-> Kind(2, 3, {"server"}, PresenceLeave),
   presenceRoster |-> Kind(2, 4, {"server"}, PresenceRoster)]

ControlKinds ==
  [hello             |-> Kind(3, 1, {"client"}, Hello),
   welcome           |-> Kind(3, 2, {"server"}, Welcome),
   snapshot          |-> Kind(3, 3, {"server"}, Snapshot),
   catchupBegin      |-> Kind(3, 4, {"server"}, CatchupBegin),
   catchupChunk      |-> Kind(3, 5, {"server"}, CatchupChunk),
   catchupEnd        |-> Kind(3, 6, {"server"}, CatchupEnd),
   alreadyHave       |-> Kind(3, 7, {"server"}, AlreadyHave),
   syncComplete      |-> Kind(3, 8, {"client"}, SyncComplete),
   permissionChanged |-> Kind(3, 9, {"server"}, PermissionChanged),
   error             |-> Kind(3, 10, {"server"}, Error),
   ping              |-> Kind(3, 11, {"client"}, Ping),
   pong              |-> Kind(3, 12, {"server"}, Pong),
   leave             |-> Kind(3, 13, {"client"}, Leave),
   goodbye           |-> Kind(3, 14, {"server"}, Goodbye)]

Kinds == OpsKinds @@ PresenceKinds @@ ControlKinds

Encode(msg, from) ==
  LET k == Kinds[msg.kind]
  IN  <<Version, k.channel, k.type>> \o WritePayload(k.layout, msg.body, from)

\* Mutant: what follows a valid payload is ignored.
NoMore(s) == TRUE

AtEnd(s) == s = <<>>

\* The decoder of the frame's channel (peekChannel), for a frame from that side.
ReadFrame(s, from) ==
  IF Len(s) < 3 \/ s[1] # Version THEN {}
  ELSE UNION {{[kind |-> k, body |-> r.m] :
                 r \in {p \in ReadPayload(Kinds[k].layout, SubSeq(s, 4, Len(s)), from) :
                          AtEnd(p.rest)}} :
              k \in {k \in DOMAIN Kinds : /\ Kinds[k].channel = s[2] /\ Kinds[k].type = s[3]
                                         /\ from \in Kinds[k].from}}

\* An operation of a CATCHUP_CHUNK is a frame of its own, with no number.
DecodeCatchupOperation(s) ==
  {msg \in ReadFrame(s, "client") : msg.kind \in {"opInsert", "opDelete", "opUndelete"}}

Decode(s, from) ==
  {msg \in ReadFrame(s, from) :
     msg.kind = "catchupChunk" =>
       \A i \in DOMAIN msg.body.ops : DecodeCatchupOperation(msg.body.ops[i].frame) # {}}

EncodeStructure(body) == WritePayload(SnapshotBody, body, "server")

DecodeStructure(s) == {r.m : r \in {p \in ReadPayload(SnapshotBody, s, "server") : p.rest = <<>>}}

-----------------------------------------------------------------------------
(* Behaviours *)

\* A client numbers no operation and does not say whose position it reports.
Sends(side, msg) ==
  /\ side \in Kinds[msg.kind].from
  /\ (side = "client" /\ "seq" \in DOMAIN msg.body) => msg.body.seq = 0
  /\ (side = "client" /\ msg.kind = "presenceUpdate") => msg.body.replicaId = 0

Init ==
  /\ message \in Messages /\ fate = "intact"
  /\ reader \in {side \in Both : Sends(side, message)}
  /\ frame = Encode(message, reader)

Cut ==
  /\ fate = "intact"
  /\ \E n \in 0..Len(frame) - 1 : frame' = SubSeq(frame, 1, n)
  /\ fate' = "cut" /\ UNCHANGED <<message, reader>>

Pad ==
  /\ fate = "intact"
  /\ \E b \in Patches : frame' = Append(frame, b)
  /\ fate' = "padded" /\ UNCHANGED <<message, reader>>

Alter ==
  /\ fate = "intact"
  /\ \E i \in DOMAIN frame, b \in Patches : frame[i] # b /\ frame' = [frame EXCEPT ![i] = b]
  /\ fate' = "altered" /\ UNCHANGED <<message, reader>>

\* The frame is taken for one of the other side.
Misdirect ==
  /\ fate = "intact"
  /\ reader' \in Both \ {reader}
  /\ fate' = "misdirected" /\ UNCHANGED <<message, frame>>

Next == Cut \/ Pad \/ Alter \/ Misdirect

Spec == Init /\ [][Next]_vars

-----------------------------------------------------------------------------
(* Properties *)

TypeOK ==
  /\ message.kind \in DOMAIN Kinds
  /\ \A i \in DOMAIN frame : frame[i] \in 0..255
  /\ reader \in Both
  /\ fate \in {"intact", "cut", "padded", "altered", "misdirected"}

\* What one side encodes is what the other decodes, at every boundary of a
\* varint and with every combination of optional fields.
ReadsBack ==
  fate = "intact" =>
    /\ Decode(frame, reader) = {message}
    /\ (message.kind = "snapshot" /\ message.body.form = 1) =>
         {EncodeStructure(b) : b \in DecodeStructure(message.body.body)} = {message.body.body}

\* A frame that lacks its end or has one too many is refused whole; none of its
\* prefixes passes for a shorter message.
DamageRefused == fate \in {"cut", "padded"} => Decode(frame, reader) = {}

\* A message that only the server sends is refused when a client sends it, and
\* so is an operation to which the client gave a sequence number.
ClientsCannotPose ==
  (fate = "misdirected" /\ reader = "client") =>
    \A msg \in Decode(frame, reader) :
      "client" \in Kinds[msg.kind].from /\ ("seq" \in DOMAIN msg.body => msg.body.seq = 0)

\* Whatever a decoder lets through can be encoded again and reads the same: the
\* server relays what it decoded, and the runs and batches it accepts are those
\* an encoder could have written.
AcceptedIsWritable ==
  \A msg \in Decode(frame, reader) : Decode(Encode(msg, reader), reader) = {msg}

\* A decoder tells what an encoder wrote, and nothing else: nothing is lost or misread
\* between two sides that keep to the protocol, and a frame that nobody should have
\* sent is not taken for a message (codec.ts,
\* controlCodec.ts, presenceCodec.ts).
FramesFaithful ==
  /\ TypeOK /\ ReadsBack /\ AcceptedIsWritable
  /\ DamageRefused /\ ClientsCannotPose

=============================================================================
