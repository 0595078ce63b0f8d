------------------------------- MODULE MCWire -------------------------------
(* Messages at the boundaries of their fields, for model checking Wire. *)
EXTENDS Wire

Msg(kind, body) == [kind |-> kind, body |-> body]

Numbers == {0, 127, 128, 300}

Stamps == {<<1, 2>>, <<128, 1>>}

Maybe == {<<>>} \cup {<<s>> : s \in Stamps}

Strings == {<<>>, <<65>>, <<66, 233>>}

Inserts ==
  {Msg("opInsert", [seq |-> n, parent |-> p, side |-> d, bind |-> b, id |-> <<128, 1>>, value |-> v]) :
     n \in {0, 128}, p \in Maybe, d \in BOOLEAN, b \in {FALSE}, v \in {97, 300}}

Runs ==
  {Msg("opInsertRun", [seq |-> 0, firstParent |-> p, firstSide |-> d, bind |-> b, firstId |-> <<1, 2>>,
                       count |-> Len(t), values |-> t]) :
     p \in Maybe, d \in {TRUE}, b \in BOOLEAN, t \in {<<97, 98>>, <<233, 10, 97>>}}

Deletes ==
  {Msg(k, [seq |-> n, target |-> t, id |-> <<3, 1>>]) :
     k \in {"opDelete", "opUndelete"}, n \in {0, 300}, t \in Stamps}
  \cup {Msg("opDeleteBatch", [seq |-> 0, by |-> 1, atFirst |-> 127, targets |-> t]) :
          t \in {<<[target |-> <<1, 2>>], [target |-> <<128, 1>>]>>}}

Answers ==
  {Msg("opAck", [acks |-> a]) : a \in {<<>>, <<[ackSeq |-> 128, ackedId |-> <<1, 1>>]>>}}
  \cup {Msg("opReject", [rejects |-> <<[rejectedId |-> <<1, 1>>, reason |-> 7]>>, detail |-> t]) :
          t \in Strings}

Someone == [replicaId |-> 128, userId |-> <<7, 255>>, displayName |-> <<66, 233>>]

Presences ==
  {Msg("presenceUpdate", [replicaId |-> n, anchor |-> a, focus |-> f, collapsed |-> a = f]) :
     n \in {0, 128}, a \in Maybe, f \in Maybe}
  \cup {Msg("presenceJoin", ("role" :> 2) @@ Someone),
        Msg("presenceLeave", [replicaId |-> 300, reason |-> 1]),
        Msg("presenceRoster", [participants |-> <<("role" :> 0) @@ Someone, ("role" :> 1) @@ Someone>>])}

\* Two chains of nodes, the second one deleted.
Structure ==
  EncodeStructure([blocks |->
    <<[parent |-> <<>>, side |-> TRUE, bind |-> FALSE, deleted |-> FALSE, deletedBy |-> <<>>,
       id |-> <<1, 1>>, count |-> 2, values |-> <<97, 233>>],
      [parent |-> <<<<1, 1>>>>, side |-> FALSE, bind |-> TRUE, deleted |-> TRUE,
       deletedBy |-> <<<<9, 2>>>>, id |-> <<128, 2>>, count |-> 1, values |-> <<98>>]>>])

Operation(msg) == [frame |-> Encode(msg, "client")]

Handshakes ==
  {Msg("hello", [documentId |-> <<1, 2>>, ticket |-> t, lastServerSeq |-> n, unacked |-> u,
                 clientCapabilities |-> 7]) :
     t \in {<<>>, <<200, 1>>}, n \in Numbers, u \in {<<>>, <<[id |-> <<1, 2>>], [id |-> <<128, 2>>]>>}}
  \cup {Msg("welcome", [sessionId |-> <<1, 2>>, replicaId |-> 3, role |-> 1, serverSeq |-> n,
                        syncMode |-> 2, participants |-> p]) :
          n \in Numbers, p \in {<<>>, <<Someone>>}}
  \cup {Msg("snapshot", [seq |-> 128, form |-> 1, body |-> Structure]),
        Msg("snapshot", [seq |-> 0, form |-> 0, body |-> <<>>]),
        Msg("catchupBegin", [fromSeq |-> 1, toSeq |-> 128, totalOps |-> 127]),
        Msg("catchupEnd", [toSeq |-> 128, totalOps |-> 127]),
        Msg("catchupChunk", [throughSeq |-> 2, ops |-> <<>>]),
        Msg("alreadyHave", [alreadyHave |-> <<[id |-> <<128, 2>>]>>]),
        Msg("syncComplete", [lastServerSeq |-> 128, resentCount |-> 0])}
  \cup {Msg("catchupChunk", [throughSeq |-> 2, ops |-> <<Operation(i), Operation(d)>>]) :
          i \in {m \in Inserts : m.body.seq = 0 /\ m.body.value = 97},
          d \in {m \in Deletes : m.kind = "opDelete" /\ m.body.seq = 0}}

Controls ==
  {Msg("permissionChanged", [role |-> r, effectiveAtSeq |-> 128]) : r \in {<<>>, <<0>>, <<2>>}}
  \cup {Msg("ping", [clientTimeMs |-> 300, lastAppliedSeq |-> 0]),
        Msg("pong", [clientTimeMs |-> 300, serverSeq |-> 0, serverTimeMs |-> 128]),
        Msg("leave", [lastAppliedSeq |-> 128]),
        Msg("goodbye", [reason |-> 3, retryAfterMs |-> 300]),
        Msg("error", [code |-> 255, fatal |-> TRUE, message |-> <<66, 233>>])}

MCMessages == Inserts \cup Runs \cup Deletes \cup Answers \cup Presences \cup Handshakes \cup Controls
=============================================================================
