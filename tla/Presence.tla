------------------------------ MODULE Presence ------------------------------
(***************************************************************************)
(* Who is in a document, and where: the presence room of the server        *)
(* (packages/server/src/presenceManager.ts), the heartbeat that empties it *)
(* (heartbeat.ts), the presence lane of each connection (sendQueues.ts),   *)
(* and on the other side the life of a connection and its pings            *)
(* (packages/client/src/sync/syncClient.ts, gapTracker.ts), the coalescing *)
(* of caret moves (sync/presence.ts) and the overlay that shows the others *)
(* (presence/presenceOverlay.ts).                                          *)
(*                                                                         *)
(* Time is discrete and the timers are punctual: the clock waits for those *)
(* that are due.  Frames take any time.  A frame leaves its lane when the  *)
(* client handles it; a ping and its pong are one step.  Nobody edits the  *)
(* document, so that pongs and handshakes are all a client hears from the  *)
(* server but presence frames.  A session stands                           *)
(* for its socket, its session id and its replica id, none of which is     *)
(* ever used twice.  A caret is known by the moves the bound still allowed *)
(* when it was put there.                                                  *)
(***************************************************************************)
EXTENDS Naturals, FiniteSets, SequencesExt

CONSTANTS
  Clients,
  Coalesce,   \* COALESCE_MS
  Window,     \* windowMs of PRESENCE_SERVER_RULE, HARD_CAP_WINDOW_MS
  MaxUpdates, \* max of PRESENCE_SERVER_RULE, MAX_UPDATES_PER_SECOND
  PingEvery,  \* PING_INTERVAL_MS
  Gap,        \* GAP_RECONNECT_TIMEOUT_MS
  Stale,      \* PRESENCE_STALE_MS
  MaxSessions, MaxMoves,  \* bounds
  Budgets     \* bounds: how often what may happen, each a possible mix, see Init

\* The code's constants: 20 updates, 50 ms apart, fill the window of 1000 ms.
ASSUME PresenceAssumption ==
  /\ {Coalesce, Window, MaxUpdates, PingEvery, Gap, Stale} \subseteq Nat \ {0}
  /\ MaxUpdates * Coalesce >= Window
  /\ MaxSessions \in Nat /\ MaxMoves \in Nat
  /\ Budgets \subseteq [who : SUBSET Clients, sessions : 0..MaxSessions, moves : 0..MaxMoves,
                        losses : Nat, clogs : Nat, quits : Nat, ticks : Nat]

VARIABLES
  now,
  room,     \* sessions in the room's participants and senders
  conn,     \* the server's side of each connection
  client,   \* each client
  caret,    \* the last position relayed for each session, 0 for none
  budget    \* what the bounds still allow

vars == <<now, room, conn, client, caret, budget>>

Sessions == 1..MaxSessions
Nobody == 0

NoConn ==
  [owner |-> Nobody, stage |-> "none", open |-> FALSE,
   timers |-> {}, pingAt |-> 0, stale |-> FALSE,  \* heartbeat
   hits |-> {},                                   \* rate limiter: which of relayed count
   lane |-> <<>>, clogged |-> FALSE,              \* presence queue, socket
   up |-> <<>>,                                   \* frames under way to the server
   seen |-> [r \in Sessions |-> 0],  \* the carets when its roster was written
   lost |-> FALSE,                   \* a frame of its lane was shed
   relayed |-> <<>>, late |-> FALSE, refused |-> FALSE]  \* its updates

NoClient ==
  [state |-> "offline", wants |-> FALSE, ws |-> Nobody,
   fetches |-> 0, retry |-> FALSE,         \* tickets asked for, reconnect timer
   pingDue |-> {}, aliveAt |-> 0,          \* ping timer, gap tracker
   resident |-> FALSE,                     \* it has an engine
   closing |-> FALSE,                      \* it has called close() on its socket
   heardAt |-> 0,                          \* when its socket was opened or last gave a sign of life
   overlay |-> [r \in {} |-> 0],           \* carets of the participants shown
   pending |-> 0, flushAt |-> {}, sentAt |-> {}]  \* coalescer

Init ==
  /\ now = 0 /\ room = {}
  /\ conn = [r \in Sessions |-> NoConn]
  /\ client = [c \in Clients |-> NoClient]
  /\ caret = [r \in Sessions |-> 0]
  /\ budget \in Budgets

Spend(what) ==
  /\ budget[what] > 0
  /\ budget' = [budget EXCEPT ![what] = @ - 1]

\* Timers are the sets of the times they fire at.
Due(timers) == \E t \in timers : t <= now

-----------------------------------------------------------------------------
(* Lanes, room and limiter *)

\* shedForBackpressure(): whatever the newest frame is.
ShedForBackpressure(lane) == IF lane = <<>> THEN lane ELSE Front(lane)

\* queues.enqueue("presence", frame)
Enqueue(k, frame) ==
  IF ~k.open THEN k
  ELSE IF ~k.clogged THEN [k EXCEPT !.lane = Append(@, frame)]
  ELSE [k EXCEPT !.lane = Append(ShedForBackpressure(@), frame), !.lost = @ \/ k.lane # <<>>]

\* broadcastExcept(), to the members of a room
Broadcast(ks, members, except, frame) ==
  [r \in Sessions |-> IF r \in members \ {except} THEN Enqueue(ks[r], frame) ELSE ks[r]]

\* Mutant: a hit counts for a window, its end included.
HitsLonger(k) == {i \in k.hits : k.relayed[i] + Window >= now}

\* consume(): the hits of a session that still count.
Hits(k) == {i \in k.hits : k.relayed[i] + Window > now}

\* The times of the updates that count for the coalescer's cap; no two are sent
\* at one time.
SentLately(sentAt) == {t \in sentAt : now - t < Window}

\* PresenceRoom.leave(), when all else the step changes in conn is ks
Leave(ks, r) ==
  /\ room' = room \ {r}
  /\ conn' = IF r \in room THEN Broadcast(ks, room, r, [kind |-> "leave", of |-> r]) ELSE ks

\* Mutant: the timer that runs already is left to fire.
ArmAnother(k) == [k EXCEPT !.timers = @ \cup {now + Stale}]

\* armPresenceStaleTimer()
Arm(k) == [k EXCEPT !.timers = {now + Stale}]

-----------------------------------------------------------------------------
(* The client's connection *)

Opened == {r \in Sessions : conn[r].stage # "none"}

Updated(c, rec) == client' = [client EXCEPT ![c] = rec]

\* connect()
Connect(c) ==
  /\ ~client[c].wants /\ c \in budget.who
  /\ Updated(c, [client[c] EXCEPT !.wants = TRUE, !.state = "connecting", !.fetches = @ + 1])
  /\ UNCHANGED <<now, room, conn, caret, budget>>

\* clearPerConnectionTimers(), clearAllTimers()
ClearPerConnectionTimers(k) == [k EXCEPT !.pingDue = {}]

ClearAllTimers(k) == [ClearPerConnectionTimers(k) EXCEPT !.retry = FALSE]

\* disconnect().  A ticket that is being fetched is not given up.
Disconnect(c) ==
  /\ client[c].wants
  /\ Updated(c, [ClearAllTimers(client[c]) EXCEPT !.wants = FALSE, !.state = "offline", !.ws = Nobody,
                                                  !.closing = FALSE, !.pending = 0, !.flushAt = {}])
  /\ Spend("quits") /\ UNCHANGED <<now, room, conn, caret>>

\* openSocketNow(), when the ticket arrives or fails to: a new socket, which
\* the client takes for its own whatever it had.
OpenSocketNow(c) ==
  /\ client[c].fetches > 0 /\ Spend("sessions")
  /\ LET r == Cardinality(Opened) + 1
     IN  /\ Updated(c, [client[c] EXCEPT !.fetches = @ - 1, !.ws = r, !.closing = FALSE,
                                            !.heardAt = now])
         /\ conn' = [conn EXCEPT ![r].owner = c, ![r].stage = "new", ![r].open = TRUE]
  /\ UNCHANGED <<now, room, caret>>

Closed(k) ==
  [ClearPerConnectionTimers(k) EXCEPT !.ws = Nobody, !.closing = FALSE, !.retry = k.wants,
                                      !.state = IF k.wants THEN "reconnecting" ELSE "offline"]

\* onClose() of a socket that close() was called on: when the server answers,
\* or when the browser waits no longer.
CloseEvent(c) ==
  /\ client[c].closing
  /\ Updated(c, Closed(client[c]))
  /\ UNCHANGED <<now, room, conn, caret, budget>>

\* onClose(): the client loses its socket.
SocketLost(c) ==
  /\ client[c].ws # Nobody /\ Spend("losses")
  /\ Updated(c, Closed(client[c]))
  /\ UNCHANGED <<now, room, conn, caret>>

\* scheduleReconnect()'s timer; the delay is a random part of the backoff.
Retry(c) ==
  /\ client[c].retry
  /\ Updated(c, [client[c] EXCEPT !.retry = FALSE, !.fetches = @ + 1])
  /\ UNCHANGED <<now, room, conn, caret, budget>>

\* SequenceGapTracker: markAlive(), hasStalled()
MarkAlive(k) == [k EXCEPT !.aliveAt = now]

HasStalled(k) == now - k.aliveAt >= Gap

\* this.ws?.send(): without a socket, or on one that is closing, nothing.
Send(k, frame) ==
  IF k.ws = Nobody \/ k.closing THEN conn ELSE [conn EXCEPT ![k.ws].up = Append(@, frame)]

\* finishHandshakeAfterAlreadyHave(): the first ping is an interval away.  A
\* snapshot, which one without an engine is sent, and a catch-up that brings
\* something, renew the gap tracker (new); one who has everything already
\* (ALREADY_CURRENT) goes on with the time it had.
Synced(c) ==
  /\ client[c].ws # Nobody /\ conn[client[c].ws].stage = "live" /\ client[c].state # "synced"
  /\ \E new \in BOOLEAN :
       /\ new \/ client[c].resident
       /\ Updated(c, [(IF new THEN MarkAlive(client[c]) ELSE client[c]) EXCEPT
                        !.resident = TRUE, !.heardAt = now,
                        !.state = "synced", !.pingDue = {now + PingEvery}])
  /\ UNCHANGED <<now, room, conn, caret, budget>>

\* Mutant: the tick that finds the connection stalled leaves it be.
StallIgnored(k) == [k EXCEPT !.pingDue = {now + PingEvery}]

\* ws.close(): nothing is sent or heard any more, but the socket is the
\* client's, and its timer goes on, until the close event.
CloseStalled(k) == [k EXCEPT !.closing = TRUE, !.pingDue = {now + PingEvery}]

\* startPingTimer(): a connection that has been silent for too long is closed.
PingTimer(c) ==
  LET k == client[c]
  IN  /\ Due(k.pingDue)
      /\ IF HasStalled(k)
         THEN Updated(c, CloseStalled(k)) /\ conn' = conn
         ELSE /\ Updated(c, [k EXCEPT !.pingDue = {now + PingEvery}])
              /\ conn' = Send(k, [kind |-> "ping"])
      /\ UNCHANGED <<now, room, caret, budget>>

-----------------------------------------------------------------------------
(* Caret moves *)

\* PresenceUpdateCoalescer.update()
Move(c) ==
  /\ client[c].wants
  /\ Updated(c, [client[c] EXCEPT !.pending = budget.moves,
                                  !.flushAt = IF @ = {} THEN {now + Coalesce} ELSE @])
  /\ Spend("moves") /\ UNCHANGED <<now, room, conn, caret>>

\* flush(); an update that goes nowhere counts as well.
Flush(c) ==
  LET k    == client[c]
      sent == SentLately(k.sentAt)
      idle == [k EXCEPT !.flushAt = {}, !.pending = 0, !.sentAt = sent]
  IN  /\ Due(k.flushAt)
      /\ IF Cardinality(sent) >= MaxUpdates
         THEN Updated(c, idle) /\ conn' = conn
         ELSE /\ Updated(c, [idle EXCEPT !.sentAt = @ \cup {now}])
              /\ conn' = Send(k, [kind |-> "update", caret |-> k.pending, sent |-> now])
      /\ UNCHANGED <<now, room, caret, budget>>

-----------------------------------------------------------------------------
(* The server *)

\* PresenceRoom.join(), when the session's own record becomes k.
JoinRoom(r, k) ==
  /\ conn' = [Broadcast(conn, room, r, [kind |-> "join", of |-> r]) EXCEPT ![r] = k]
  /\ room' = room \cup {r}

\* The role is known: the others hear of the session, the room takes it in and
\* the heartbeat starts.  Nobody looks whether the socket is still there.
Join(r) ==
  /\ conn[r].stage = "new"
  /\ JoinRoom(r, Arm([conn[r] EXCEPT !.stage = "joined", !.pingAt = now]))
  /\ UNCHANGED <<now, client, caret, budget>>

\* sendRoster(), the end of the handshake; none for a session that has gone
\* stale in the meantime.
SendRoster(r) ==
  /\ conn[r].stage = "joined"
  /\ LET roster == [kind |-> "roster", members |-> room]
         k == [conn[r] EXCEPT !.stage = "live", !.seen = caret]
     IN  conn' = [conn EXCEPT ![r] = IF r \in room THEN Enqueue(k, roster) ELSE k]
  /\ UNCHANGED <<now, room, client, caret, budget>>

\* onPingReceived(), and the pong: the session is not stale any more, but it
\* does not come back into the room.
HandlePing(r) ==
  LET k == conn[r]
      c == k.owner
  IN  /\ conn' = [conn EXCEPT ![r] = Arm([k EXCEPT !.pingAt = now, !.stale = FALSE, !.up = Tail(@)])]
      /\ client' = IF client[c].ws = r /\ ~client[c].closing /\ k.open
                   THEN [client EXCEPT ![c] = [MarkAlive(@) EXCEPT !.heardAt = now]] ELSE client
      /\ UNCHANGED <<room, caret>>

\* handleUpdate()
HandleUpdate(r, frame) ==
  LET hits == Hits(conn[r])
      k    == [conn[r] EXCEPT !.up = Tail(@), !.late = @ \/ (r \in room /\ now > frame.sent)]
  IN  /\ IF r \notin room
         THEN conn' = [conn EXCEPT ![r] = k] /\ caret' = caret
         ELSE IF Cardinality(hits) >= MaxUpdates
         THEN conn' = [conn EXCEPT ![r] = [k EXCEPT !.hits = hits, !.refused = TRUE]] /\ caret' = caret
         ELSE /\ conn' = Broadcast([conn EXCEPT ![r] = [k EXCEPT !.hits = hits \cup {Len(k.relayed) + 1},
                                                                !.relayed = Append(@, now)]],
                                   room, r, [kind |-> "update", of |-> r, caret |-> frame.caret])
              /\ caret' = [caret EXCEPT ![r] = frame.caret]
      /\ UNCHANGED <<room, client>>

\* A frame of the client, once the handshake has bound the connection.
Hear(r) ==
  /\ conn[r].open /\ conn[r].stage \in {"joined", "live"} /\ conn[r].up # <<>>
  /\ LET frame == Head(conn[r].up)
     IN  \/ frame.kind = "ping" /\ HandlePing(r)
         \/ frame.kind = "update" /\ HandleUpdate(r, frame)
  /\ UNCHANGED <<now, budget>>

\* closeMalformed(): any frame that comes while the handshake is waiting is
\* taken for its first, and it is not HELLO.  The client loses its socket.
TooEarly(r) ==
  /\ conn[r].stage = "new" /\ conn[r].up # <<>>
  /\ conn' = [conn EXCEPT ![r].up = <<>>]
  /\ LET c == conn[r].owner
     IN  client' = IF client[c].ws = r THEN [client EXCEPT ![c] = Closed(@)] ELSE client
  /\ UNCHANGED <<now, room, caret, budget>>

\* The stale timer fires: markPresenceStale()
GoStale(r) ==
  /\ \E t \in conn[r].timers :
       /\ t <= now
       /\ Leave([conn EXCEPT ![r].stale = TRUE, ![r].timers = @ \ {t}], r)
  /\ UNCHANGED <<now, client, caret, budget>>

\* The close event.  A handshake that is under way goes on without a socket.
Close(r) ==
  /\ conn[r].open
  /\ client[conn[r].owner].ws # r \/ client[conn[r].owner].closing
  /\ IF conn[r].stage = "new"
     THEN conn' = [conn EXCEPT ![r].open = FALSE, ![r].up = <<>>] /\ room' = room
     ELSE Leave([conn EXCEPT ![r] = [NoConn EXCEPT !.owner = conn[r].owner, !.stage = "gone"]], r)
  /\ UNCHANGED <<now, client, caret, budget>>

\* bufferedAmount passes the threshold, or falls below it.
Clog(r) ==
  /\ conn[r].open
  /\ \/ conn[r].clogged /\ UNCHANGED budget
     \/ ~conn[r].clogged /\ Spend("clogs")
  /\ conn' = [conn EXCEPT ![r].clogged = ~@]
  /\ UNCHANGED <<now, room, client, caret>>

-----------------------------------------------------------------------------
(* The overlay *)

\* Mutant: a roster is added to what is shown.
RosterAdds(overlay, frame) ==
  CASE frame.kind = "roster" -> [r \in DOMAIN overlay \cup frame.members |-> 0]
    [] frame.kind = "join"   -> [r \in DOMAIN overlay \cup {frame.of} |->
                                   IF r = frame.of THEN 0 ELSE overlay[r]]
    [] frame.kind = "leave"  -> [r \in DOMAIN overlay \ {frame.of} |-> overlay[r]]
    [] frame.kind = "update" -> [r \in DOMAIN overlay |-> IF r = frame.of THEN frame.caret ELSE overlay[r]]

\* handlePresenceEvent(): 0 for a participant without a position.
HandlePresenceEvent(overlay, frame) ==
  CASE frame.kind = "roster" -> [r \in frame.members |-> 0]
    [] frame.kind = "join"   -> [r \in DOMAIN overlay \cup {frame.of} |->
                                   IF r = frame.of THEN 0 ELSE overlay[r]]
    [] frame.kind = "leave"  -> [r \in DOMAIN overlay \ {frame.of} |-> overlay[r]]
    [] frame.kind = "update" -> [r \in DOMAIN overlay |-> IF r = frame.of THEN frame.caret ELSE overlay[r]]

\* A presence frame arrives; one from a socket that is not the client's any
\* more, or that it has called close() on, is ignored.
Deliver(r) ==
  LET c == conn[r].owner
  IN  /\ conn[r].lane # <<>>
      /\ conn' = [conn EXCEPT ![r].lane = Tail(@)]
      /\ client' = IF client[c].ws # r \/ client[c].closing THEN client
                   ELSE [client EXCEPT ![c].overlay = HandlePresenceEvent(@, Head(conn[r].lane))]
      /\ UNCHANGED <<now, room, caret, budget>>

Tick ==
  /\ \A c \in Clients : ~Due(client[c].flushAt) /\ ~Due(client[c].pingDue)
  /\ \A r \in Sessions : ~Due(conn[r].timers)
  /\ now' = now + 1 /\ Spend("ticks")
  /\ UNCHANGED <<room, conn, client, caret>>

Next ==
  \/ \E c \in Clients :
       \/ Connect(c) \/ Disconnect(c) \/ OpenSocketNow(c) \/ SocketLost(c) \/ CloseEvent(c)
       \/ Retry(c)
       \/ Synced(c) \/ PingTimer(c) \/ Move(c) \/ Flush(c)
  \/ \E r \in Sessions :
       \/ Join(r) \/ SendRoster(r) \/ Hear(r) \/ TooEarly(r) \/ GoStale(r) \/ Close(r)
       \/ Clog(r) \/ Deliver(r)
  \/ Tick

Spec == Init /\ [][Next]_vars
-----------------------------------------------------------------------------
(* Properties *)

Moves == 0..MaxMoves

TypeOK ==
  /\ now \in Nat /\ room \subseteq Sessions
  /\ \A r \in room : conn[r].stage \in {"joined", "live"}
  /\ \A r \in Sessions :
       LET k == conn[r]
       IN  /\ k.stage \in {"none", "new", "joined", "live", "gone"}
           /\ k.timers \subseteq Nat /\ k.stale \in BOOLEAN
           /\ k.lane # <<>> => k.open
           /\ caret[r] \in Moves
  /\ \A c \in Clients :
       LET k == client[c]
       IN  /\ k.state \in {"offline", "connecting", "reconnecting", "synced"}
           /\ k.ws \in {Nobody} \cup Opened
           /\ k.closing => k.ws # Nobody
           /\ \A r \in DOMAIN k.overlay : k.overlay[r] \in Moves
           /\ k.pending \in Moves /\ k.flushAt \cup k.pingDue \subseteq Nat

\* What is shown once the frames of a lane have been handled.
Shown(overlay, lane) ==
  LET after[n \in 0..Len(lane)] ==
        IF n = 0 THEN overlay ELSE HandlePresenceEvent(after[n - 1], lane[n])
  IN  after[Len(lane)]

\* What a client shows follows the room: once the frames in its lane have been
\* handled, it shows exactly the sessions in the room, itself included, and
\* each of them where its last update put it, unless that update is older than
\* the roster.  It does so through every reconnection, but only for a session
\* that is in the room, and while no frame of its lane has been shed
\* (presenceManager.ts:61-111, sendQueues.ts:61-81, presenceOverlay.ts:126-180).
OverlayFollowsRoom ==
  \A r \in room :
    LET c == conn[r].owner
        shown == Shown(client[c].overlay, conn[r].lane)
    IN  conn[r].stage = "live" /\ conn[r].open /\ ~conn[r].lost /\ client[c].ws = r /\ ~client[c].closing
          => /\ DOMAIN shown = room
             /\ \A q \in room \ {r} :
                  shown[q] = IF caret[q] = conn[r].seen[q] THEN 0 ELSE caret[q]

\* No window of the clock holds more than MaxUpdates relayed updates of a
\* session, wherever it starts.
RateHeld ==
  \A r \in Sessions :
    \A t \in 0..now :
      LET At(i) == conn[r].relayed[i]
          within == {i \in DOMAIN conn[r].relayed : t <= At(i) /\ At(i) < t + Window}
      IN  Cardinality(within) <= MaxUpdates

\* An update is refused only if one of that session was under way for a while:
\* what the coalescer lets through, the limiter lets through.
OnTimeIsRelayed == \A r \in Sessions : conn[r].refused => conn[r].late

\* A session is marked stale only when nothing was heard for Stale, and one that
\* was not heard for longer is not in the room, whoever forgot to close it.
SilenceNoticed ==
  \A r \in Sessions :
    /\ conn[r].stale => now - conn[r].pingAt >= Stale
    /\ r \in room => now - conn[r].pingAt <= Stale

\* A client that is synced and has heard nothing on its connection for Gap and
\* another interval, since it was opened, has called close() on it.
StallNoticed ==
  \A c \in Clients :
    client[c].state = "synced" /\ ~client[c].closing => now - client[c].heardAt <= Gap + PingEvery

\* The room is right about time: its rate and its silences
\* (presenceManager.ts:123-141, rateLimiter.ts:31-49, sync/presence.ts:46-72,
\* heartbeat.ts:29-77, syncClient.ts:1833-1846).
RoomIsTimely == TypeOK /\ RateHeld /\ OnTimeIsRelayed /\ SilenceNoticed /\ StallNoticed

\* Refuted.  A client calls close() only on a connection it has heard nothing on
\* for Gap: "a real stall still reaches hasStalled() correctly; only the
\* 'nothing to say, but still listening' case no longer does" (gapTracker.ts:108-111).
StallIsReal == \A c \in Clients : client[c].closing => now - client[c].heardAt >= Gap

\* Refuted.  The overlay tracks "a roster of OTHER participants"
\* (presenceOverlay.ts:67), and their count decides its density (line 24).
OverlayShowsOthers == \A c \in Clients : client[c].ws \notin DOMAIN client[c].overlay
=============================================================================
