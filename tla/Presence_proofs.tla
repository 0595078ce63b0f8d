-------------------------- MODULE Presence_proofs --------------------------
(***************************************************************************)
(* Proofs about presence: what a client shows follows the room, and the    *)
(* room is right about time, for any clients, windows, intervals and       *)
(* bounds.                                                                 *)
(***************************************************************************)
EXTENDS Presence, FiniteSetTheorems, TLAPS

-----------------------------------------------------------------------------
(* The inductive invariant: types *)

Overlay == UNION {[S -> Moves] : S \in SUBSET Sessions}

Event ==
  [kind : {"roster"}, members : SUBSET Sessions]
  \cup [kind : {"join", "leave"}, of : Sessions]
  \cup [kind : {"update"}, of : Sessions, caret : Moves]

Frame == [kind : {"ping"}] \cup [kind : {"update"}, caret : Moves \ {0}, sent : Nat]

Connection ==
  [owner : Clients \cup {Nobody}, stage : {"none", "new", "joined", "live", "gone"},
   open : BOOLEAN, timers : SUBSET Nat, pingAt : Nat, stale : BOOLEAN, hits : SUBSET Nat,
   lane : Seq(Event), clogged : BOOLEAN, up : Seq(Frame), seen : [Sessions -> Moves],
   lost : BOOLEAN, relayed : Seq(Nat), late : BOOLEAN, refused : BOOLEAN]

Person ==
  [state : {"offline", "connecting", "reconnecting", "synced"}, wants : BOOLEAN,
   ws : {Nobody} \cup Sessions, fetches : Nat, retry : BOOLEAN, pingDue : SUBSET Nat,
   resident : BOOLEAN, closing : BOOLEAN, heardAt : Nat,
   aliveAt : Nat, overlay : Overlay, pending : Moves, flushAt : SUBSET Nat, sentAt : SUBSET Nat]

Budget == [who : SUBSET Clients, sessions : 0..MaxSessions, moves : Moves,
           losses : Nat, clogs : Nat, quits : Nat, ticks : Nat]

Types ==
  /\ now \in Nat /\ room \subseteq Sessions
  /\ conn \in [Sessions -> Connection]
  /\ client \in [Clients -> Person]
  /\ caret \in [Sessions -> Moves]
  /\ budget \in Budget

\* Sessions are opened in their order, and what is not open is as it was made.
Openings ==
  \E n \in 0..MaxSessions :
    /\ n + budget.sessions <= MaxSessions
    /\ \A r \in Sessions : conn[r].stage = "none" <=> r > n

Unopened ==
  \A r \in Sessions :
    /\ conn[r].stage = "none" => conn[r] = NoConn
    /\ conn[r].stage # "none" => conn[r].owner \in Clients
    /\ conn[r].stage \in {"none", "new"} => r \notin room /\ caret[r] = 0

\* A session leaves the room for good, and only an open one has anything in its
\* lane.
Places ==
  \A r \in Sessions :
    /\ r \in room => conn[r].stage \in {"joined", "live"}
    /\ conn[r].lane # <<>> => conn[r].open
    /\ conn[r].stage = "new" => conn[r].lane = <<>>

Sockets ==
  \A c \in Clients :
    /\ client[c].ws # Nobody =>
         conn[client[c].ws].stage # "none" /\ conn[client[c].ws].owner = c
    /\ client[c].closing \/ client[c].pingDue # {} => client[c].ws # Nobody

Shape == Types /\ Openings /\ Unopened /\ Places /\ Sockets

-----------------------------------------------------------------------------
(* The inductive invariant: carets *)

\* Where the caret updates stand among the frames under way of a session.
Updates(r) == {i \in DOMAIN conn[r].up : conn[r].up[i].kind = "update"}

\* A caret on its way is newer than the one relayed last and than what is behind
\* it, and those still to be put are newer than all of them.
CaretsInOrder(r) ==
  /\ \A i \in Updates(r) :
       /\ conn[r].up[i].caret > budget.moves
       /\ caret[r] # 0 => conn[r].up[i].caret < caret[r]
  /\ \A i, j \in Updates(r) : i < j => conn[r].up[j].caret < conn[r].up[i].caret
  /\ caret[r] # 0 => caret[r] > budget.moves

PendingIsNewest(c) ==
  client[c].flushAt # {} =>
    /\ client[c].pending > budget.moves
    /\ \A r \in Sessions : conn[r].owner = c =>
         /\ \A i \in Updates(r) : client[c].pending < conn[r].up[i].caret
         /\ caret[r] # 0 => client[c].pending < caret[r]

\* What a roster said of a caret is what it was then.
SeenBefore ==
  \A r, q \in Sessions :
    conn[r].seen[q] # 0 => caret[q] # 0 /\ caret[q] <= conn[r].seen[q]

Carets ==
  /\ \A r \in Sessions : CaretsInOrder(r)
  /\ \A c \in Clients : PendingIsNewest(c)
  /\ SeenBefore

-----------------------------------------------------------------------------
(* The inductive invariant: time *)

\* A session has a timer, and it is set when it was last heard.
Heard(r) ==
  /\ conn[r].pingAt <= now
  /\ \A t \in conn[r].timers : t >= now /\ t = conn[r].pingAt + Stale
  /\ conn[r].stage \in {"none", "new"} => conn[r].timers = {} /\ ~conn[r].stale
  /\ r \in room => conn[r].pingAt + Stale \in conn[r].timers
  /\ conn[r].stale => conn[r].pingAt + Stale <= now

Silences == \A r \in Sessions : Heard(r)

\* A client that is synced has a ping to send, or close() to call, before nothing
\* was heard on its connection for Gap and an interval.
Pinging(c) ==
  /\ client[c].aliveAt <= client[c].heardAt /\ client[c].heardAt <= now
  /\ client[c].state = "synced" =>
       \E d \in client[c].pingDue :
         /\ now <= d /\ d <= now + PingEvery
         /\ client[c].closing \/ d <= client[c].heardAt + Gap + PingEvery

Stalls == \A c \in Clients : Pinging(c)

\* The limiter counts what was relayed lately, which is never too much.
Limited(r) ==
  LET k == conn[r]
  IN  /\ k.hits \subseteq DOMAIN k.relayed
      /\ \A i \in DOMAIN k.relayed :
           k.relayed[i] <= now /\ (k.relayed[i] + Window > now => i \in k.hits)

\* The updates of a session that was never late are as far apart as the coalescer
\* sends them.
Apart(r) ==
  LET k == conn[r]
  IN  /\ \A i \in Updates(r) : k.up[i].sent <= now
      /\ \A i, j \in Updates(r) : i < j => k.up[i].sent + Coalesce <= k.up[j].sent
      /\ ~k.late =>
           /\ \A i, j \in DOMAIN k.relayed : i <= j =>
                k.relayed[i] + (j - i) * Coalesce <= k.relayed[j]
           /\ \A i \in DOMAIN k.relayed, j \in Updates(r) : k.relayed[i] + Coalesce <= k.up[j].sent

NextApart(c) ==
  \A d \in client[c].flushAt, r \in Sessions : conn[r].owner = c =>
    /\ \A i \in Updates(r) : conn[r].up[i].sent + Coalesce <= d
    /\ ~conn[r].late => \A i \in DOMAIN conn[r].relayed : conn[r].relayed[i] + Coalesce <= d

\* Which updates of a record fall into a window.
Within(record, t) == {i \in DOMAIN record : t <= record[i] /\ record[i] < t + Window}

\* The two properties it is for: the rate, and that nothing is refused that was
\* on time.
Rated(r) ==
  LET k == conn[r]
  IN  /\ \A t \in 0..now : Cardinality(Within(k.relayed, t)) <= MaxUpdates
      /\ k.refused => k.late

Paces ==
  /\ \A r \in Sessions : Limited(r) /\ Apart(r) /\ Rated(r)
  /\ \A c \in Clients : NextApart(c)

-----------------------------------------------------------------------------
(* What a lane adds up to *)

\* A set of numbers that is not empty has a least one.
LEMMA LeastNatural ==
  ASSUME NEW T \in SUBSET Nat, T # {}
  PROVE  \E x \in T : \A y \in T : x <= y
<1> DEFINE R == {p \in Nat \X Nat : p[1] < p[2]}
<1>1. IsWellFoundedOn(R, Nat)
  BY NatLessThanWellFounded DEF OpToRel
<1>2. \A x, y \in Nat : <<y, x>> \in R <=> y < x
  OBVIOUS
<1>3. PICK x \in T : \A y \in T : ~(<<y, x>> \in R)
  <2> HIDE DEF R
  <2> QED
    BY <1>1, WFMin
<1>4. \A y \in T : y \in Nat /\ ~(y < x)
  BY <1>2, <1>3
<1> HIDE DEF R
<1> QED
  BY <1>4

\* after is what is shown after each frame of a lane.
Follows(after, overlay, lane) ==
  after = [n \in 0..Len(lane) |->
             IF n = 0 THEN overlay ELSE HandlePresenceEvent(after[n - 1], lane[n])]

\* It exists.
LEMMA FollowsExists ==
  ASSUME NEW S, NEW lane \in Seq(S), NEW overlay
  PROVE  \E after : Follows(after, overlay, lane)
<1> DEFINE Steps(after, n) ==
             after = [m \in 0..n |-> IF m = 0 THEN overlay
                                     ELSE HandlePresenceEvent(after[m - 1], lane[m])]
           Bad == {n \in Nat : \A after : ~Steps(after, n)}
<1>1. Bad = {}
  <2> SUFFICES ASSUME Bad # {} PROVE FALSE
    OBVIOUS
  <2>1. PICK n \in Bad : \A m \in Bad : n <= m
    <3>1. Bad \in SUBSET Nat
      OBVIOUS
    <3> HIDE DEF Bad
    <3> QED
      BY <3>1, LeastNatural
  <2>2. CASE n = 0
    <3> DEFINE first == [m \in 0..0 |-> overlay]
    <3>1. \A m \in 0..0 : first[m] = IF m = 0 THEN overlay
                                     ELSE HandlePresenceEvent(first[m - 1], lane[m])
      OBVIOUS
    <3>2. Steps(first, 0)
      <4>1. first = [m \in 0..0 |-> first[m]]
        OBVIOUS
      <4> HIDE DEF first
      <4> QED
        BY <3>1, <4>1
    <3> QED
      BY <2>1, <2>2, <3>2
  <2>3. CASE n # 0
    <3>1. n - 1 \in Nat /\ n - 1 \notin Bad
      <4>1. n \in Nat
        OBVIOUS
      <4>2. n - 1 \in Nat /\ ~(n <= n - 1)
        BY <2>3, <4>1
      <4> HIDE DEF Bad
      <4> QED
        BY <2>1, <4>2
    <3>2. PICK before : Steps(before, n - 1)
      BY <3>1
    <3> DEFINE next == [m \in 0..n |-> IF m = n THEN HandlePresenceEvent(before[n - 1], lane[n])
                                       ELSE before[m]]
    <3>3. \A m \in 0..n : m # n => m \in 0..n - 1 /\ next[m] = before[m]
      OBVIOUS
    <3>4. \A m \in 0..n : m # 0 => m - 1 \in 0..n - 1 /\ next[m - 1] = before[m - 1]
      OBVIOUS
    <3>5. \A m \in 0..n - 1 :
             before[m] = IF m = 0 THEN overlay ELSE HandlePresenceEvent(before[m - 1], lane[m])
      BY <3>2
    <3>6. \A m \in 0..n :
             next[m] = IF m = 0 THEN overlay ELSE HandlePresenceEvent(next[m - 1], lane[m])
      <4> TAKE m \in 0..n
      <4>1. CASE m = n
        <5>1. next[m] = HandlePresenceEvent(before[n - 1], lane[n])
          BY <4>1
        <5>2. next[m - 1] = before[n - 1]
          BY <2>3, <3>4, <4>1
        <5> QED
          BY <2>3, <4>1, <5>1, <5>2
      <4>2. CASE m # n
        BY <3>3, <3>4, <3>5, <4>2
      <4> QED
        BY <4>1, <4>2
    <3>7. Steps(next, n)
      <4> HIDE DEF next
      <4>1. next = [m \in 0..n |-> next[m]]
        BY DEF next
      <4> QED
        BY <3>6, <4>1
    <3> QED
      BY <2>1, <3>7
  <2> QED
    BY <2>2, <2>3
<1>2. Len(lane) \in Nat
  OBVIOUS
<1>3. PICK after : Steps(after, Len(lane))
  BY <1>1, <1>2
<1> QED
  BY <1>3 DEF Follows

\* Two that follow the same lane agree about its end.
LEMMA FollowsUnique ==
  ASSUME NEW S, NEW lane \in Seq(S), NEW overlay, NEW f, NEW g,
         Follows(f, overlay, lane), Follows(g, overlay, lane)
  PROVE  f[Len(lane)] = g[Len(lane)]
<1> DEFINE Bad == {n \in 0..Len(lane) : f[n] # g[n]}
<1>1. \A n \in 0..Len(lane) :
        /\ f[n] = IF n = 0 THEN overlay ELSE HandlePresenceEvent(f[n - 1], lane[n])
        /\ g[n] = IF n = 0 THEN overlay ELSE HandlePresenceEvent(g[n - 1], lane[n])
  BY DEF Follows
<1>2. Bad = {}
  <2> SUFFICES ASSUME Bad # {} PROVE FALSE
    OBVIOUS
  <2>1. PICK n \in Bad : \A m \in Bad : n <= m
    <3>1. Bad \in SUBSET Nat
      OBVIOUS
    <3> HIDE DEF Bad
    <3> QED
      BY <3>1, LeastNatural
  <2>2. n # 0 /\ n - 1 \in 0..Len(lane)
    BY <1>1
  <2>3. f[n - 1] = g[n - 1]
    BY <2>1, <2>2
  <2> QED
    BY <1>1, <2>2, <2>3
<1>3. Len(lane) \in 0..Len(lane)
  OBVIOUS
<1> QED
  BY <1>2, <1>3

\* What is shown is what the last of the steps shows.
LEMMA ShownIs ==
  ASSUME NEW S, NEW lane \in Seq(S), NEW overlay, NEW after, Follows(after, overlay, lane)
  PROVE  Shown(overlay, lane) = after[Len(lane)]
<1> DEFINE chosen == CHOOSE f : f = [n \in 0..Len(lane) |->
                       IF n = 0 THEN overlay ELSE HandlePresenceEvent(f[n - 1], lane[n])]
<1>1. Shown(overlay, lane) = chosen[Len(lane)]
  BY DEF Shown
<1>2. chosen = [n \in 0..Len(lane) |->
                  IF n = 0 THEN overlay ELSE HandlePresenceEvent(chosen[n - 1], lane[n])]
  BY DEF Follows
<1>3. Follows(chosen, overlay, lane)
  <2> HIDE DEF chosen
  <2> QED
    BY <1>2 DEF Follows
<1> HIDE DEF chosen
<1> QED
  BY <1>1, <1>3, FollowsUnique

\* Nothing in the lane: what is shown stays.
LEMMA ShownNothing == \A overlay : Shown(overlay, <<>>) = overlay
<1> TAKE overlay
<1>1. <<>> \in Seq({}) /\ Len(<<>>) = 0
  OBVIOUS
<1>2. PICK after : Follows(after, overlay, <<>>)
  BY <1>1, FollowsExists
<1>3. after[0] = overlay
  BY <1>1, <1>2 DEF Follows
<1> QED
  BY <1>1, <1>2, <1>3, ShownIs

\* A frame at the end of the lane is handled last.
LEMMA ShownAppend ==
  ASSUME NEW S, NEW lane \in Seq(S), NEW overlay, NEW frame \in S
  PROVE  Shown(overlay, Append(lane, frame)) = HandlePresenceEvent(Shown(overlay, lane), frame)
<1> DEFINE n == Len(lane)
           longer == Append(lane, frame)
<1>1. /\ longer \in Seq(S) /\ Len(longer) = n + 1 /\ n \in Nat
      /\ longer[n + 1] = frame /\ \A m \in 1..n : longer[m] = lane[m]
  OBVIOUS
<1> HIDE DEF longer
<1>2. PICK after : Follows(after, overlay, longer)
  BY <1>1, FollowsExists
<1>3. \A m \in 0..n + 1 :
        after[m] = IF m = 0 THEN overlay ELSE HandlePresenceEvent(after[m - 1], longer[m])
  BY <1>1, <1>2 DEF Follows
<1> DEFINE before == [m \in 0..n |-> after[m]]
<1>4. Follows(before, overlay, lane)
  <2>1. \A m \in 0..n : m = 0 \/ (m \in 1..n /\ m - 1 \in 0..n)
    BY <1>1
  <2>2. \A m \in 0..n :
          before[m] = IF m = 0 THEN overlay ELSE HandlePresenceEvent(before[m - 1], lane[m])
    BY <1>1, <1>3, <2>1
  <2>3. before = [m \in 0..n |-> before[m]]
    OBVIOUS
  <2> HIDE DEF before
  <2> QED
    BY <2>2, <2>3 DEF Follows
<1>5. Shown(overlay, lane) = after[n]
  <2>1. before[n] = after[n]
    BY <1>1
  <2> HIDE DEF before
  <2> QED
    BY <1>4, <2>1, ShownIs
<1>6. Shown(overlay, longer) = after[n + 1]
  BY <1>1, <1>2, ShownIs
<1>7. after[n + 1] = HandlePresenceEvent(after[n], frame)
  <2>1. n + 1 \in 0..n + 1 /\ n + 1 # 0 /\ n + 1 - 1 = n
    BY <1>1
  <2> QED
    BY <1>1, <1>3, <2>1
<1> QED
  BY <1>5, <1>6, <1>7 DEF longer

\* A frame at the head of the lane can be handled at once.
LEMMA ShownTail ==
  ASSUME NEW S, NEW lane \in Seq(S), NEW overlay, lane # <<>>
  PROVE  Shown(HandlePresenceEvent(overlay, Head(lane)), Tail(lane)) = Shown(overlay, lane)
<1> DEFINE n == Len(lane)
           rest == Tail(lane)
           first == HandlePresenceEvent(overlay, Head(lane))
<1>1. /\ rest \in Seq(S) /\ Len(rest) = n - 1 /\ n \in Nat /\ n # 0
      /\ Head(lane) = lane[1] /\ \A m \in 1..n - 1 : rest[m] = lane[m + 1]
  OBVIOUS
<1> HIDE DEF rest
<1>2. PICK after : Follows(after, overlay, lane)
  BY <1>1, FollowsExists
<1>3. \A m \in 0..n :
        after[m] = IF m = 0 THEN overlay ELSE HandlePresenceEvent(after[m - 1], lane[m])
  BY <1>1, <1>2 DEF Follows
<1> DEFINE later == [m \in 0..n - 1 |-> after[m + 1]]
<1>4. Follows(later, first, rest)
  <2>1. later[0] = first
    <3>1. 0 \in 0..n - 1 /\ 0 \in 0..n /\ 1 \in 0..n /\ 0 + 1 = 1 /\ 1 - 1 = 0 /\ 1 # 0
      BY <1>1
    <3>2. after[1] = HandlePresenceEvent(after[0], lane[1]) /\ after[0] = overlay
      BY <1>3, <3>1
    <3> QED
      BY <1>1, <3>1, <3>2
  <2>2. ASSUME NEW m \in 1..n - 1
        PROVE  later[m] = HandlePresenceEvent(later[m - 1], rest[m])
    <3>1. /\ m \in 0..n - 1 /\ m - 1 \in 0..n - 1 /\ m + 1 \in 0..n /\ m + 1 # 0
          /\ (m + 1) - 1 = m /\ (m - 1) + 1 = m
      BY <1>1
    <3>2. after[m + 1] = HandlePresenceEvent(after[m], lane[m + 1])
      BY <1>3, <3>1
    <3> QED
      BY <1>1, <3>1, <3>2
  <2>3. \A m \in 0..n - 1 :
          later[m] = IF m = 0 THEN first ELSE HandlePresenceEvent(later[m - 1], rest[m])
    <3> HIDE DEF later, first
    <3>1. \A m \in 0..n - 1 : m = 0 \/ m \in 1..n - 1
      BY <1>1
    <3> QED
      BY <2>1, <2>2, <3>1
  <2>4. later = [m \in 0..n - 1 |-> later[m]]
    OBVIOUS
  <2> HIDE DEF later, first
  <2> QED
    BY <1>1, <2>3, <2>4 DEF Follows
<1>5. Shown(first, rest) = after[n]
  <2>1. later[n - 1] = after[n]
    BY <1>1
  <2> HIDE DEF later, first
  <2> QED
    BY <1>1, <1>4, <2>1, ShownIs
<1>6. Shown(overlay, lane) = after[n]
  BY <1>2, ShownIs
<1> QED
  BY <1>5, <1>6 DEF rest

-----------------------------------------------------------------------------
(* Lanes *)

\* k and l differ in what has been put into the lane, if at all.
SameButLane(k, l) ==
  /\ l.owner = k.owner /\ l.stage = k.stage /\ l.open = k.open /\ l.timers = k.timers
  /\ l.pingAt = k.pingAt /\ l.stale = k.stale /\ l.hits = k.hits /\ l.clogged = k.clogged
  /\ l.up = k.up /\ l.seen = k.seen /\ l.relayed = k.relayed /\ l.late = k.late
  /\ l.refused = k.refused

\* A frame is put at the end of the lane of an open connection, or something is
\* lost.
Hears(k, l, frame) ==
  /\ SameButLane(k, l)
  /\ ~k.open => l = k
  /\ k.lost => l.lost
  /\ k.open /\ ~l.lost => l.lane = Append(k.lane, frame)

\* Shedding takes the newest frame from a lane.
LEMMA ShedType ==
  ASSUME NEW lane \in Seq(Event)
  PROVE  ShedForBackpressure(lane) \in Seq(Event)
<1>1. CASE lane = <<>>
  BY <1>1 DEF ShedForBackpressure
<1>2. CASE lane # <<>>
  <2>1. Len(lane) - 1 \in 0..Len(lane)
    BY <1>2
  <2>2. SubSeq(lane, 1, Len(lane) - 1) \in Seq(Event)
    BY <2>1
  <2> QED
    BY <1>2, <2>2 DEF ShedForBackpressure, Front
<1> QED
  BY <1>1, <1>2

\* Enqueueing is that.
LEMMA EnqueueIs ==
  ASSUME NEW k \in Connection, NEW frame \in Event, NEW l, l = Enqueue(k, frame)
  PROVE  l \in Connection /\ Hears(k, l, frame)
<1>1. k.lane \in Seq(Event) /\ k.open \in BOOLEAN /\ k.clogged \in BOOLEAN /\ k.lost \in BOOLEAN
  BY DEF Connection
<1>2. CASE ~k.open
  BY <1>2 DEF Enqueue, SameButLane, Hears
<1>3. CASE k.open /\ ~k.clogged
  <2>1. Append(k.lane, frame) \in Seq(Event)
    BY <1>1
  <2>2. l = [k EXCEPT !.lane = Append(k.lane, frame)]
    BY <1>3 DEF Enqueue
  <2>3. l \in Connection /\ SameButLane(k, l) /\ l.lost = k.lost /\ l.lane = Append(k.lane, frame)
    BY <2>1, <2>2 DEF Connection, SameButLane
  <2> QED
    BY <1>3, <2>3 DEF Hears
<1>4. CASE k.open /\ k.clogged
  <2> DEFINE shed == ShedForBackpressure(k.lane)
             lost == k.lost \/ k.lane # <<>>
  <2>1. shed \in Seq(Event) /\ Append(shed, frame) \in Seq(Event) /\ lost \in BOOLEAN
    BY <1>1, ShedType
  <2>2. l = [k EXCEPT !.lane = Append(shed, frame), !.lost = lost]
    BY <1>4 DEF Enqueue
  <2>3. k.lane = <<>> => shed = <<>>
    BY DEF ShedForBackpressure
  <2> HIDE DEF shed, lost
  <2>4. l \in Connection /\ SameButLane(k, l) /\ l.lost = lost /\ l.lane = Append(shed, frame)
    BY <2>1, <2>2 DEF Connection, SameButLane
  <2> QED
    BY <1>4, <2>3, <2>4 DEF lost, Hears
<1> QED
  BY <1>1, <1>2, <1>3, <1>4

\* A broadcast touches the lanes of the members.
LEMMA BroadcastIs ==
  ASSUME NEW ks \in [Sessions -> Connection], NEW members, NEW except, NEW frame \in Event,
         NEW new, new = Broadcast(ks, members, except, frame)
  PROVE  /\ new \in [Sessions -> Connection]
         /\ \A q \in Sessions :
              IF q \in members /\ q # except THEN Hears(ks[q], new[q], frame) ELSE new[q] = ks[q]
<1>1. new = [q \in Sessions |-> IF q \in members \ {except} THEN Enqueue(ks[q], frame) ELSE ks[q]]
  BY DEF Broadcast
<1>2. ASSUME NEW q \in Sessions
      PROVE  /\ new[q] \in Connection
             /\ IF q \in members /\ q # except THEN Hears(ks[q], new[q], frame) ELSE new[q] = ks[q]
  <2>1. CASE q \in members \ {except}
    <3>1. new[q] = Enqueue(ks[q], frame) /\ ks[q] \in Connection
      BY <1>1, <2>1
    <3> QED
      BY <2>1, <3>1, EnqueueIs
  <2>2. CASE q \notin members \ {except}
    BY <1>1, <2>2
  <2> QED
    BY <2>1, <2>2
<1> QED
  BY <1>1, <1>2

-----------------------------------------------------------------------------
(* Types *)

\* The fields of a connection have their types.
LEMMA ConnectionFields ==
  ASSUME NEW k \in Connection
  PROVE  /\ k.owner \in Clients \cup {Nobody}
         /\ k.stage \in {"none", "new", "joined", "live", "gone"}
         /\ k.timers \in SUBSET Nat /\ k.hits \in SUBSET Nat /\ k.pingAt \in Nat
         /\ k.open \in BOOLEAN /\ k.stale \in BOOLEAN /\ k.clogged \in BOOLEAN
         /\ k.lost \in BOOLEAN /\ k.late \in BOOLEAN /\ k.refused \in BOOLEAN
         /\ k.lane \in Seq(Event) /\ k.up \in Seq(Frame) /\ k.relayed \in Seq(Nat)
         /\ k.seen \in [Sessions -> Moves]
BY DEF Connection

\* The fields of a client have their types.
LEMMA PersonFields ==
  ASSUME NEW k \in Person
  PROVE  /\ k.state \in {"offline", "connecting", "reconnecting", "synced"}
         /\ k.wants \in BOOLEAN /\ k.retry \in BOOLEAN
         /\ k.ws \in {Nobody} \cup Sessions /\ k.fetches \in Nat /\ k.aliveAt \in Nat
         /\ k.resident \in BOOLEAN /\ k.closing \in BOOLEAN /\ k.heardAt \in Nat
         /\ k.pingDue \in SUBSET Nat /\ k.flushAt \in SUBSET Nat /\ k.sentAt \in SUBSET Nat
         /\ k.overlay \in Overlay /\ k.pending \in Moves
BY DEF Person

\* The constants and the bounds are numbers.
LEMMA Numbers ==
  /\ Coalesce \in Nat \ {0} /\ Window \in Nat \ {0} /\ MaxUpdates \in Nat \ {0}
  /\ PingEvery \in Nat \ {0} /\ Gap \in Nat \ {0} /\ Stale \in Nat \ {0}
  /\ MaxSessions \in Nat /\ MaxMoves \in Nat
  /\ MaxUpdates * Coalesce >= Window
BY PresenceAssumption

\* A connection is made empty.
LEMMA NoConnType ==
  /\ NoConn \in Connection
  /\ NoConn.stage = "none" /\ NoConn.lane = <<>> /\ NoConn.up = <<>> /\ NoConn.relayed = <<>>
  /\ NoConn.timers = {} /\ NoConn.hits = {} /\ NoConn.pingAt = 0
  /\ ~NoConn.stale /\ ~NoConn.late /\ ~NoConn.refused /\ ~NoConn.open
  /\ NoConn.seen = [r \in Sessions |-> 0]
<1>1. [r \in Sessions |-> 0] \in [Sessions -> Moves]
  BY Numbers DEF Moves
<1>2. <<>> \in Seq(Event) /\ <<>> \in Seq(Frame) /\ <<>> \in Seq(Nat)
  OBVIOUS
<1> QED
  BY <1>1, <1>2 DEF NoConn, Connection

\* So is a client.
LEMMA NoClientType ==
  /\ NoClient \in Person
  /\ NoClient.flushAt = {} /\ NoClient.pingDue = {} /\ NoClient.ws = Nobody
  /\ NoClient.state = "offline" /\ NoClient.aliveAt = 0 /\ NoClient.heardAt = 0
  /\ ~NoClient.closing
<1>1. [r \in {} |-> 0] \in Overlay
  <2>1. [r \in {} |-> 0] \in [{} -> Moves]
    OBVIOUS
  <2> QED
    BY <2>1 DEF Overlay
<1>2. 0 \in Moves
  BY Numbers DEF Moves
<1> QED
  BY <1>1, <1>2 DEF NoClient, Person

\* The frames of a lane, by their kind.
LEMMA EventFields ==
  ASSUME NEW frame \in Event
  PROVE  \/ frame.kind = "roster" /\ frame.members \in SUBSET Sessions
         \/ frame.kind \in {"join", "leave"} /\ frame.of \in Sessions
         \/ frame.kind = "update" /\ frame.of \in Sessions /\ frame.caret \in Moves
BY DEF Event

\* What a frame makes of an overlay is an overlay.
LEMMA OverlayType ==
  ASSUME NEW overlay \in Overlay, NEW frame \in Event
  PROVE  HandlePresenceEvent(overlay, frame) \in Overlay
<1> DEFINE new == HandlePresenceEvent(overlay, frame)
<1>1. PICK S \in SUBSET Sessions : overlay \in [S -> Moves]
  BY DEF Overlay
<1>2. 0 \in Moves
  BY Numbers DEF Moves
<1>3. CASE frame.kind = "roster"
  <2>1. frame.members \in SUBSET Sessions
    BY <1>3, EventFields
  <2>2. new = [r \in frame.members |-> 0]
    BY <1>3 DEF HandlePresenceEvent
  <2>3. new \in [frame.members -> Moves]
    BY <1>2, <2>2
  <2> QED
    BY <2>1, <2>3 DEF Overlay
<1>4. CASE frame.kind = "join"
  <2>1. frame.of \in Sessions
    BY <1>4, EventFields
  <2>2. new = [r \in S \cup {frame.of} |-> IF r = frame.of THEN 0 ELSE overlay[r]]
    BY <1>1, <1>4 DEF HandlePresenceEvent
  <2>3. new \in [S \cup {frame.of} -> Moves]
    BY <1>1, <1>2, <2>2
  <2>4. S \cup {frame.of} \in SUBSET Sessions
    BY <2>1
  <2> QED
    BY <2>3, <2>4 DEF Overlay
<1>5. CASE frame.kind = "leave"
  <2>1. new = [r \in S \ {frame.of} |-> overlay[r]]
    BY <1>1, <1>5 DEF HandlePresenceEvent
  <2>2. new \in [S \ {frame.of} -> Moves]
    BY <1>1, <2>1
  <2>3. S \ {frame.of} \in SUBSET Sessions
    OBVIOUS
  <2> QED
    BY <2>2, <2>3 DEF Overlay
<1>6. CASE frame.kind = "update"
  <2>1. frame.caret \in Moves
    BY <1>6, EventFields
  <2>2. new = [r \in S |-> IF r = frame.of THEN frame.caret ELSE overlay[r]]
    BY <1>1, <1>6 DEF HandlePresenceEvent
  <2>3. new \in [S -> Moves]
    BY <1>1, <2>1, <2>2
  <2> QED
    BY <2>3 DEF Overlay
<1> QED
  BY <1>3, <1>4, <1>5, <1>6, EventFields

\* Spending leaves the rest of the budget alone.
LEMMA SpendIs ==
  ASSUME Types, NEW what \in {"sessions", "moves", "losses", "clogs", "quits", "ticks"}, Spend(what)
  PROVE  /\ budget' \in Budget
         /\ what = "sessions" => budget.sessions > 0 /\ budget'.sessions = budget.sessions - 1
         /\ what # "sessions" => budget'.sessions = budget.sessions
         /\ what = "moves" => budget.moves > 0 /\ budget'.moves = budget.moves - 1
         /\ what # "moves" => budget'.moves = budget.moves
<1>1. /\ budget \in Budget /\ budget.sessions \in 0..MaxSessions /\ budget.moves \in 0..MaxMoves
      /\ budget.losses \in Nat /\ budget.clogs \in Nat /\ budget.quits \in Nat
      /\ budget.ticks \in Nat
  BY DEF Types, Budget, Moves
<1>2. budget[what] > 0 /\ budget' = [budget EXCEPT ![what] = budget[what] - 1]
  BY DEF Spend
<1>3. CASE what = "sessions"
  <2> DEFINE b == [budget EXCEPT !.sessions = budget.sessions - 1]
  <2>1. budget' = b /\ budget.sessions > 0 /\ budget.sessions - 1 \in 0..MaxSessions
    <3>1. budget' = b /\ budget.sessions > 0
      BY <1>2, <1>3
    <3>2. budget.sessions \in 0..MaxSessions
      BY <1>1
    <3> QED
      BY <3>1, <3>2, Numbers
  <2>2. /\ b \in Budget /\ b.sessions = budget.sessions - 1
        /\ b.moves = budget.moves
    BY <1>1, <2>1 DEF Budget, Moves
  <2> HIDE DEF b
  <2> QED
    BY <1>3, <2>1, <2>2
<1>4. CASE what = "moves"
  <2> DEFINE b == [budget EXCEPT !.moves = budget.moves - 1]
  <2>1. budget' = b /\ budget.moves > 0 /\ budget.moves - 1 \in 0..MaxMoves
    <3>1. budget' = b /\ budget.moves > 0
      BY <1>2, <1>4
    <3>2. budget.moves \in 0..MaxMoves
      BY <1>1
    <3> QED
      BY <3>1, <3>2, Numbers
  <2>2. /\ b \in Budget /\ b.moves = budget.moves - 1
        /\ b.sessions = budget.sessions
    BY <1>1, <2>1 DEF Budget, Moves
  <2> HIDE DEF b
  <2> QED
    BY <1>4, <2>1, <2>2
<1>5. CASE what = "losses"
  <2> DEFINE b == [budget EXCEPT !.losses = budget.losses - 1]
  <2>1. budget' = b /\ budget.losses > 0 /\ budget.losses - 1 \in Nat
    <3>1. budget' = b /\ budget.losses > 0
      BY <1>2, <1>5
    <3>2. budget.losses \in Nat
      BY <1>1
    <3> QED
      BY <3>1, <3>2, Numbers
  <2>2. /\ b \in Budget /\ b.losses = budget.losses - 1
        /\ b.sessions = budget.sessions /\ b.moves = budget.moves
    BY <1>1, <2>1 DEF Budget, Moves
  <2> HIDE DEF b
  <2> QED
    BY <1>5, <2>1, <2>2
<1>6. CASE what = "clogs"
  <2> DEFINE b == [budget EXCEPT !.clogs = budget.clogs - 1]
  <2>1. budget' = b /\ budget.clogs > 0 /\ budget.clogs - 1 \in Nat
    <3>1. budget' = b /\ budget.clogs > 0
      BY <1>2, <1>6
    <3>2. budget.clogs \in Nat
      BY <1>1
    <3> QED
      BY <3>1, <3>2, Numbers
  <2>2. /\ b \in Budget /\ b.clogs = budget.clogs - 1
        /\ b.sessions = budget.sessions /\ b.moves = budget.moves
    BY <1>1, <2>1 DEF Budget, Moves
  <2> HIDE DEF b
  <2> QED
    BY <1>6, <2>1, <2>2
<1>7. CASE what = "quits"
  <2> DEFINE b == [budget EXCEPT !.quits = budget.quits - 1]
  <2>1. budget' = b /\ budget.quits > 0 /\ budget.quits - 1 \in Nat
    <3>1. budget' = b /\ budget.quits > 0
      BY <1>2, <1>7
    <3>2. budget.quits \in Nat
      BY <1>1
    <3> QED
      BY <3>1, <3>2, Numbers
  <2>2. /\ b \in Budget /\ b.quits = budget.quits - 1
        /\ b.sessions = budget.sessions /\ b.moves = budget.moves
    BY <1>1, <2>1 DEF Budget, Moves
  <2> HIDE DEF b
  <2> QED
    BY <1>7, <2>1, <2>2
<1>8. CASE what = "ticks"
  <2> DEFINE b == [budget EXCEPT !.ticks = budget.ticks - 1]
  <2>1. budget' = b /\ budget.ticks > 0 /\ budget.ticks - 1 \in Nat
    <3>1. budget' = b /\ budget.ticks > 0
      BY <1>2, <1>8
    <3>2. budget.ticks \in Nat
      BY <1>1
    <3> QED
      BY <3>1, <3>2, Numbers
  <2>2. /\ b \in Budget /\ b.ticks = budget.ticks - 1
        /\ b.sessions = budget.sessions /\ b.moves = budget.moves
    BY <1>1, <2>1 DEF Budget, Moves
  <2> HIDE DEF b
  <2> QED
    BY <1>8, <2>1, <2>2
<1> QED
  BY <1>3, <1>4, <1>5, <1>6, <1>7, <1>8

\* A client that has lost its socket keeps its carets and its overlay.
LEMMA ClosedIs ==
  ASSUME NEW k \in Person, NEW l, l = Closed(k)
  PROVE  /\ l \in Person /\ l.ws = Nobody /\ l.pingDue = {} /\ l.state # "synced"
         /\ l.overlay = k.overlay /\ l.pending = k.pending /\ l.flushAt = k.flushAt
         /\ l.aliveAt = k.aliveAt /\ l.heardAt = k.heardAt /\ ~l.closing
<1> DEFINE cleared == ClearPerConnectionTimers(k)
           state == IF cleared.wants THEN "reconnecting" ELSE "offline"
<1>1. /\ cleared \in Person /\ cleared.pingDue = {} /\ cleared.wants = k.wants
      /\ cleared.overlay = k.overlay /\ cleared.pending = k.pending
      /\ cleared.flushAt = k.flushAt /\ cleared.aliveAt = k.aliveAt
      /\ cleared.heardAt = k.heardAt
  BY DEF ClearPerConnectionTimers, Person
<1>2. state \in {"offline", "reconnecting"}
  OBVIOUS
<1>3. l = [cleared EXCEPT !.ws = Nobody, !.closing = FALSE, !.retry = k.wants,
                          !.state = IF k.wants THEN "reconnecting" ELSE "offline"]
  BY DEF Closed
<1>4. k.wants \in BOOLEAN
  BY PersonFields
<1> HIDE DEF cleared
<1> QED
  BY <1>1, <1>3, <1>4 DEF Person

-----------------------------------------------------------------------------
(* What the actions do *)

\* What a client forgets or does without its connection: its caret stays pending
\* or is given up, and it may lose its socket.
Aside(k, l) ==
  /\ l.overlay = k.overlay /\ l.aliveAt = k.aliveAt /\ l.heardAt = k.heardAt
  /\ l.flushAt = {} \/ (l.flushAt = k.flushAt /\ l.pending = k.pending)
  /\ \/ /\ l.ws = k.ws /\ l.closing = k.closing /\ l.pingDue = k.pingDue
        /\ l.state = "synced" => k.state = "synced"
     \/ l.ws = Nobody /\ ~l.closing /\ l.pingDue = {} /\ l.state # "synced"

\* connect(), disconnect(), a lost or closed socket and a reconnect timer touch
\* one client.
LEMMA ClientAside ==
  ASSUME Types, NEW c \in Clients,
         Connect(c) \/ Disconnect(c) \/ SocketLost(c) \/ CloseEvent(c) \/ Retry(c)
  PROVE  /\ Types' /\ UNCHANGED <<now, room, conn, caret>>
         /\ budget'.moves = budget.moves /\ budget'.sessions = budget.sessions
         /\ \A d \in Clients \ {c} : client'[d] = client[d]
         /\ Aside(client[c], client'[c])
<1>1. client[c] \in Person /\ client \in [Clients -> Person]
  BY DEF Types
<1>2. /\ client[c].fetches \in Nat /\ client[c].fetches + 1 \in Nat /\ client[c].flushAt \in SUBSET Nat
      /\ 0 \in Moves
  BY <1>1, PersonFields, Numbers DEF Moves
<1>3. SUFFICES /\ budget' \in Budget /\ UNCHANGED <<now, room, conn, caret>>
               /\ budget'.moves = budget.moves /\ budget'.sessions = budget.sessions
               /\ \E p \in Person : client' = [client EXCEPT ![c] = p] /\ Aside(client[c], p)
  BY <1>1 DEF Types
<1>4. CASE Connect(c)
  <2> DEFINE p == [client[c] EXCEPT !.wants = TRUE, !.state = "connecting",
                                    !.fetches = client[c].fetches + 1]
  <2>1. p \in Person /\ Aside(client[c], p)
    BY <1>1, <1>2 DEF Person, Aside
  <2>2. client' = [client EXCEPT ![c] = p] /\ UNCHANGED <<now, room, conn, caret, budget>>
    BY <1>4 DEF Connect, Updated
  <2> QED
    BY <2>1, <2>2 DEF Types
<1>5. CASE Disconnect(c)
  <2> DEFINE k == [client[c] EXCEPT !.pingDue = {}]
             q == [k EXCEPT !.retry = FALSE]
             p == [q EXCEPT !.wants = FALSE, !.state = "offline", !.ws = Nobody,
                            !.closing = FALSE, !.pending = 0, !.flushAt = {}]
  <2>1. /\ k \in Person /\ k.overlay = client[c].overlay /\ k.aliveAt = client[c].aliveAt
        /\ k.heardAt = client[c].heardAt /\ k.pingDue = {}
    BY <1>1 DEF Person
  <2>2. /\ q \in Person /\ q.overlay = client[c].overlay /\ q.aliveAt = client[c].aliveAt
        /\ q.heardAt = client[c].heardAt /\ q.pingDue = {}
    BY <2>1 DEF Person
  <2>3. client' = [client EXCEPT ![c] = p] /\ Spend("quits") /\ UNCHANGED <<now, room, conn, caret>>
    BY <1>5 DEF Disconnect, Updated, ClearAllTimers, ClearPerConnectionTimers
  <2> HIDE DEF q
  <2>4. p \in Person /\ Aside(client[c], p)
    BY <1>2, <2>2 DEF Person, Aside
  <2> HIDE DEF p
  <2> QED
    BY <2>3, <2>4, SpendIs
<1>6. CASE SocketLost(c)
  <2>1. /\ client' = [client EXCEPT ![c] = Closed(client[c])] /\ Spend("losses")
        /\ UNCHANGED <<now, room, conn, caret>>
    BY <1>6 DEF SocketLost, Updated
  <2>2. Closed(client[c]) \in Person /\ Aside(client[c], Closed(client[c]))
    BY <1>1, ClosedIs DEF Aside
  <2> QED
    BY <2>1, <2>2, SpendIs
<1>7. CASE Retry(c)
  <2> DEFINE p == [client[c] EXCEPT !.retry = FALSE, !.fetches = client[c].fetches + 1]
  <2>1. p \in Person /\ Aside(client[c], p)
    BY <1>1, <1>2 DEF Person, Aside
  <2>2. client' = [client EXCEPT ![c] = p] /\ UNCHANGED <<now, room, conn, caret, budget>>
    BY <1>7 DEF Retry, Updated
  <2> QED
    BY <2>1, <2>2 DEF Types
<1>8. CASE CloseEvent(c)
  <2>1. client' = [client EXCEPT ![c] = Closed(client[c])] /\ UNCHANGED <<now, room, conn, caret, budget>>
    BY <1>8 DEF CloseEvent, Updated
  <2>2. Closed(client[c]) \in Person /\ Aside(client[c], Closed(client[c]))
    BY <1>1, ClosedIs DEF Aside
  <2> QED
    BY <2>1, <2>2 DEF Types
<1> QED
  BY <1>4, <1>5, <1>6, <1>7, <1>8

\* A connection whose handshake is through.
LEMMA SyncedIs ==
  ASSUME Types, NEW c \in Clients, Synced(c)
  PROVE  /\ Types' /\ UNCHANGED <<now, room, conn, caret, budget>>
         /\ \A d \in Clients \ {c} : client'[d] = client[d]
         /\ client'[c].ws = client[c].ws /\ client'[c].overlay = client[c].overlay
         /\ client'[c].flushAt = client[c].flushAt /\ client'[c].pending = client[c].pending
         /\ client'[c].aliveAt \in {client[c].aliveAt, now} /\ client'[c].heardAt = now
         /\ client'[c].pingDue = {now + PingEvery} /\ client'[c].closing = client[c].closing
         /\ client[c].ws # Nobody
<1>1. client[c] \in Person /\ client \in [Clients -> Person] /\ now \in Nat /\ now + PingEvery \in Nat
  BY Numbers DEF Types
<1>0. PICK new \in BOOLEAN :
        client' = [client EXCEPT ![c] =
                     [(IF new THEN MarkAlive(client[c]) ELSE client[c]) EXCEPT
                        !.resident = TRUE, !.heardAt = now,
                        !.state = "synced", !.pingDue = {now + PingEvery}]]
  BY DEF Synced, Updated
<1> DEFINE k == IF new THEN MarkAlive(client[c]) ELSE client[c]
           p == [k EXCEPT !.resident = TRUE, !.heardAt = now,
                          !.state = "synced", !.pingDue = {now + PingEvery}]
<1>2. /\ k \in Person /\ k.ws = client[c].ws /\ k.overlay = client[c].overlay
      /\ k.flushAt = client[c].flushAt /\ k.pending = client[c].pending
      /\ k.aliveAt \in {client[c].aliveAt, now} /\ k.closing = client[c].closing
  BY <1>1 DEF Person, MarkAlive
<1>3. /\ client' = [client EXCEPT ![c] = p] /\ UNCHANGED <<now, room, conn, caret, budget>>
      /\ client[c].ws # Nobody
  BY <1>0 DEF Synced
<1> HIDE DEF k
<1>4. /\ p \in Person /\ p.ws = k.ws /\ p.overlay = k.overlay
      /\ p.flushAt = k.flushAt /\ p.pending = k.pending /\ p.aliveAt = k.aliveAt
      /\ p.pingDue = {now + PingEvery} /\ p.heardAt = now /\ p.closing = k.closing
  BY <1>1, <1>2 DEF Person
<1> HIDE DEF p
<1> QED
  BY <1>1, <1>2, <1>3, <1>4 DEF Types

\* A caret move.
LEMMA MoveIs ==
  ASSUME Types, NEW c \in Clients, Move(c)
  PROVE  /\ Types' /\ UNCHANGED <<now, room, conn, caret>>
         /\ budget.moves > 0 /\ budget'.moves = budget.moves - 1
         /\ budget'.sessions = budget.sessions
         /\ \A d \in Clients \ {c} : client'[d] = client[d]
         /\ client'[c].ws = client[c].ws /\ client'[c].overlay = client[c].overlay
         /\ client'[c].state = client[c].state /\ client'[c].pingDue = client[c].pingDue
         /\ client'[c].aliveAt = client[c].aliveAt /\ client'[c].pending = budget.moves
         /\ client'[c].heardAt = client[c].heardAt /\ client'[c].closing = client[c].closing
         /\ client'[c].flushAt = client[c].flushAt \/ client'[c].flushAt = {now + Coalesce}
<1>1. client[c] \in Person /\ client \in [Clients -> Person] /\ now + Coalesce \in Nat
      /\ budget.moves \in Moves
  BY Numbers DEF Types, Budget
<1>2. client[c].flushAt \in SUBSET Nat
  BY <1>1, PersonFields
<1> DEFINE flushAt == IF client[c].flushAt = {} THEN {now + Coalesce} ELSE client[c].flushAt
           p == [client[c] EXCEPT !.pending = budget.moves, !.flushAt = flushAt]
<1>3. client' = [client EXCEPT ![c] = p] /\ UNCHANGED <<now, room, conn, caret>> /\ Spend("moves")
  BY DEF Move, Updated
<1>4. flushAt \in SUBSET Nat /\ (flushAt = client[c].flushAt \/ flushAt = {now + Coalesce})
  BY <1>1, <1>2
<1> HIDE DEF flushAt
<1>5. /\ p \in Person /\ p.ws = client[c].ws /\ p.overlay = client[c].overlay
      /\ p.state = client[c].state /\ p.pingDue = client[c].pingDue
      /\ p.aliveAt = client[c].aliveAt /\ p.pending = budget.moves /\ p.flushAt = flushAt
      /\ p.heardAt = client[c].heardAt /\ p.closing = client[c].closing
  BY <1>1, <1>4 DEF Person
<1> HIDE DEF p
<1>6. budget' \in Budget /\ budget.moves > 0 /\ budget'.moves = budget.moves - 1
      /\ budget'.sessions = budget.sessions
  BY <1>3, SpendIs
<1> QED
  BY <1>1, <1>3, <1>4, <1>5, <1>6 DEF Types

\* A new socket is the first session that was not opened.
LEMMA NextSession ==
  ASSUME Types, Openings, budget.sessions > 0
  PROVE  /\ Cardinality(Opened) \in Nat /\ Cardinality(Opened) + 1 \in Sessions
         /\ \A r \in Sessions : conn[r].stage = "none" <=> r >= Cardinality(Opened) + 1
         /\ Cardinality(Opened) + budget.sessions <= MaxSessions
<1>1. PICK n \in 0..MaxSessions :
        n + budget.sessions <= MaxSessions /\ \A r \in Sessions : conn[r].stage = "none" <=> r > n
  BY DEF Openings
<1>2. n \in Nat /\ budget.sessions \in Nat
  BY <1>1, Numbers DEF Types, Budget
<1>3. Opened = 1..n
  <2>1. \A r : r \in Opened <=> r \in Sessions /\ conn[r].stage # "none"
    BY DEF Opened
  <2>2. \A r : r \in 1..n <=> r \in Sessions /\ ~(r > n)
    BY <1>1, <1>2, Numbers DEF Sessions
  <2> QED
    BY <1>1, <2>1, <2>2
<1>4. Cardinality(1..n) = n
  BY <1>2, FS_Interval
<1>5. n + 1 \in Sessions
  BY <1>1, <1>2, Numbers DEF Sessions
<1>6. \A r \in Sessions : r > n <=> r >= n + 1
  BY <1>2 DEF Sessions
<1> QED
  BY <1>1, <1>2, <1>3, <1>4, <1>5, <1>6

\* A new socket: the client has it, and its session is new.
LEMMA OpenSocketNowIs ==
  ASSUME Types, Openings, Unopened, NEW c \in Clients, OpenSocketNow(c)
  PROVE  /\ Types' /\ Openings' /\ UNCHANGED <<now, room, caret>> /\ budget'.moves = budget.moves
         /\ \A d \in Clients \ {c} : client'[d] = client[d]
         /\ client'[c].overlay = client[c].overlay
         /\ client'[c].state = client[c].state /\ client'[c].pingDue = client[c].pingDue
         /\ client'[c].aliveAt = client[c].aliveAt /\ client'[c].pending = client[c].pending
         /\ client'[c].flushAt = client[c].flushAt
         /\ client'[c].heardAt = now /\ ~client'[c].closing
         /\ \E r \in Sessions :
              /\ conn[r].stage = "none" /\ client'[c].ws = r
              /\ \A q \in Sessions \ {r} : conn'[q] = conn[q]
              /\ conn'[r] = [NoConn EXCEPT !.owner = c, !.stage = "new", !.open = TRUE]
<1> DEFINE r == Cardinality(Opened) + 1
           p == [client[c] EXCEPT !.fetches = client[c].fetches - 1, !.ws = r, !.closing = FALSE,
                                  !.heardAt = now]
           k == [NoConn EXCEPT !.owner = c, !.stage = "new", !.open = TRUE]
<1>1. /\ client[c] \in Person /\ client \in [Clients -> Person] /\ conn \in [Sessions -> Connection]
      /\ now \in Nat
  BY DEF Types
<1>2. client[c].fetches > 0 /\ client[c].fetches \in Nat /\ client[c].fetches - 1 \in Nat
  BY <1>1, PersonFields DEF OpenSocketNow
<1>3. Spend("sessions")
  BY DEF OpenSocketNow
<1>4. budget' \in Budget /\ budget.sessions > 0 /\ budget'.sessions = budget.sessions - 1
      /\ budget'.moves = budget.moves
  BY <1>3, SpendIs
<1>5. /\ r \in Sessions /\ \A q \in Sessions : conn[q].stage = "none" <=> q >= r
      /\ r - 1 + budget.sessions <= MaxSessions
  <2>1. Cardinality(Opened) \in Nat
    BY <1>4, NextSession
  <2>2. r - 1 = Cardinality(Opened)
    BY <2>1
  <2> QED
    BY <1>4, <2>2, NextSession
<1>6. conn[r].stage = "none" /\ conn[r] = NoConn
  <2>1. r >= r
    BY <1>5 DEF Sessions
  <2> QED
    BY <1>5, <2>1 DEF Unopened
<1>7. /\ client' = [client EXCEPT ![c] = p] /\ UNCHANGED <<now, room, caret>>
      /\ conn' = [conn EXCEPT ![r].owner = c, ![r].stage = "new", ![r].open = TRUE]
  BY DEF OpenSocketNow, Updated
<1> HIDE DEF r
<1>8. /\ p \in Person /\ p.overlay = client[c].overlay
      /\ p.state = client[c].state /\ p.pingDue = client[c].pingDue
      /\ p.aliveAt = client[c].aliveAt /\ p.pending = client[c].pending
      /\ p.flushAt = client[c].flushAt /\ p.ws = r /\ p.heardAt = now /\ ~p.closing
  BY <1>1, <1>2, <1>5 DEF Person
<1> HIDE DEF p
<1>9. k \in Connection /\ k.stage = "new"
  BY NoConnType DEF Connection
<1>10. conn' = [conn EXCEPT ![r] = k]
  BY <1>1, <1>5, <1>6, <1>7, NoConnType
<1> HIDE DEF k
<1>11. Types'
  <2>1. client' \in [Clients -> Person] /\ conn' \in [Sessions -> Connection]
    BY <1>1, <1>7, <1>8, <1>9, <1>10
  <2> QED
    BY <1>4, <1>7, <2>1 DEF Types
<1>12. Openings'
  <2>1. r \in 0..MaxSessions /\ r + budget'.sessions <= MaxSessions
    <3>1. budget.sessions \in Nat
      BY DEF Types, Budget
    <3> QED
      BY <1>4, <1>5, <3>1, Numbers DEF Sessions
  <2>2. \A q \in Sessions : conn'[q].stage = "none" <=> q > r
    <3> TAKE q \in Sessions
    <3>1. q \in Nat /\ r \in Nat
      BY <1>5 DEF Sessions
    <3>2. CASE q = r
      BY <1>1, <1>5, <1>9, <1>10, <3>1, <3>2
    <3>3. CASE q # r
      BY <1>1, <1>5, <1>10, <3>1, <3>3
    <3> QED
      BY <3>2, <3>3
  <2> QED
    BY <2>1, <2>2 DEF Openings
<1>13. \A q \in Sessions \ {r} : conn'[q] = conn[q]
  BY <1>1, <1>5, <1>10
<1>14. conn'[r] = k /\ client'[c] = p /\ \A d \in Clients \ {c} : client'[d] = client[d]
  BY <1>1, <1>5, <1>7, <1>10
<1> QED
  BY <1>4, <1>5, <1>6, <1>7, <1>8, <1>11, <1>12, <1>13, <1>14 DEF k

\* A frame of the client is under way.
Sends(r, frame) ==
  /\ \A q \in Sessions \ {r} : conn'[q] = conn[q]
  /\ r \in Sessions => conn'[r] = [conn[r] EXCEPT !.up = Append(conn[r].up, frame)]

\* A frame is put behind those under way.
LEMMA SendingIs ==
  ASSUME Types, NEW r \in {Nobody} \cup Sessions, NEW frame \in Frame,
         conn' = [conn EXCEPT ![r].up = Append(@, frame)]
  PROVE  conn' \in [Sessions -> Connection] /\ Sends(r, frame)
<1>1. conn \in [Sessions -> Connection]
  BY DEF Types
<1>2. CASE r \in Sessions
  <2> DEFINE k == [conn[r] EXCEPT !.up = Append(conn[r].up, frame)]
  <2>1. conn[r] \in Connection /\ conn[r].up \in Seq(Frame)
    BY <1>1, <1>2, ConnectionFields
  <2>2. Append(conn[r].up, frame) \in Seq(Frame)
    BY <2>1
  <2>3. k \in Connection
    BY <2>1, <2>2 DEF Connection
  <2>4. conn' = [conn EXCEPT ![r] = k]
    BY <1>1, <1>2
  <2>5. conn' \in [Sessions -> Connection]
    BY <1>1, <1>2, <2>3, <2>4
  <2> HIDE DEF k
  <2>6. conn'[r] = k /\ \A q \in Sessions \ {r} : conn'[q] = conn[q]
    BY <1>1, <1>2, <2>4
  <2> QED
    BY <2>5, <2>6 DEF Sends, k
<1>3. CASE r \notin Sessions
  <2>1. conn' = conn
    BY <1>1, <1>3
  <2> QED
    BY <1>1, <1>3, <2>1 DEF Sends
<1> QED
  BY <1>2, <1>3

\* send() puts a frame on the client's socket, unless it has none or is closing it.
LEMMA SendIs ==
  ASSUME Types, NEW c \in Clients, NEW frame \in Frame, conn' = Send(client[c], frame)
  PROVE  /\ conn' \in [Sessions -> Connection]
         /\ \/ UNCHANGED conn
            \/ client[c].ws # Nobody /\ Sends(client[c].ws, frame)
<1>1. conn \in [Sessions -> Connection] /\ client[c].ws \in {Nobody} \cup Sessions
  BY PersonFields DEF Types
<1>2. CASE client[c].ws = Nobody \/ client[c].closing
  BY <1>1, <1>2 DEF Send
<1>3. CASE ~(client[c].ws = Nobody \/ client[c].closing)
  <2>1. conn' = [conn EXCEPT ![client[c].ws].up = Append(@, frame)]
    BY <1>3 DEF Send
  <2> QED
    BY <1>1, <1>3, <2>1, SendingIs
<1> QED
  BY <1>2, <1>3

\* The ping timer closes a silent connection, or sends a ping.
LEMMA PingTimerIs ==
  ASSUME Types, NEW c \in Clients, PingTimer(c)
  PROVE  /\ Types' /\ UNCHANGED <<now, room, caret, budget>>
         /\ \A d \in Clients \ {c} : client'[d] = client[d]
         /\ client'[c].ws = client[c].ws /\ client'[c].overlay = client[c].overlay
         /\ client'[c].flushAt = client[c].flushAt /\ client'[c].pending = client[c].pending
         /\ client'[c].aliveAt = client[c].aliveAt /\ client'[c].heardAt = client[c].heardAt
         /\ client'[c].state = client[c].state /\ client'[c].pingDue = {now + PingEvery}
         /\ client[c].pingDue # {}
         /\ \/ UNCHANGED conn
            \/ client[c].ws # Nobody /\ Sends(client[c].ws, [kind |-> "ping"])
         /\ \/ client'[c].closing
            \/ client'[c].closing = client[c].closing /\ now < client[c].aliveAt + Gap
<1> DEFINE k == client[c]
           p == [k EXCEPT !.pingDue = {now + PingEvery}]
           q == [k EXCEPT !.closing = TRUE, !.pingDue = {now + PingEvery}]
           Kept(l) == /\ l \in Person /\ l.ws = k.ws /\ l.overlay = k.overlay
                      /\ l.flushAt = k.flushAt /\ l.pending = k.pending /\ l.aliveAt = k.aliveAt
                      /\ l.heardAt = k.heardAt /\ l.state = k.state
                      /\ l.pingDue = {now + PingEvery}
<1>1. /\ k \in Person /\ client \in [Clients -> Person] /\ conn \in [Sessions -> Connection]
      /\ k.aliveAt \in Nat /\ now \in Nat /\ now + PingEvery \in Nat /\ Gap \in Nat
  BY PersonFields, Numbers DEF Types
<1>2. UNCHANGED <<now, room, caret, budget>> /\ k.pingDue # {}
  BY DEF PingTimer, Due
<1>3. Kept(p) /\ p.closing = k.closing
  BY <1>1 DEF Person
<1>4. Kept(q) /\ q.closing
  BY <1>1 DEF Person
<1>5. \/ client' = [client EXCEPT ![c] = q] /\ conn' = conn
      \/ /\ ~HasStalled(k) /\ client' = [client EXCEPT ![c] = p]
         /\ conn' = Send(k, [kind |-> "ping"])
  BY DEF PingTimer, Updated, CloseStalled
<1>6. [kind |-> "ping"] \in Frame
  BY DEF Frame
<1> HIDE DEF p, q
<1>7. CASE client' = [client EXCEPT ![c] = q] /\ conn' = conn
  <2>1. client'[c] = q /\ client' \in [Clients -> Person]
    BY <1>1, <1>4, <1>7
  <2>2. \A d \in Clients \ {c} : client'[d] = client[d]
    BY <1>1, <1>7
  <2>3. Types'
    BY <1>1, <1>2, <1>7, <2>1 DEF Types
  <2> QED
    BY <1>2, <1>4, <1>7, <2>1, <2>2, <2>3
<1>8. CASE /\ ~HasStalled(k) /\ client' = [client EXCEPT ![c] = p]
           /\ conn' = Send(k, [kind |-> "ping"])
  <2>1. client'[c] = p /\ client' \in [Clients -> Person]
    BY <1>1, <1>3, <1>8
  <2>2. \A d \in Clients \ {c} : client'[d] = client[d]
    BY <1>1, <1>8
  <2>3. /\ conn' \in [Sessions -> Connection]
        /\ UNCHANGED conn \/ (client[c].ws # Nobody /\ Sends(client[c].ws, [kind |-> "ping"]))
    BY <1>6, <1>8, SendIs
  <2>4. now < k.aliveAt + Gap
    BY <1>1, <1>8 DEF HasStalled
  <2>5. Types'
    BY <1>2, <2>1, <2>3 DEF Types
  <2> QED
    BY <1>2, <1>3, <2>1, <2>2, <2>3, <2>4, <2>5
<1> QED
  BY <1>5, <1>7, <1>8

\* A flush sends the caret that is pending, at a time it was due.
LEMMA FlushIs ==
  ASSUME Types, NEW c \in Clients, Flush(c), client[c].flushAt # {} => client[c].pending # 0
  PROVE  /\ Types' /\ UNCHANGED <<now, room, caret, budget>>
         /\ \A d \in Clients \ {c} : client'[d] = client[d]
         /\ client'[c].ws = client[c].ws /\ client'[c].overlay = client[c].overlay
         /\ client'[c].flushAt = {} /\ client'[c].aliveAt = client[c].aliveAt
         /\ client'[c].state = client[c].state /\ client'[c].pingDue = client[c].pingDue
         /\ client'[c].heardAt = client[c].heardAt /\ client'[c].closing = client[c].closing
         /\ \E t \in client[c].flushAt : t <= now
         /\ \/ UNCHANGED conn
            \/ /\ client[c].ws # Nobody
               /\ Sends(client[c].ws, [kind |-> "update", caret |-> client[c].pending, sent |-> now])
<1> DEFINE k == client[c]
           sent == SentLately(k.sentAt)
           idle == [k EXCEPT !.flushAt = {}, !.pending = 0, !.sentAt = sent]
           frame == [kind |-> "update", caret |-> k.pending, sent |-> now]
           Kept(p) == /\ p \in Person /\ p.ws = k.ws /\ p.overlay = k.overlay /\ p.flushAt = {}
                      /\ p.aliveAt = k.aliveAt /\ p.state = k.state /\ p.pingDue = k.pingDue
                      /\ p.heardAt = k.heardAt /\ p.closing = k.closing
<1>1. /\ k \in Person /\ client \in [Clients -> Person] /\ k.ws \in {Nobody} \cup Sessions
      /\ now \in Nat /\ k.sentAt \in SUBSET Nat /\ k.pending \in Moves /\ 0 \in Moves
  BY PersonFields, Numbers DEF Types, Moves
<1>2. UNCHANGED <<now, room, caret, budget>> /\ \E t \in k.flushAt : t <= now
  BY DEF Flush, Due
<1>3. sent \in SUBSET Nat
  BY <1>1 DEF SentLately
<1> HIDE DEF sent
<1>4. Kept(idle) /\ idle.sentAt = sent
  BY <1>1, <1>3 DEF Person
<1> DEFINE busy == [idle EXCEPT !.sentAt = idle.sentAt \cup {now}]
<1> HIDE DEF idle
<1>5. Kept(busy)
  BY <1>1, <1>3, <1>4 DEF Person
<1>6. \/ client' = [client EXCEPT ![c] = idle] /\ conn' = conn
      \/ /\ client' = [client EXCEPT ![c] = busy]
         /\ conn' = Send(k, frame)
  BY DEF Flush, Updated, idle, sent
<1> HIDE DEF busy
<1>7. frame \in Frame
  BY <1>1, <1>2 DEF Frame
<1> HIDE DEF frame
<1>8. \/ UNCHANGED conn
      \/ k.ws # Nobody /\ Sends(k.ws, frame) /\ conn' \in [Sessions -> Connection]
  BY <1>1, <1>6, <1>7, SendIs
<1>9. \E p : client' = [client EXCEPT ![c] = p] /\ Kept(p)
  BY <1>4, <1>5, <1>6
<1>10. Kept(client'[c]) /\ \A d \in Clients \ {c} : client'[d] = client[d]
  BY <1>1, <1>9
<1>11. client' \in [Clients -> Person]
  BY <1>1, <1>9
<1>12. Types'
  BY <1>2, <1>8, <1>11 DEF Types
<1> QED
  BY <1>2, <1>8, <1>10, <1>12 DEF frame

\* All other connections are told, if they are in the room.
Told(r, frame) ==
  \A q \in Sessions \ {r} :
    IF q \in room THEN Hears(conn[q], conn'[q], frame) ELSE conn'[q] = conn[q]

\* The others are left alone.
Alone(r) == \A q \in Sessions \ {r} : conn'[q] = conn[q]

\* A session joins, and the room hears of it.
LEMMA JoinIs ==
  ASSUME Types, NEW r \in Sessions, Join(r)
  PROVE  /\ Types' /\ UNCHANGED <<now, client, caret, budget>>
         /\ conn[r].stage = "new" /\ room' = room \cup {r}
         /\ Told(r, [kind |-> "join", of |-> r])
         /\ conn'[r] = [conn[r] EXCEPT !.stage = "joined", !.pingAt = now, !.timers = {now + Stale}]
<1>1. conn \in [Sessions -> Connection] /\ conn[r] \in Connection /\ now + Stale \in Nat /\ now \in Nat
      /\ room \in SUBSET Sessions
  BY Numbers DEF Types
<1> DEFINE frame == [kind |-> "join", of |-> r]
           new == Broadcast(conn, room, r, frame)
           k == [conn[r] EXCEPT !.stage = "joined", !.pingAt = now, !.timers = {now + Stale}]
<1>2. frame \in Event
  BY DEF Event
<1>3. /\ conn[r].stage = "new" /\ room' = room \cup {r} /\ UNCHANGED <<now, client, caret, budget>>
      /\ conn' = [new EXCEPT ![r] = Arm([conn[r] EXCEPT !.stage = "joined", !.pingAt = now])]
  BY DEF Join, JoinRoom
<1>4. Arm([conn[r] EXCEPT !.stage = "joined", !.pingAt = now]) = k /\ k \in Connection
  BY <1>1 DEF Arm, Connection
<1> HIDE DEF k, frame
<1>5. /\ new \in [Sessions -> Connection]
      /\ \A q \in Sessions :
           IF q \in room /\ q # r THEN Hears(conn[q], new[q], frame) ELSE new[q] = conn[q]
  BY <1>1, <1>2, BroadcastIs
<1> HIDE DEF new
<1>6. conn' = [new EXCEPT ![r] = k]
  BY <1>3, <1>4
<1>7. conn' \in [Sessions -> Connection] /\ conn'[r] = k /\ Told(r, frame)
  BY <1>4, <1>5, <1>6 DEF Told
<1>8. Types'
  BY <1>1, <1>3, <1>7 DEF Types
<1> QED
  BY <1>3, <1>7, <1>8 DEF k, frame

\* A session is sent the roster, if it is still in the room.
LEMMA SendRosterIs ==
  ASSUME Types, NEW r \in Sessions, SendRoster(r)
  PROVE  /\ Types' /\ UNCHANGED <<now, room, client, caret, budget>>
         /\ conn[r].stage = "joined" /\ Alone(r)
         /\ \E k : /\ k = [conn[r] EXCEPT !.stage = "live", !.seen = caret]
                   /\ IF r \in room THEN Hears(k, conn'[r], [kind |-> "roster", members |-> room])
                      ELSE conn'[r] = k
<1>1. conn \in [Sessions -> Connection] /\ conn[r] \in Connection /\ caret \in [Sessions -> Moves]
      /\ room \in SUBSET Sessions
  BY DEF Types
<1> DEFINE frame == [kind |-> "roster", members |-> room]
           k == [conn[r] EXCEPT !.stage = "live", !.seen = caret]
           l == IF r \in room THEN Enqueue(k, frame) ELSE k
<1>2. frame \in Event
  BY <1>1 DEF Event
<1>3. /\ conn[r].stage = "joined" /\ UNCHANGED <<now, room, client, caret, budget>>
      /\ conn' = [conn EXCEPT ![r] = l]
  BY DEF SendRoster
<1>4. k \in Connection
  BY <1>1 DEF Connection
<1> HIDE DEF k, frame
<1>5. l \in Connection /\ IF r \in room THEN Hears(k, l, frame) ELSE l = k
  BY <1>2, <1>4, EnqueueIs
<1> HIDE DEF l
<1>6. conn' \in [Sessions -> Connection] /\ conn'[r] = l /\ Alone(r)
  BY <1>1, <1>3, <1>5 DEF Alone
<1>7. Types'
  BY <1>3, <1>6 DEF Types
<1> QED
  BY <1>3, <1>5, <1>6, <1>7 DEF k, frame

\* A session hears a frame of its client.
LEMMA UpFrame ==
  ASSUME Types, NEW r \in Sessions, conn[r].up # <<>>
  PROVE  /\ Head(conn[r].up) \in Frame /\ Tail(conn[r].up) \in Seq(Frame)
         /\ Head(conn[r].up) = conn[r].up[1]
         /\ Len(Tail(conn[r].up)) = Len(conn[r].up) - 1
         /\ \A i \in DOMAIN Tail(conn[r].up) :
              i + 1 \in DOMAIN conn[r].up /\ Tail(conn[r].up)[i] = conn[r].up[i + 1]
<1>1. conn[r].up \in Seq(Frame)
  BY ConnectionFields DEF Types
<1> QED
  BY <1>1

\* A ping sets the timer of its session anew, and the pong is heard.
LEMMA HandlePingIs ==
  ASSUME Types, NEW r \in Sessions, conn[r].owner \in Clients, conn[r].up # <<>>, HandlePing(r),
         UNCHANGED <<now, budget>>
  PROVE  /\ Types' /\ UNCHANGED <<now, room, caret, budget>> /\ Alone(r)
         /\ \A c \in Clients :
              /\ client'[c].ws = client[c].ws /\ client'[c].overlay = client[c].overlay
              /\ client'[c].flushAt = client[c].flushAt /\ client'[c].pending = client[c].pending
              /\ client'[c].state = client[c].state /\ client'[c].pingDue = client[c].pingDue
              /\ client'[c].closing = client[c].closing
              /\ \/ client'[c].aliveAt = client[c].aliveAt /\ client'[c].heardAt = client[c].heardAt
                 \/ client'[c].aliveAt = now /\ client'[c].heardAt = now
         /\ conn'[r] = [conn[r] EXCEPT !.pingAt = now, !.stale = FALSE, !.up = Tail(conn[r].up),
                                       !.timers = {now + Stale}]
<1> DEFINE c == conn[r].owner
           k == [conn[r] EXCEPT !.pingAt = now, !.stale = FALSE, !.up = Tail(conn[r].up),
                                !.timers = {now + Stale}]
           p == [[client[c] EXCEPT !.aliveAt = now] EXCEPT !.heardAt = now]
<1>1. /\ conn \in [Sessions -> Connection] /\ conn[r] \in Connection /\ now + Stale \in Nat
      /\ now \in Nat /\ client \in [Clients -> Person] /\ client[c] \in Person
  BY Numbers DEF Types
<1>2. Tail(conn[r].up) \in Seq(Frame)
  BY UpFrame
<1>3. /\ UNCHANGED <<room, caret>>
      /\ conn' = [conn EXCEPT ![r] = Arm([conn[r] EXCEPT !.pingAt = now, !.stale = FALSE,
                                                         !.up = Tail(conn[r].up)])]
      /\ client' = client \/ client' = [client EXCEPT ![c] = p]
  BY DEF HandlePing, MarkAlive
<1>4. Arm([conn[r] EXCEPT !.pingAt = now, !.stale = FALSE, !.up = Tail(conn[r].up)]) = k
  BY <1>1 DEF Arm, Connection
<1>5. k \in Connection
  BY <1>1, <1>2 DEF Connection
<1> HIDE DEF k
<1>6. conn' \in [Sessions -> Connection] /\ conn'[r] = k /\ Alone(r)
  BY <1>1, <1>3, <1>4, <1>5 DEF Alone
<1>7. /\ p \in Person /\ p.ws = client[c].ws /\ p.overlay = client[c].overlay
      /\ p.flushAt = client[c].flushAt /\ p.pending = client[c].pending
      /\ p.state = client[c].state /\ p.pingDue = client[c].pingDue /\ p.aliveAt = now
      /\ p.heardAt = now /\ p.closing = client[c].closing
  BY <1>1 DEF Person
<1> HIDE DEF p
<1>8. client' \in [Clients -> Person] /\ \A d \in Clients : client'[d] = client[d] \/ (d = c /\ client'[d] = p)
  BY <1>1, <1>3, <1>7
<1>9. Types'
  BY <1>3, <1>6, <1>8 DEF Types
<1> QED
  BY <1>3, <1>6, <1>7, <1>8, <1>9 DEF k

\* An update is dropped, refused, or relayed: k is the session when it has been
\* taken.
Taken(r, frame) ==
  [conn[r] EXCEPT !.up = Tail(conn[r].up),
                  !.late = conn[r].late \/ (r \in room /\ now > frame.sent)]

Dropped(r, k) == r \notin room /\ Alone(r) /\ UNCHANGED caret /\ conn'[r] = k

Refused(r, k) ==
  /\ r \in room /\ Cardinality(Hits(k)) >= MaxUpdates
  /\ Alone(r) /\ UNCHANGED caret
  /\ conn'[r] = [k EXCEPT !.hits = Hits(k), !.refused = TRUE]

Relayed(r, frame, k) ==
  /\ r \in room /\ ~(Cardinality(Hits(k)) >= MaxUpdates)
  /\ Told(r, [kind |-> "update", of |-> r, caret |-> frame.caret])
  /\ caret' = [caret EXCEPT ![r] = frame.caret]
  /\ conn'[r] = [k EXCEPT !.hits = Hits(k) \cup {Len(k.relayed) + 1},
                          !.relayed = Append(k.relayed, now)]

\* An update is taken from the frames under way, and one of the three follows.
LEMMA HandleUpdateIs ==
  ASSUME Types, NEW r \in Sessions, conn[r].up # <<>>, NEW frame, frame = Head(conn[r].up),
         frame.kind = "update", HandleUpdate(r, frame), UNCHANGED <<now, budget>>
  PROVE  /\ Types' /\ UNCHANGED <<now, room, client, budget>>
         /\ Taken(r, frame) \in Connection
         /\ \/ Dropped(r, Taken(r, frame))
            \/ Refused(r, Taken(r, frame))
            \/ Relayed(r, frame, Taken(r, frame))
<1> DEFINE late == conn[r].late \/ (r \in room /\ now > frame.sent)
           k == [conn[r] EXCEPT !.up = Tail(conn[r].up), !.late = late]
           hits == Hits(conn[r])
           told == [kind |-> "update", of |-> r, caret |-> frame.caret]
           refused == [k EXCEPT !.hits = hits, !.refused = TRUE]
           relayed == [k EXCEPT !.hits = hits \cup {Len(k.relayed) + 1},
                                !.relayed = Append(k.relayed, now)]
<1>1. /\ conn \in [Sessions -> Connection] /\ conn[r] \in Connection /\ now \in Nat
      /\ caret \in [Sessions -> Moves] /\ client \in [Clients -> Person]
  BY DEF Types
<1>2. Tail(conn[r].up) \in Seq(Frame) /\ late \in BOOLEAN
  BY <1>1, UpFrame, ConnectionFields
<1>3. frame.caret \in Moves
  BY UpFrame DEF Frame
<1>4. /\ \/ r \notin room /\ conn' = [conn EXCEPT ![r] = k] /\ caret' = caret
         \/ /\ r \in room /\ Cardinality(hits) >= MaxUpdates
            /\ conn' = [conn EXCEPT ![r] = refused] /\ caret' = caret
         \/ /\ r \in room /\ ~(Cardinality(hits) >= MaxUpdates)
            /\ conn' = Broadcast([conn EXCEPT ![r] = relayed], room, r, told)
            /\ caret' = [caret EXCEPT ![r] = frame.caret]
      /\ UNCHANGED <<room, client>>
  BY DEF HandleUpdate
<1> HIDE DEF late
<1>5. k \in Connection /\ k.hits = conn[r].hits /\ k.relayed = conn[r].relayed
  BY <1>1, <1>2 DEF Connection
<1>6. Hits(k) = hits
  BY <1>5 DEF Hits
<1>7. k = Taken(r, frame)
  BY DEF Taken, late
<1>8. hits \in SUBSET Nat /\ k.relayed \in Seq(Nat)
  BY <1>5, ConnectionFields DEF Hits
<1> HIDE DEF k, hits
<1>9. refused \in Connection
  BY <1>5, <1>8 DEF Connection
<1>10. relayed \in Connection
  <2>1. Append(k.relayed, now) \in Seq(Nat)
    BY <1>1, <1>8
  <2>2. Len(k.relayed) + 1 \in Nat
    BY <1>8
  <2>3. hits \cup {Len(k.relayed) + 1} \in SUBSET Nat
    BY <1>8, <2>2
  <2> QED
    BY <1>5, <2>1, <2>3 DEF Connection
<1> HIDE DEF refused, relayed
<1>11. told \in Event
  BY <1>3 DEF Event
<1> HIDE DEF told
<1>12. CASE r \notin room
  <2>1. conn' = [conn EXCEPT ![r] = k] /\ caret' = caret
    BY <1>4, <1>12
  <2>2. conn' \in [Sessions -> Connection] /\ conn'[r] = k /\ Alone(r)
    BY <1>1, <1>5, <2>1 DEF Alone
  <2>3. Types'
    BY <1>4, <2>1, <2>2 DEF Types
  <2> QED
    BY <1>4, <1>5, <1>12, <1>7, <2>1, <2>2, <2>3 DEF Dropped
<1>13. CASE r \in room /\ Cardinality(hits) >= MaxUpdates
  <2>1. conn' = [conn EXCEPT ![r] = refused] /\ caret' = caret
    BY <1>4, <1>13
  <2>2. conn' \in [Sessions -> Connection] /\ conn'[r] = refused /\ Alone(r)
    BY <1>1, <1>9, <2>1 DEF Alone
  <2>3. Types'
    BY <1>4, <2>1, <2>2 DEF Types
  <2> QED
    BY <1>4, <1>5, <1>6, <1>13, <1>7, <2>1, <2>2, <2>3 DEF Refused, refused
<1>14. CASE r \in room /\ ~(Cardinality(hits) >= MaxUpdates)
  <2> DEFINE ks == [conn EXCEPT ![r] = relayed]
  <2>1. conn' = Broadcast(ks, room, r, told) /\ caret' = [caret EXCEPT ![r] = frame.caret]
    BY <1>4, <1>14
  <2>2. ks \in [Sessions -> Connection] /\ ks[r] = relayed /\ \A q \in Sessions \ {r} : ks[q] = conn[q]
    BY <1>1, <1>10
  <2> HIDE DEF ks
  <2>3. /\ conn' \in [Sessions -> Connection]
        /\ \A q \in Sessions :
             IF q \in room /\ q # r THEN Hears(ks[q], conn'[q], told) ELSE conn'[q] = ks[q]
    BY <1>11, <2>1, <2>2, BroadcastIs
  <2>4. conn'[r] = relayed /\ Told(r, told)
    BY <2>2, <2>3 DEF Told
  <2>5. caret' \in [Sessions -> Moves]
    BY <1>1, <1>3, <2>1
  <2>6. Types'
    BY <1>4, <2>3, <2>5 DEF Types
  <2> QED
    BY <1>4, <1>5, <1>6, <1>14, <1>7, <2>1, <2>4, <2>6 DEF Relayed, relayed, told
<1> QED
  BY <1>12, <1>13, <1>14

\* A frame that comes too early costs the client its socket.
LEMMA TooEarlyIs ==
  ASSUME Types, NEW r \in Sessions, conn[r].owner \in Clients, TooEarly(r)
  PROVE  /\ Types' /\ UNCHANGED <<now, room, caret, budget>> /\ Alone(r)
         /\ conn'[r] = [conn[r] EXCEPT !.up = <<>>]
         /\ \A c \in Clients : Aside(client[c], client'[c])
<1> DEFINE c == conn[r].owner
           k == [conn[r] EXCEPT !.up = <<>>]
<1>1. /\ conn \in [Sessions -> Connection] /\ conn[r] \in Connection
      /\ client \in [Clients -> Person] /\ client[c] \in Person
  BY DEF Types
<1>2. /\ conn' = [conn EXCEPT ![r] = k] /\ UNCHANGED <<now, room, caret, budget>>
      /\ client' = client \/ client' = [client EXCEPT ![c] = Closed(client[c])]
  BY <1>1 DEF TooEarly
<1>3. k \in Connection
  <2>1. <<>> \in Seq(Frame)
    OBVIOUS
  <2> QED
    BY <1>1, <2>1 DEF Connection
<1> HIDE DEF k
<1>4. conn' \in [Sessions -> Connection] /\ conn'[r] = k /\ Alone(r)
  BY <1>1, <1>2, <1>3 DEF Alone
<1>5. Closed(client[c]) \in Person /\ Aside(client[c], Closed(client[c]))
  BY <1>1, ClosedIs DEF Aside
<1>6. client' \in [Clients -> Person]
  BY <1>1, <1>2, <1>5
<1>7. ASSUME NEW d \in Clients PROVE Aside(client[d], client'[d])
  <2>1. Aside(client[d], client[d])
    BY DEF Aside
  <2> QED
    BY <1>1, <1>2, <1>5, <2>1
<1>8. Types'
  BY <1>2, <1>4, <1>6 DEF Types
<1> QED
  BY <1>2, <1>4, <1>7, <1>8 DEF k

\* A session that is in the room leaves it, and the others hear of it.
Leaves(r) ==
  /\ room' = room \ {r}
  /\ IF r \in room THEN Told(r, [kind |-> "leave", of |-> r]) ELSE Alone(r)

\* PresenceRoom.leave() is that.
LEMMA LeaveIs ==
  ASSUME Types, NEW r \in Sessions, NEW k \in Connection, Leave([conn EXCEPT ![r] = k], r)
  PROVE  conn' \in [Sessions -> Connection] /\ conn'[r] = k /\ Leaves(r)
<1> DEFINE frame == [kind |-> "leave", of |-> r]
           ks == [conn EXCEPT ![r] = k]
<1>1. conn \in [Sessions -> Connection]
  BY DEF Types
<1>2. frame \in Event
  BY DEF Event
<1>3. ks \in [Sessions -> Connection] /\ ks[r] = k /\ \A q \in Sessions \ {r} : ks[q] = conn[q]
  BY <1>1
<1>4. room' = room \ {r} /\ conn' = IF r \in room THEN Broadcast(ks, room, r, frame) ELSE ks
  BY DEF Leave
<1> HIDE DEF frame, ks
<1>5. CASE r \in room
  <2>1. conn' = Broadcast(ks, room, r, frame)
    BY <1>4, <1>5
  <2>2. /\ conn' \in [Sessions -> Connection]
        /\ \A q \in Sessions :
             IF q \in room /\ q # r THEN Hears(ks[q], conn'[q], frame) ELSE conn'[q] = ks[q]
    BY <1>2, <1>3, <2>1, BroadcastIs
  <2> QED
    BY <1>3, <1>4, <1>5, <2>2 DEF Told, Leaves, frame
<1>6. CASE r \notin room
  BY <1>3, <1>4, <1>6 DEF Alone, Leaves
<1> QED
  BY <1>5, <1>6

\* A session that goes stale leaves.
LEMMA GoStaleIs ==
  ASSUME Types, NEW r \in Sessions, GoStale(r)
  PROVE  /\ Types' /\ UNCHANGED <<now, client, caret, budget>> /\ Leaves(r)
         /\ \E t \in conn[r].timers :
              /\ t <= now
              /\ conn'[r] = [conn[r] EXCEPT !.stale = TRUE, !.timers = conn[r].timers \ {t}]
<1>1. conn \in [Sessions -> Connection] /\ conn[r] \in Connection /\ room \in SUBSET Sessions
  BY DEF Types
<1>2. UNCHANGED <<now, client, caret, budget>>
  BY DEF GoStale
<1>3. PICK t \in conn[r].timers :
        t <= now /\ Leave([conn EXCEPT ![r].stale = TRUE, ![r].timers = @ \ {t}], r)
  BY DEF GoStale
<1> DEFINE k == [conn[r] EXCEPT !.stale = TRUE, !.timers = conn[r].timers \ {t}]
           ks == [conn EXCEPT ![r].stale = TRUE, ![r].timers = @ \ {t}]
<1>4. k \in Connection
  BY <1>1 DEF Connection
<1>5. ks = [conn EXCEPT ![r] = k]
  BY <1>1 DEF Connection
<1>6. Leave(ks, r)
  BY <1>3
<1> HIDE DEF k, ks
<1>7. conn' \in [Sessions -> Connection] /\ conn'[r] = k /\ Leaves(r)
  BY <1>4, <1>5, <1>6, LeaveIs
<1>8. room' \subseteq Sessions
  BY <1>1, <1>7 DEF Leaves
<1>9. Types'
  BY <1>2, <1>7, <1>8 DEF Types
<1> QED
  BY <1>2, <1>3, <1>7, <1>9 DEF k

\* One that is closed leaves, unless it has not joined.
LEMMA CloseIs ==
  ASSUME Types, NEW r \in Sessions, Close(r)
  PROVE  /\ Types' /\ UNCHANGED <<now, client, caret, budget>>
         /\ client[conn[r].owner].ws # r \/ client[conn[r].owner].closing
         /\ \/ /\ conn[r].stage = "new" /\ UNCHANGED room /\ Alone(r)
               /\ conn'[r] = [conn[r] EXCEPT !.open = FALSE, !.up = <<>>]
            \/ /\ Leaves(r)
               /\ conn'[r] = [NoConn EXCEPT !.owner = conn[r].owner, !.stage = "gone"]
<1>1. conn \in [Sessions -> Connection] /\ conn[r] \in Connection /\ room \in SUBSET Sessions
  BY DEF Types
<1>2. /\ UNCHANGED <<now, client, caret, budget>>
      /\ client[conn[r].owner].ws # r \/ client[conn[r].owner].closing
  BY DEF Close
<1>3. CASE conn[r].stage = "new"
  <2> DEFINE k == [conn[r] EXCEPT !.open = FALSE, !.up = <<>>]
  <2>1. room' = room /\ conn' = [conn EXCEPT ![r] = k]
    BY <1>1, <1>3 DEF Close
  <2>2. k \in Connection
    <3>1. <<>> \in Seq(Frame)
      OBVIOUS
    <3> QED
      BY <1>1, <3>1 DEF Connection
  <2> HIDE DEF k
  <2>3. conn' \in [Sessions -> Connection] /\ conn'[r] = k /\ Alone(r)
    BY <1>1, <2>1, <2>2 DEF Alone
  <2>4. Types'
    BY <1>2, <2>1, <2>3 DEF Types
  <2> QED
    BY <1>2, <1>3, <2>1, <2>3, <2>4 DEF k
<1>4. CASE conn[r].stage # "new"
  <2> DEFINE k == [NoConn EXCEPT !.owner = conn[r].owner, !.stage = "gone"]
             ks == [conn EXCEPT ![r] = k]
  <2>1. Leave(ks, r)
    BY <1>4 DEF Close
  <2>2. k \in Connection
    BY <1>1, NoConnType, ConnectionFields DEF Connection
  <2> HIDE DEF k
  <2>3. conn' \in [Sessions -> Connection] /\ conn'[r] = k /\ Leaves(r)
    BY <2>1, <2>2, LeaveIs
  <2>4. room' \subseteq Sessions
    BY <1>1, <2>3 DEF Leaves
  <2>5. Types'
    BY <1>2, <2>3, <2>4 DEF Types
  <2> QED
    BY <1>2, <2>3, <2>5 DEF k
<1> QED
  BY <1>3, <1>4

\* A socket clogs, or clears.
LEMMA ClogIs ==
  ASSUME Types, NEW r \in Sessions, Clog(r)
  PROVE  /\ Types' /\ UNCHANGED <<now, room, client, caret>> /\ Alone(r)
         /\ budget'.moves = budget.moves /\ budget'.sessions = budget.sessions
         /\ conn'[r] = [conn[r] EXCEPT !.clogged = ~conn[r].clogged]
<1>1. conn \in [Sessions -> Connection] /\ conn[r] \in Connection
  BY DEF Types
<1> DEFINE k == [conn[r] EXCEPT !.clogged = ~conn[r].clogged]
<1>2. conn' = [conn EXCEPT ![r] = k] /\ UNCHANGED <<now, room, client, caret>>
      /\ (budget' = budget \/ Spend("clogs"))
  BY DEF Clog
<1>3. k \in Connection
  BY <1>1, ConnectionFields DEF Connection
<1> HIDE DEF k
<1>4. conn' \in [Sessions -> Connection] /\ conn'[r] = k /\ Alone(r)
  BY <1>1, <1>2, <1>3 DEF Alone
<1>5. budget' \in Budget /\ budget'.moves = budget.moves /\ budget'.sessions = budget.sessions
  BY <1>2, SpendIs DEF Types
<1>6. Types'
  BY <1>2, <1>4, <1>5 DEF Types
<1> QED
  BY <1>2, <1>4, <1>5, <1>6 DEF k

\* A frame of a lane is handled by the client that has its socket.
LEMMA DeliverIs ==
  ASSUME Types, NEW r \in Sessions, conn[r].lane # <<>> => conn[r].owner \in Clients, Deliver(r)
  PROVE  /\ Types' /\ UNCHANGED <<now, room, caret, budget>> /\ Alone(r)
         /\ conn[r].lane # <<>>
         /\ conn'[r] = [conn[r] EXCEPT !.lane = Tail(conn[r].lane)]
         /\ \A c \in Clients :
              /\ client'[c].ws = client[c].ws /\ client'[c].aliveAt = client[c].aliveAt
              /\ client'[c].flushAt = client[c].flushAt /\ client'[c].pending = client[c].pending
              /\ client'[c].state = client[c].state /\ client'[c].pingDue = client[c].pingDue
              /\ client'[c].heardAt = client[c].heardAt /\ client'[c].closing = client[c].closing
              /\ client'[c].overlay = IF client[c].ws = r /\ ~client[c].closing /\ c = conn[r].owner
                                      THEN HandlePresenceEvent(client[c].overlay, Head(conn[r].lane))
                                      ELSE client[c].overlay
<1> DEFINE c == conn[r].owner
           overlay == HandlePresenceEvent(client[c].overlay, Head(conn[r].lane))
           k == [conn[r] EXCEPT !.lane = Tail(conn[r].lane)]
           p == [client[c] EXCEPT !.overlay = overlay]
<1>1. conn[r].lane # <<>> /\ c \in Clients /\ UNCHANGED <<now, room, caret, budget>>
  BY DEF Deliver
<1>2. /\ conn \in [Sessions -> Connection] /\ conn[r] \in Connection /\ conn[r].lane \in Seq(Event)
      /\ client \in [Clients -> Person] /\ client[c] \in Person
  BY <1>1, ConnectionFields DEF Types
<1>3. /\ conn' = [conn EXCEPT ![r] = k]
      /\ client' = IF client[c].ws # r \/ client[c].closing THEN client
                   ELSE [client EXCEPT ![c] = p]
  BY <1>2 DEF Deliver
<1>4. Head(conn[r].lane) \in Event /\ Tail(conn[r].lane) \in Seq(Event)
  BY <1>1, <1>2
<1>5. k \in Connection
  BY <1>2, <1>4 DEF Connection
<1> HIDE DEF k
<1>6. conn' \in [Sessions -> Connection] /\ conn'[r] = k /\ Alone(r)
  BY <1>2, <1>3, <1>5 DEF Alone
<1>7. overlay \in Overlay
  BY <1>2, <1>4, OverlayType, PersonFields
<1> HIDE DEF overlay
<1>8. /\ p \in Person /\ p.ws = client[c].ws /\ p.aliveAt = client[c].aliveAt
      /\ p.flushAt = client[c].flushAt /\ p.pending = client[c].pending
      /\ p.state = client[c].state /\ p.pingDue = client[c].pingDue /\ p.overlay = overlay
      /\ p.heardAt = client[c].heardAt /\ p.closing = client[c].closing
  BY <1>2, <1>7 DEF Person
<1> HIDE DEF p
<1>9. /\ client' \in [Clients -> Person]
      /\ \A d \in Clients :
           client'[d] = IF client[c].ws = r /\ ~client[c].closing /\ d = c THEN p ELSE client[d]
  BY <1>1, <1>2, <1>3, <1>8
<1>10. Types'
  BY <1>1, <1>6, <1>9 DEF Types
<1> QED
  BY <1>1, <1>6, <1>8, <1>9, <1>10 DEF k, overlay

\* The clock goes on when no timer is due.
LEMMA TickIs ==
  ASSUME Types, Tick
  PROVE  /\ Types' /\ now' = now + 1 /\ UNCHANGED <<room, conn, client, caret>>
         /\ budget'.moves = budget.moves /\ budget'.sessions = budget.sessions
         /\ \A c \in Clients : \A t \in client[c].pingDue : t > now
         /\ \A r \in Sessions : \A t \in conn[r].timers : t > now
<1>1. now' = now + 1 /\ UNCHANGED <<room, conn, client, caret>> /\ Spend("ticks") /\ now \in Nat
  BY DEF Tick, Types
<1>2. budget' \in Budget /\ budget'.moves = budget.moves /\ budget'.sessions = budget.sessions
  BY <1>1, SpendIs
<1>3. Types'
  BY <1>1, <1>2 DEF Types
<1>4. ASSUME NEW c \in Clients, NEW t \in client[c].pingDue PROVE t > now
  <2>1. t \in Nat
    BY PersonFields DEF Types
  <2> QED
    BY <1>1, <2>1 DEF Tick, Due
<1>5. ASSUME NEW r \in Sessions, NEW t \in conn[r].timers PROVE t > now
  <2>1. t \in Nat
    BY ConnectionFields DEF Types
  <2> QED
    BY <1>1, <2>1 DEF Tick, Due
<1> QED
  BY <1>1, <1>2, <1>3, <1>4, <1>5

-----------------------------------------------------------------------------
(* The shape of the state *)

\* A step keeps the place of a session in its life.
KeepsPlace(q) ==
  /\ conn'[q].owner = conn[q].owner
  /\ conn[q].stage = "none" => conn'[q] = conn[q]
  /\ conn'[q].stage = "none" => conn[q].stage = "none"
  /\ conn'[q].stage = "new" => conn[q].stage = "new"
  /\ conn'[q].stage \in {"none", "new"} => q \notin room' /\ caret'[q] = caret[q]
  /\ q \in room' => conn'[q].stage \in {"joined", "live"}
  /\ conn'[q].lane # <<>> => conn'[q].open
  /\ conn'[q].stage = "new" => conn'[q].lane = <<>>

\* A client keeps its socket, or has none any more.
Holds(c) ==
  \/ client'[c].ws = Nobody /\ ~client'[c].closing /\ client'[c].pingDue = {}
  \/ /\ client'[c].ws = client[c].ws
     /\ client'[c].closing \/ client'[c].pingDue # {} =>
          client[c].closing \/ client[c].pingDue # {} \/ client[c].ws # Nobody

\* When all do, the shape is kept.
LEMMA ShapeKept ==
  ASSUME Shape, Types', budget'.sessions = budget.sessions,
         \A q \in Sessions : KeepsPlace(q),
         \A c \in Clients : Holds(c)
  PROVE  Shape'
<1>1. Openings'
  <2>1. PICK n \in 0..MaxSessions :
          n + budget.sessions <= MaxSessions /\ \A r \in Sessions : conn[r].stage = "none" <=> r > n
    BY DEF Shape, Openings
  <2>2. \A r \in Sessions : conn'[r].stage = "none" <=> r > n
    BY <2>1 DEF KeepsPlace
  <2> QED
    BY <2>1, <2>2 DEF Openings
<1>2. Unopened'
  <2> SUFFICES ASSUME NEW r \in Sessions
               PROVE  /\ conn'[r].stage = "none" => conn'[r] = NoConn
                      /\ conn'[r].stage # "none" => conn'[r].owner \in Clients
                      /\ conn'[r].stage \in {"none", "new"} => r \notin room' /\ caret'[r] = 0
    BY DEF Unopened
  <2>1. KeepsPlace(r)
    OBVIOUS
  <2>2. /\ conn[r].stage = "none" => conn[r] = NoConn
        /\ conn[r].stage # "none" => conn[r].owner \in Clients
        /\ conn[r].stage \in {"none", "new"} => r \notin room /\ caret[r] = 0
    BY DEF Shape, Unopened
  <2>3. conn'[r].stage = "none" => conn'[r] = NoConn
    BY <2>1, <2>2 DEF KeepsPlace
  <2>4. conn'[r].stage # "none" => conn'[r].owner \in Clients
    BY <2>1, <2>2 DEF KeepsPlace
  <2>5. conn'[r].stage \in {"none", "new"} => r \notin room' /\ caret'[r] = 0
    BY <2>1, <2>2 DEF KeepsPlace
  <2> QED
    BY <2>3, <2>4, <2>5
<1>3. Places'
  BY DEF Places, KeepsPlace
<1>4. Sockets'
  <2>1. ASSUME NEW c \in Clients, client'[c].ws # Nobody
        PROVE  conn'[client'[c].ws].stage # "none" /\ conn'[client'[c].ws].owner = c
    <3>1. client'[c].ws = client[c].ws /\ client[c].ws \in Sessions
      BY <2>1, PersonFields DEF Holds, Shape, Types
    <3>2. conn[client[c].ws].stage # "none" /\ conn[client[c].ws].owner = c
      BY <2>1, <3>1 DEF Shape, Sockets
    <3> QED
      BY <3>1, <3>2 DEF KeepsPlace
  <2>2. ASSUME NEW c \in Clients, client'[c].closing \/ client'[c].pingDue # {}
        PROVE  client'[c].ws # Nobody
    BY <2>2 DEF Holds, Shape, Sockets
  <2> QED
    BY <2>1, <2>2 DEF Sockets
<1> QED
  BY <1>1, <1>2, <1>3, <1>4 DEF Shape

\* What a session is before a step.
LEMMA PlaceBefore ==
  ASSUME Shape, NEW q \in Sessions
  PROVE  /\ conn[q] \in Connection
         /\ conn[q].stage = "none" => conn[q] = NoConn
         /\ conn[q].stage # "none" => conn[q].owner \in Clients
         /\ conn[q].stage \in {"none", "new"} => q \notin room /\ caret[q] = 0
         /\ q \in room => conn[q].stage \in {"joined", "live"}
         /\ conn[q].lane # <<>> => conn[q].open /\ conn[q].owner \in Clients
         /\ conn[q].stage = "new" => conn[q].lane = <<>>
<1>1. /\ conn[q] \in Connection
      /\ conn[q].stage = "none" => conn[q] = NoConn
      /\ conn[q].stage # "none" => conn[q].owner \in Clients
      /\ conn[q].stage \in {"none", "new"} => q \notin room /\ caret[q] = 0
      /\ q \in room => conn[q].stage \in {"joined", "live"}
      /\ conn[q].lane # <<>> => conn[q].open
      /\ conn[q].stage = "new" => conn[q].lane = <<>>
  BY DEF Shape, Types, Unopened, Places
<1>2. conn[q].lane # <<>> => conn[q].stage # "none"
  BY <1>1, NoConnType
<1> QED
  BY <1>1, <1>2

\* The sessions a step of another one leaves alone, or tells of it, keep their
\* places.
LEMMA OthersKeep ==
  ASSUME Shape, NEW r, NEW frame, NEW q \in Sessions \ {r}, Told(r, frame) \/ Alone(r),
         q \in room' => q \in room, caret'[q] = caret[q]
  PROVE  KeepsPlace(q)
<1>1. conn'[q] = conn[q] \/ (q \in room /\ Hears(conn[q], conn'[q], frame))
  BY DEF Told, Alone
<1>2. CASE conn'[q] = conn[q]
  BY <1>2, PlaceBefore DEF KeepsPlace
<1>3. CASE q \in room /\ Hears(conn[q], conn'[q], frame)
  <2>1. /\ conn'[q].owner = conn[q].owner /\ conn'[q].stage = conn[q].stage
        /\ conn'[q].open = conn[q].open /\ (~conn[q].open => conn'[q] = conn[q])
    BY <1>3 DEF Hears, SameButLane
  <2>2. conn[q].stage \in {"joined", "live"}
    BY <1>3, PlaceBefore
  <2>3. conn'[q].lane # <<>> => conn'[q].open
    BY <2>1, PlaceBefore
  <2> QED
    BY <2>1, <2>2, <2>3 DEF KeepsPlace
<1> QED
  BY <1>1, <1>2, <1>3

\* A step that does not touch the sessions keeps their places.
LEMMA NothingMoved ==
  ASSUME Shape, UNCHANGED <<room, conn, caret>>
  PROVE  \A q \in Sessions : KeepsPlace(q)
BY PlaceBefore DEF KeepsPlace

\* Sending a frame keeps the places as well.
LEMMA SendsKeep ==
  ASSUME Shape, NEW r \in {Nobody} \cup Sessions, NEW frame, Sends(r, frame),
         r \in Sessions => conn[r].stage # "none", UNCHANGED <<room, caret>>
  PROVE  \A q \in Sessions : KeepsPlace(q)
<1> SUFFICES ASSUME NEW q \in Sessions PROVE KeepsPlace(q)
  OBVIOUS
<1>1. CASE q = r
  <2>1. conn'[q] = [conn[q] EXCEPT !.up = Append(conn[q].up, frame)] /\ conn[q] \in Connection
    BY <1>1, PlaceBefore DEF Sends
  <2>2. /\ conn'[q].owner = conn[q].owner /\ conn'[q].stage = conn[q].stage
        /\ conn'[q].open = conn[q].open /\ conn'[q].lane = conn[q].lane
    BY <2>1 DEF Connection
  <2> QED
    BY <1>1, <2>2, PlaceBefore DEF KeepsPlace
<1>2. CASE q # r
  <2>1. conn'[q] = conn[q]
    BY <1>2 DEF Sends
  <2> QED
    BY <2>1, PlaceBefore DEF KeepsPlace
<1> QED
  BY <1>1, <1>2

\* A caret that is due is one that was put.
LEMMA PendingCounts ==
  ASSUME Shape, Carets, NEW c \in Clients
  PROVE  client[c].flushAt # {} => client[c].pending # 0
<1>1. client[c].flushAt # {} => client[c].pending > budget.moves
  BY DEF Carets, PendingIsNewest
<1>2. budget.moves \in Nat
  BY Numbers DEF Shape, Types, Budget, Moves
<1>3. client[c].pending \in Nat
  BY PersonFields, Numbers DEF Shape, Types, Moves
<1> QED
  BY <1>1, <1>2, <1>3

\* A client only sends on a socket it has.
LEMMA SocketOpened ==
  ASSUME Shape, NEW c \in Clients
  PROVE  /\ client[c].ws \in {Nobody} \cup Sessions
         /\ client[c].ws \in Sessions => client[c].ws # Nobody /\ conn[client[c].ws].stage # "none"
<1>1. client[c].ws \in {Nobody} \cup Sessions
  BY PersonFields DEF Shape, Types
<1>2. Nobody \notin Sessions
  BY Numbers DEF Nobody, Sessions
<1> QED
  BY <1>1, <1>2 DEF Shape, Sockets

\* The socket of a client is new, or one it had.
LEMMA ShapeOpens ==
  ASSUME Shape, NEW c \in Clients, OpenSocketNow(c)
  PROVE  Shape'
<1>1. Types /\ Openings /\ Unopened
  BY DEF Shape
<1>2. /\ Types' /\ Openings' /\ UNCHANGED <<now, room, caret>>
      /\ \A d \in Clients \ {c} : client'[d] = client[d]
  BY <1>1, OpenSocketNowIs
<1>3. PICK r \in Sessions :
        /\ conn[r].stage = "none" /\ client'[c].ws = r
        /\ \A q \in Sessions \ {r} : conn'[q] = conn[q]
        /\ conn'[r] = [NoConn EXCEPT !.owner = c, !.stage = "new", !.open = TRUE]
  BY <1>1, OpenSocketNowIs
<1>4. conn'[r].owner = c /\ conn'[r].stage = "new" /\ conn'[r].open /\ conn'[r].lane = <<>>
  BY <1>3, NoConnType DEF Connection
<1>5. Unopened'
  <2>1. r \notin room' /\ caret'[r] = 0
    BY <1>2, <1>3, PlaceBefore
  <2>2. ASSUME NEW q \in Sessions \ {r}
        PROVE  /\ conn'[q].stage = "none" => conn'[q] = NoConn
               /\ conn'[q].stage # "none" => conn'[q].owner \in Clients
               /\ conn'[q].stage \in {"none", "new"} => q \notin room' /\ caret'[q] = 0
    BY <1>2, <1>3, PlaceBefore
  <2> QED
    BY <1>4, <2>1, <2>2 DEF Unopened
<1>6. Places'
  <2>1. r \notin room'
    BY <1>2, <1>3, PlaceBefore
  <2>2. ASSUME NEW q \in Sessions \ {r}
        PROVE  /\ q \in room' => conn'[q].stage \in {"joined", "live"}
               /\ conn'[q].lane # <<>> => conn'[q].open
               /\ conn'[q].stage = "new" => conn'[q].lane = <<>>
    BY <1>2, <1>3, PlaceBefore
  <2> QED
    BY <1>4, <2>1, <2>2 DEF Places
<1>7. Sockets'
  <2>1. ASSUME NEW d \in Clients \ {c}, client'[d].ws # Nobody
        PROVE  conn'[client'[d].ws].stage # "none" /\ conn'[client'[d].ws].owner = d
    <3>1. client'[d].ws = client[d].ws /\ client[d].ws \in Sessions
      BY <1>2, <2>1, SocketOpened
    <3>2. conn[client[d].ws].stage # "none" /\ conn[client[d].ws].owner = d
      BY <2>1, <3>1 DEF Shape, Sockets
    <3>3. client[d].ws # r
      BY <1>3, <3>2
    <3> QED
      BY <1>3, <3>1, <3>2, <3>3
  <2>2. r # Nobody
    BY Numbers DEF Sessions, Nobody
  <2>3. ASSUME NEW d \in Clients, client'[d].closing \/ client'[d].pingDue # {}
        PROVE  client'[d].ws # Nobody
    BY <1>2, <1>3, <2>2, <2>3 DEF Shape, Sockets
  <2> QED
    BY <1>3, <1>4, <2>1, <2>3 DEF Sockets
<1> QED
  BY <1>2, <1>5, <1>6, <1>7 DEF Shape

\* Every step keeps the shape.
LEMMA ShapeStep ==
  ASSUME Shape, Carets, [Next]_vars
  PROVE  Shape'
<1>1. Types
  BY DEF Shape
<1>2. ASSUME NEW c \in Clients, Connect(c) \/ Disconnect(c) \/ SocketLost(c) \/ CloseEvent(c) \/ Retry(c)
      PROVE  Shape'
  <2>1. /\ Types' /\ UNCHANGED <<now, room, conn, caret>> /\ budget'.sessions = budget.sessions
        /\ \A d \in Clients \ {c} : client'[d] = client[d]
        /\ Aside(client[c], client'[c])
    BY <1>1, <1>2, ClientAside
  <2>2. \A d \in Clients : Holds(d)
    BY <2>1 DEF Aside, Holds
  <2> QED
    BY <2>1, <2>2, NothingMoved, ShapeKept
<1>3. ASSUME NEW c \in Clients, OpenSocketNow(c) PROVE Shape'
  BY <1>3, ShapeOpens
<1>4. ASSUME NEW c \in Clients, Synced(c) PROVE Shape'
  <2>1. /\ Types' /\ UNCHANGED <<now, room, conn, caret, budget>>
        /\ \A d \in Clients : Holds(d)
    BY <1>1, <1>4, SyncedIs DEF Holds
  <2> QED
    BY <2>1, NothingMoved, ShapeKept
<1>5. ASSUME NEW c \in Clients, PingTimer(c) PROVE Shape'
  <2>1. /\ Types' /\ UNCHANGED <<now, room, caret, budget>>
        /\ \A d \in Clients \ {c} : client'[d] = client[d]
        /\ UNCHANGED conn \/ Sends(client[c].ws, [kind |-> "ping"])
        /\ Holds(c)
    BY <1>1, <1>5, PingTimerIs DEF Holds
  <2>2. \A q \in Sessions : KeepsPlace(q)
    BY <2>1, NothingMoved, SendsKeep, SocketOpened
  <2>3. \A d \in Clients : Holds(d)
    BY <2>1 DEF Holds
  <2> QED
    BY <2>1, <2>2, <2>3, ShapeKept
<1>6. ASSUME NEW c \in Clients, Move(c) PROVE Shape'
  <2>1. /\ Types' /\ UNCHANGED <<now, room, conn, caret>> /\ budget'.sessions = budget.sessions
        /\ \A d \in Clients : Holds(d)
    BY <1>1, <1>6, MoveIs DEF Holds
  <2> QED
    BY <2>1, NothingMoved, ShapeKept
<1>7. ASSUME NEW c \in Clients, Flush(c) PROVE Shape'
  <2> DEFINE frame == [kind |-> "update", caret |-> client[c].pending, sent |-> now]
  <2>1. client[c].flushAt # {} => client[c].pending # 0
    BY PendingCounts
  <2>2. /\ Types' /\ UNCHANGED <<now, room, caret, budget>>
        /\ \A d \in Clients : Holds(d)
        /\ UNCHANGED conn \/ Sends(client[c].ws, frame)
    BY <1>1, <1>7, <2>1, FlushIs DEF Holds
  <2> HIDE DEF frame
  <2>3. \A q \in Sessions : KeepsPlace(q)
    BY <2>2, NothingMoved, SendsKeep, SocketOpened
  <2> QED
    BY <2>2, <2>3, ShapeKept
<1>8. ASSUME NEW r \in Sessions, Join(r) PROVE Shape'
  <2>1. /\ Types' /\ UNCHANGED <<now, client, caret, budget>>
        /\ conn[r].stage = "new" /\ room' = room \cup {r}
        /\ Told(r, [kind |-> "join", of |-> r])
        /\ conn'[r] = [conn[r] EXCEPT !.stage = "joined", !.pingAt = now, !.timers = {now + Stale}]
    BY <1>1, <1>8, JoinIs
  <2>2. ASSUME NEW q \in Sessions \ {r} PROVE KeepsPlace(q)
    BY <2>1, OthersKeep
  <2>3. KeepsPlace(r)
    <3>1. conn[r] \in Connection
      BY PlaceBefore
    <3>2. /\ conn'[r].owner = conn[r].owner /\ conn'[r].stage = "joined"
          /\ conn'[r].open = conn[r].open /\ conn'[r].lane = conn[r].lane
      BY <2>1, <3>1 DEF Connection
    <3> QED
      BY <2>1, <3>2, PlaceBefore DEF KeepsPlace
  <2>4. \A q \in Sessions : KeepsPlace(q)
    BY <2>2, <2>3
  <2> QED
    BY <2>1, <2>4, ShapeKept DEF Holds
<1>9. ASSUME NEW r \in Sessions, SendRoster(r) PROVE Shape'
  <2>1. /\ Types' /\ UNCHANGED <<now, room, client, caret, budget>>
        /\ conn[r].stage = "joined" /\ Alone(r)
    BY <1>1, <1>9, SendRosterIs
  <2>2. PICK k : /\ k = [conn[r] EXCEPT !.stage = "live", !.seen = caret]
                 /\ IF r \in room THEN Hears(k, conn'[r], [kind |-> "roster", members |-> room])
                    ELSE conn'[r] = k
    BY <1>1, <1>9, SendRosterIs
  <2>3. \A q \in Sessions \ {r} : KeepsPlace(q)
    BY <2>1, OthersKeep
  <2>4. KeepsPlace(r)
    <3>1. conn[r] \in Connection
      BY PlaceBefore
    <3>2. /\ k.owner = conn[r].owner /\ k.stage = "live"
          /\ k.open = conn[r].open /\ k.lane = conn[r].lane
      BY <2>2, <3>1 DEF Connection
    <3>3. /\ conn'[r].owner = k.owner /\ conn'[r].stage = k.stage /\ conn'[r].open = k.open
          /\ (~k.open => conn'[r] = k)
      BY <2>2 DEF Hears, SameButLane
    <3> QED
      BY <2>1, <3>2, <3>3, PlaceBefore DEF KeepsPlace
  <2> QED
    BY <2>1, <2>3, <2>4, ShapeKept DEF Holds
<1>10. ASSUME NEW r \in Sessions, Hear(r) PROVE Shape'
  <2> DEFINE frame == Head(conn[r].up)
  <2>1. /\ conn[r].open /\ conn[r].stage \in {"joined", "live"} /\ conn[r].up # <<>>
        /\ UNCHANGED <<now, budget>>
        /\ (frame.kind = "ping" /\ HandlePing(r)) \/ (frame.kind = "update" /\ HandleUpdate(r, frame))
    BY <1>10 DEF Hear
  <2>2. conn[r] \in Connection /\ conn[r].owner \in Clients
    BY <2>1, PlaceBefore
  <2> HIDE DEF frame
  <2>3. CASE frame.kind = "ping" /\ HandlePing(r)
    <3>1. /\ Types' /\ UNCHANGED <<now, room, caret, budget>> /\ Alone(r)
          /\ \A c \in Clients : Holds(c)
          /\ conn'[r] = [conn[r] EXCEPT !.pingAt = now, !.stale = FALSE, !.up = Tail(conn[r].up),
                                        !.timers = {now + Stale}]
      BY <1>1, <2>1, <2>2, <2>3, HandlePingIs DEF Holds
    <3>2. \A q \in Sessions \ {r} : KeepsPlace(q)
      BY <3>1, OthersKeep
    <3>3. KeepsPlace(r)
      <4>1. /\ conn'[r].owner = conn[r].owner /\ conn'[r].stage = conn[r].stage
            /\ conn'[r].open = conn[r].open /\ conn'[r].lane = conn[r].lane
        BY <2>2, <3>1 DEF Connection
      <4> QED
        BY <2>1, <3>1, <4>1, PlaceBefore DEF KeepsPlace
    <3> QED
      BY <3>1, <3>2, <3>3, ShapeKept
  <2>4. CASE frame.kind = "update" /\ HandleUpdate(r, frame)
    <3> DEFINE k == Taken(r, frame)
    <3>1. Types' /\ UNCHANGED <<now, room, client, budget>>
      BY <1>1, <2>1, <2>4, HandleUpdateIs DEF frame
    <3>2. k \in Connection /\ (Dropped(r, k) \/ Refused(r, k) \/ Relayed(r, frame, k))
      BY <1>1, <2>1, <2>4, HandleUpdateIs DEF frame
    <3>3. /\ k.owner = conn[r].owner /\ k.stage = conn[r].stage
          /\ k.open = conn[r].open /\ k.lane = conn[r].lane
      BY <2>2 DEF Connection, Taken
    <3> HIDE DEF k
    <3>4. \A q \in Sessions \ {r} : caret'[q] = caret[q]
      BY <3>2 DEF Shape, Types, Dropped, Refused, Relayed
    <3>5. ASSUME NEW q \in Sessions \ {r} PROVE KeepsPlace(q)
      BY <3>1, <3>2, <3>4, OthersKeep DEF Dropped, Refused, Relayed
    <3>6. KeepsPlace(r)
      <4>1. /\ conn'[r].owner = k.owner /\ conn'[r].stage = k.stage
            /\ conn'[r].open = k.open /\ conn'[r].lane = k.lane
        BY <3>2 DEF Connection, Dropped, Refused, Relayed
      <4> QED
        BY <2>1, <3>1, <3>3, <4>1, PlaceBefore DEF KeepsPlace
    <3>7. \A q \in Sessions : KeepsPlace(q)
      BY <3>5, <3>6
    <3> QED
      BY <3>1, <3>7, ShapeKept DEF Holds
  <2> QED
    BY <2>1, <2>3, <2>4
<1>11. ASSUME NEW r \in Sessions, TooEarly(r) PROVE Shape'
  <2>1. conn[r] \in Connection /\ conn[r].owner \in Clients /\ conn[r].stage = "new"
    BY <1>11, PlaceBefore DEF TooEarly
  <2>2. /\ Types' /\ UNCHANGED <<now, room, caret, budget>> /\ Alone(r)
        /\ conn'[r] = [conn[r] EXCEPT !.up = <<>>]
        /\ \A c \in Clients : Holds(c)
    BY <1>1, <1>11, <2>1, TooEarlyIs DEF Aside, Holds
  <2>3. \A q \in Sessions \ {r} : KeepsPlace(q)
    BY <2>2, OthersKeep
  <2>4. KeepsPlace(r)
    <3>1. /\ conn'[r].owner = conn[r].owner /\ conn'[r].stage = conn[r].stage
          /\ conn'[r].open = conn[r].open /\ conn'[r].lane = conn[r].lane
      BY <2>1, <2>2 DEF Connection
    <3> QED
      BY <2>1, <2>2, <3>1, PlaceBefore DEF KeepsPlace
  <2> QED
    BY <2>2, <2>3, <2>4, ShapeKept
<1>12. ASSUME NEW r \in Sessions, GoStale(r) PROVE Shape'
  <2>1. Types' /\ UNCHANGED <<now, client, caret, budget>> /\ Leaves(r)
    BY <1>1, <1>12, GoStaleIs
  <2>2. PICK t \in conn[r].timers :
          conn'[r] = [conn[r] EXCEPT !.stale = TRUE, !.timers = conn[r].timers \ {t}]
    BY <1>1, <1>12, GoStaleIs
  <2>3. ASSUME NEW q \in Sessions \ {r} PROVE KeepsPlace(q)
    BY <2>1, OthersKeep DEF Leaves
  <2>4. KeepsPlace(r)
    <3>1. conn[r] \in Connection /\ conn[r].stage # "none"
      BY <2>2, PlaceBefore, NoConnType
    <3>2. /\ conn'[r].owner = conn[r].owner /\ conn'[r].stage = conn[r].stage
          /\ conn'[r].open = conn[r].open /\ conn'[r].lane = conn[r].lane
      BY <2>2, <3>1 DEF Connection
    <3> QED
      BY <2>1, <3>1, <3>2, PlaceBefore DEF KeepsPlace, Leaves
  <2>5. \A q \in Sessions : KeepsPlace(q)
    BY <2>3, <2>4
  <2> QED
    BY <2>1, <2>5, ShapeKept DEF Holds
<1>13. ASSUME NEW r \in Sessions, Close(r) PROVE Shape'
  <2>1. /\ Types' /\ UNCHANGED <<now, client, caret, budget>>
        /\ \/ /\ conn[r].stage = "new" /\ UNCHANGED room /\ Alone(r)
              /\ conn'[r] = [conn[r] EXCEPT !.open = FALSE, !.up = <<>>]
           \/ /\ Leaves(r)
              /\ conn'[r] = [NoConn EXCEPT !.owner = conn[r].owner, !.stage = "gone"]
    BY <1>1, <1>13, CloseIs
  <2>2. conn[r] \in Connection /\ conn[r].stage # "none"
    BY <1>13, PlaceBefore, NoConnType DEF Close
  <2>3. CASE /\ conn[r].stage = "new" /\ UNCHANGED room /\ Alone(r)
             /\ conn'[r] = [conn[r] EXCEPT !.open = FALSE, !.up = <<>>]
    <3>1. \A q \in Sessions \ {r} : KeepsPlace(q)
      BY <2>1, <2>3, OthersKeep
    <3>2. conn'[r].owner = conn[r].owner /\ conn'[r].stage = "new" /\ conn'[r].lane = conn[r].lane
      BY <2>2, <2>3 DEF Connection
    <3>3. KeepsPlace(r)
      BY <2>1, <2>3, <3>2, PlaceBefore DEF KeepsPlace
    <3> QED
      BY <2>1, <3>1, <3>3, ShapeKept DEF Holds
  <2>4. CASE /\ Leaves(r)
             /\ conn'[r] = [NoConn EXCEPT !.owner = conn[r].owner, !.stage = "gone"]
    <3>1. ASSUME NEW q \in Sessions \ {r} PROVE KeepsPlace(q)
      BY <2>1, <2>4, OthersKeep DEF Leaves
    <3>2. conn'[r].owner = conn[r].owner /\ conn'[r].stage = "gone" /\ conn'[r].lane = <<>>
      BY <2>4, NoConnType DEF Connection
    <3>3. KeepsPlace(r)
      BY <2>1, <2>2, <2>4, <3>2 DEF KeepsPlace, Leaves
    <3>4. \A q \in Sessions : KeepsPlace(q)
      BY <3>1, <3>3
    <3> QED
      BY <2>1, <3>4, ShapeKept DEF Holds
  <2> QED
    BY <2>1, <2>3, <2>4
<1>14. ASSUME NEW r \in Sessions, Clog(r) \/ Deliver(r) PROVE Shape'
  <2>1. conn[r] \in Connection /\ (conn[r].lane # <<>> => conn[r].owner \in Clients)
    BY PlaceBefore
  <2>2. /\ Types' /\ UNCHANGED <<now, room, caret>> /\ budget'.sessions = budget.sessions /\ Alone(r)
        /\ \A c \in Clients : Holds(c)
        /\ \/ conn'[r] = [conn[r] EXCEPT !.clogged = ~conn[r].clogged]
           \/ /\ conn[r].lane # <<>>
              /\ conn'[r] = [conn[r] EXCEPT !.lane = Tail(conn[r].lane)]
    <3>1. CASE Clog(r)
      BY <1>1, <3>1, ClogIs DEF Holds
    <3>2. CASE Deliver(r)
      BY <1>1, <2>1, <3>2, DeliverIs DEF Holds
    <3> QED
      BY <1>14, <3>1, <3>2
  <2>3. \A q \in Sessions \ {r} : KeepsPlace(q)
    BY <2>2, OthersKeep
  <2>4. KeepsPlace(r)
    <3>1. /\ conn'[r].owner = conn[r].owner /\ conn'[r].stage = conn[r].stage
          /\ conn'[r].open = conn[r].open /\ (conn'[r].lane # <<>> => conn[r].lane # <<>>)
      BY <2>1, <2>2 DEF Connection
    <3>2. conn[r].stage # "none"
      BY <1>14, <2>1, PlaceBefore, NoConnType DEF Clog, Deliver
    <3> QED
      BY <2>2, <3>1, <3>2, PlaceBefore DEF KeepsPlace
  <2> QED
    BY <2>2, <2>3, <2>4, ShapeKept
<1>15. CASE Tick
  <2>1. Types' /\ UNCHANGED <<room, conn, client, caret>> /\ budget'.sessions = budget.sessions
    BY <1>1, <1>15, TickIs
  <2> QED
    BY <2>1, NothingMoved, ShapeKept DEF Holds
<1>16. CASE UNCHANGED vars
  <2>1. Types' /\ UNCHANGED <<room, conn, client, caret, budget>>
    BY <1>1, <1>16 DEF vars, Types
  <2> QED
    BY <2>1, NothingMoved, ShapeKept DEF Holds
<1> QED
  BY <1>2, <1>3, <1>4, <1>5, <1>6, <1>7, <1>8, <1>9, <1>10, <1>11, <1>12, <1>13, <1>14, <1>15, <1>16
  DEF Next

-----------------------------------------------------------------------------
(* Steps that put no update anywhere *)

\* The updates under way in l are the last ones of those in k.
Shrinks(k, l) ==
  \E m \in Nat : \A i \in DOMAIN l.up :
    l.up[i].kind = "update" => i + m \in DOMAIN k.up /\ l.up[i] = k.up[i + m]

\* What the limiter and its record know of the session stays, or all is forgotten.
SamePace(k, l) ==
  \/ l.hits = k.hits /\ l.relayed = k.relayed /\ l.late = k.late /\ l.refused = k.refused
  \/ l.hits = {} /\ l.relayed = <<>> /\ ~l.late /\ ~l.refused

\* Nothing is put for the session.
Calm(q) ==
  LET k == conn[q]
      l == conn'[q]
  IN  /\ Shrinks(k, l) /\ SamePace(k, l)
      /\ l.owner = k.owner \/ (l.up = <<>> /\ l.relayed = <<>> /\ caret[q] = 0)
      /\ l.seen = k.seen \/ l.seen = [p \in Sessions |-> 0]

\* Nor by the client.
Resting(c) ==
  \/ client'[c].flushAt = {}
  \/ client'[c].flushAt = client[c].flushAt /\ client'[c].pending = client[c].pending

\* Frames that stay, or are all dropped,
LEMMA SameUpShrinks ==
  ASSUME NEW k \in Connection, NEW l, l.up = k.up \/ l.up = <<>>
  PROVE  Shrinks(k, l)
<1>1. k.up \in Seq(Frame)
  BY ConnectionFields
<1>2. \A i \in DOMAIN l.up : i + 0 \in DOMAIN k.up /\ l.up[i] = k.up[i + 0]
  BY <1>1
<1> QED
  BY <1>2 DEF Shrinks

\* or of which the first is taken,
LEMMA TailShrinks ==
  ASSUME NEW k \in Connection, k.up # <<>>, NEW l, l.up = Tail(k.up)
  PROVE  Shrinks(k, l)
<1>1. k.up \in Seq(Frame)
  BY ConnectionFields
<1>2. \A i \in DOMAIN l.up : i + 1 \in DOMAIN k.up /\ l.up[i] = k.up[i + 1]
  BY <1>1
<1> QED
  BY <1>2 DEF Shrinks

\* or behind which a ping is put.
LEMMA PingShrinks ==
  ASSUME NEW k \in Connection, NEW l, l.up = Append(k.up, [kind |-> "ping"])
  PROVE  Shrinks(k, l)
<1>1. k.up \in Seq(Frame)
  BY ConnectionFields
<1> DEFINE ping == [kind |-> "ping"]
<1>2. ping.kind # "update"
  OBVIOUS
<1> HIDE DEF ping
<1>3. l.up = Append(k.up, ping)
  BY DEF ping
<1>4. \A i \in DOMAIN l.up : l.up[i].kind = "update" => i + 0 \in DOMAIN k.up /\ l.up[i] = k.up[i + 0]
  BY <1>1, <1>2, <1>3
<1> QED
  BY <1>4 DEF Shrinks

\* A connection that does not change, or only hears something, is calm.
LEMMA CalmHearing ==
  ASSUME Shape, NEW q \in Sessions, NEW frame,
         conn'[q] = conn[q] \/ Hears(conn[q], conn'[q], frame)
  PROVE  Calm(q)
<1>1. /\ conn'[q].up = conn[q].up /\ conn'[q].owner = conn[q].owner
      /\ conn'[q].seen = conn[q].seen /\ SamePace(conn[q], conn'[q])
  BY DEF Hears, SameButLane, SamePace
<1>2. conn[q] \in Connection
  BY PlaceBefore
<1> QED
  BY <1>1, <1>2, SameUpShrinks DEF Calm

\* The steps: in all but four kinds, every session is calm and every client
\* rests.
Quiet ==
  /\ UNCHANGED caret /\ budget'.moves = budget.moves
  /\ \A q \in Sessions : Calm(q)
  /\ \A c \in Clients : Resting(c)

Update(r) ==
  /\ conn[r].up # <<>> /\ Head(conn[r].up).kind = "update"
  /\ HandleUpdate(r, Head(conn[r].up)) /\ UNCHANGED <<now, budget>>

\* Every step is quiet, or of one of the four kinds.
LEMMA QuietSteps ==
  ASSUME Shape, [Next]_vars
  PROVE  \/ Quiet
         \/ \E c \in Clients : Move(c) \/ Flush(c)
         \/ \E r \in Sessions : SendRoster(r) \/ Update(r)
<1> DEFINE Goal == \/ Quiet
                   \/ \E c \in Clients : Move(c) \/ Flush(c)
                   \/ \E r \in Sessions : SendRoster(r) \/ Update(r)
<1>1. Types /\ Openings /\ Unopened
  BY DEF Shape
<1>2. UNCHANGED conn => \A q \in Sessions : Calm(q)
  <2> SUFFICES ASSUME UNCHANGED conn, NEW q \in Sessions PROVE Calm(q)
    OBVIOUS
  <2>1. conn'[q] = conn[q]
    OBVIOUS
  <2> QED
    BY <2>1, CalmHearing
<1>3. ASSUME NEW r \in Sessions, Alone(r) \/ \E frame : Told(r, frame)
      PROVE  \A q \in Sessions \ {r} : Calm(q)
  <2> TAKE q \in Sessions \ {r}
  <2>1. \E frame : conn'[q] = conn[q] \/ Hears(conn[q], conn'[q], frame)
    BY <1>3 DEF Alone, Told
  <2> QED
    BY <2>1, CalmHearing
<1>4. ASSUME NEW c \in Clients, Connect(c) \/ Disconnect(c) \/ SocketLost(c) \/ CloseEvent(c) \/ Retry(c)
      PROVE  Quiet
  <2>1. /\ UNCHANGED <<conn, caret>> /\ budget'.moves = budget.moves
        /\ \A d \in Clients \ {c} : client'[d] = client[d]
        /\ Aside(client[c], client'[c])
    BY <1>1, <1>4, ClientAside
  <2>2. \A d \in Clients : Resting(d)
    BY <2>1 DEF Resting, Aside
  <2> QED
    BY <1>2, <2>1, <2>2 DEF Quiet
<1>5. ASSUME NEW c \in Clients, OpenSocketNow(c) PROVE Quiet
  <2>1. /\ UNCHANGED <<now, room, caret>> /\ budget'.moves = budget.moves
        /\ \A d \in Clients : Resting(d)
    BY <1>1, <1>5, OpenSocketNowIs DEF Resting
  <2>2. PICK r \in Sessions :
          /\ conn[r].stage = "none"
          /\ \A q \in Sessions \ {r} : conn'[q] = conn[q]
          /\ conn'[r] = [NoConn EXCEPT !.owner = c, !.stage = "new", !.open = TRUE]
    BY <1>1, <1>5, OpenSocketNowIs
  <2>3. Calm(r)
    <3>1. conn[r] = NoConn /\ conn[r] \in Connection /\ caret[r] = 0
      BY <2>2, PlaceBefore
    <3>2. /\ conn'[r].up = <<>> /\ conn'[r].relayed = <<>> /\ conn'[r].hits = {}
          /\ ~conn'[r].late /\ ~conn'[r].refused /\ conn'[r].seen = NoConn.seen
      BY <2>2, NoConnType DEF Connection
    <3> QED
      BY <3>1, <3>2, SameUpShrinks DEF Calm, SamePace
  <2>4. \A q \in Sessions \ {r} : Calm(q)
    BY <1>3, <2>2 DEF Alone
  <2> QED
    BY <2>1, <2>3, <2>4 DEF Quiet
<1>6. ASSUME NEW c \in Clients, Synced(c) PROVE Quiet
  <2>1. /\ UNCHANGED <<conn, caret, budget>> /\ \A d \in Clients : Resting(d)
    BY <1>1, <1>6, SyncedIs DEF Resting
  <2> QED
    BY <1>2, <2>1 DEF Quiet
<1>7. ASSUME NEW c \in Clients, PingTimer(c) PROVE Quiet
  <2>1. /\ UNCHANGED <<caret, budget>> /\ \A d \in Clients : Resting(d)
        /\ UNCHANGED conn \/ Sends(client[c].ws, [kind |-> "ping"])
    BY <1>1, <1>7, PingTimerIs DEF Resting, Aside
  <2>2. ASSUME NEW q \in Sessions, Sends(client[c].ws, [kind |-> "ping"])
        PROVE  Calm(q)
    <3>1. conn[q] \in Connection
      BY PlaceBefore
    <3>2. CASE q # client[c].ws
      BY <2>2, <3>2, CalmHearing DEF Sends
    <3>3. CASE q = client[c].ws
      <4>1. conn'[q] = [conn[q] EXCEPT !.up = Append(conn[q].up, [kind |-> "ping"])]
        BY <2>2, <3>3 DEF Sends
      <4>2. /\ conn'[q].up = Append(conn[q].up, [kind |-> "ping"])
            /\ conn'[q].owner = conn[q].owner /\ conn'[q].seen = conn[q].seen
            /\ conn'[q].hits = conn[q].hits /\ conn'[q].relayed = conn[q].relayed
            /\ conn'[q].late = conn[q].late /\ conn'[q].refused = conn[q].refused
        BY <3>1, <4>1 DEF Connection
      <4> QED
        BY <3>1, <4>2, PingShrinks DEF Calm, SamePace
    <3> QED
      BY <3>2, <3>3
  <2> QED
    BY <1>2, <2>1, <2>2 DEF Quiet
<1>8. ASSUME NEW r \in Sessions, Join(r) PROVE Quiet
  <2>1. /\ UNCHANGED <<client, caret, budget>> /\ Told(r, [kind |-> "join", of |-> r])
        /\ conn'[r] = [conn[r] EXCEPT !.stage = "joined", !.pingAt = now, !.timers = {now + Stale}]
    BY <1>1, <1>8, JoinIs
  <2>2. conn[r] \in Connection
    BY PlaceBefore
  <2>3. /\ conn'[r].up = conn[r].up /\ conn'[r].owner = conn[r].owner
        /\ conn'[r].seen = conn[r].seen /\ SamePace(conn[r], conn'[r])
    BY <2>1, <2>2 DEF Connection, SamePace
  <2>4. Calm(r)
    BY <2>2, <2>3, SameUpShrinks DEF Calm
  <2>5. \A q \in Sessions \ {r} : Calm(q)
    BY <1>3, <2>1
  <2> QED
    BY <2>1, <2>4, <2>5 DEF Quiet, Resting
<1>9. ASSUME NEW r \in Sessions, Hear(r) PROVE Goal
  <2>1. /\ conn[r].stage \in {"joined", "live"} /\ conn[r].up # <<>> /\ UNCHANGED <<now, budget>>
        /\ HandlePing(r) \/ Update(r)
    BY <1>9 DEF Hear, Update
  <2>2. CASE HandlePing(r)
    <3>1. conn[r] \in Connection /\ conn[r].owner \in Clients
      BY <2>1, PlaceBefore
    <3>2. /\ UNCHANGED <<caret, budget>> /\ Alone(r) /\ \A c \in Clients : Resting(c)
          /\ conn'[r] = [conn[r] EXCEPT !.pingAt = now, !.stale = FALSE, !.up = Tail(conn[r].up),
                                        !.timers = {now + Stale}]
      BY <1>1, <2>1, <2>2, <3>1, HandlePingIs DEF Resting
    <3>3. /\ conn'[r].up = Tail(conn[r].up) /\ conn'[r].owner = conn[r].owner
          /\ conn'[r].seen = conn[r].seen /\ SamePace(conn[r], conn'[r])
      BY <3>1, <3>2 DEF Connection, SamePace
    <3>4. Calm(r)
      BY <2>1, <3>1, <3>3, TailShrinks DEF Calm
    <3>5. \A q \in Sessions \ {r} : Calm(q)
      BY <1>3, <3>2
    <3> QED
      BY <3>2, <3>4, <3>5 DEF Quiet
  <2> QED
    BY <2>1, <2>2
<1>10. ASSUME NEW r \in Sessions, TooEarly(r) PROVE Quiet
  <2>1. conn[r] \in Connection /\ conn[r].owner \in Clients
    BY <1>10, PlaceBefore DEF TooEarly
  <2>2. /\ UNCHANGED <<caret, budget>> /\ Alone(r) /\ \A c \in Clients : Resting(c)
        /\ conn'[r] = [conn[r] EXCEPT !.up = <<>>]
    BY <1>1, <1>10, <2>1, TooEarlyIs DEF Resting, Aside
  <2>3. /\ conn'[r].up = <<>> /\ conn'[r].owner = conn[r].owner
        /\ conn'[r].seen = conn[r].seen /\ SamePace(conn[r], conn'[r])
    BY <2>1, <2>2 DEF Connection, SamePace
  <2>4. Calm(r)
    BY <2>1, <2>3, SameUpShrinks DEF Calm
  <2>5. \A q \in Sessions \ {r} : Calm(q)
    BY <1>3, <2>2
  <2> QED
    BY <2>2, <2>4, <2>5 DEF Quiet
<1>11. ASSUME NEW r \in Sessions, GoStale(r) PROVE Quiet
  <2>1. UNCHANGED <<client, caret, budget>> /\ Leaves(r)
    BY <1>1, <1>11, GoStaleIs
  <2>2. PICK t \in conn[r].timers :
          conn'[r] = [conn[r] EXCEPT !.stale = TRUE, !.timers = conn[r].timers \ {t}]
    BY <1>1, <1>11, GoStaleIs
  <2>3. conn[r] \in Connection
    BY PlaceBefore
  <2>4. /\ conn'[r].up = conn[r].up /\ conn'[r].owner = conn[r].owner
        /\ conn'[r].seen = conn[r].seen /\ SamePace(conn[r], conn'[r])
    BY <2>2, <2>3 DEF Connection, SamePace
  <2>5. Calm(r)
    BY <2>3, <2>4, SameUpShrinks DEF Calm
  <2>6. \A q \in Sessions \ {r} : Calm(q)
    BY <1>3, <2>1 DEF Leaves
  <2> QED
    BY <2>1, <2>5, <2>6 DEF Quiet, Resting
<1>12. ASSUME NEW r \in Sessions, Close(r) PROVE Quiet
  <2>1. /\ UNCHANGED <<client, caret, budget>>
        /\ \/ Alone(r) /\ conn'[r] = [conn[r] EXCEPT !.open = FALSE, !.up = <<>>]
           \/ Leaves(r) /\ conn'[r] = [NoConn EXCEPT !.owner = conn[r].owner, !.stage = "gone"]
    BY <1>1, <1>12, CloseIs
  <2>2. conn[r] \in Connection
    BY PlaceBefore
  <2>3. /\ conn'[r].up = <<>> /\ conn'[r].owner = conn[r].owner
        /\ conn'[r].seen = conn[r].seen \/ conn'[r].seen = NoConn.seen
        /\ SamePace(conn[r], conn'[r])
    <3>1. CASE conn'[r] = [conn[r] EXCEPT !.open = FALSE, !.up = <<>>]
      BY <2>2, <3>1 DEF Connection, SamePace
    <3>2. CASE conn'[r] = [NoConn EXCEPT !.owner = conn[r].owner, !.stage = "gone"]
      BY <3>2, NoConnType DEF Connection, SamePace
    <3> QED
      BY <2>1, <3>1, <3>2
  <2>4. Calm(r)
    BY <2>2, <2>3, SameUpShrinks, NoConnType DEF Calm
  <2>5. \A q \in Sessions \ {r} : Calm(q)
    BY <1>3, <2>1 DEF Leaves
  <2> QED
    BY <2>1, <2>4, <2>5 DEF Quiet, Resting
<1>13. ASSUME NEW r \in Sessions, Clog(r) \/ Deliver(r) PROVE Quiet
  <2>1. conn[r] \in Connection /\ (conn[r].lane # <<>> => conn[r].owner \in Clients)
    BY PlaceBefore
  <2>2. /\ UNCHANGED caret /\ budget'.moves = budget.moves /\ Alone(r)
        /\ \A c \in Clients : Resting(c)
        /\ \/ conn'[r] = [conn[r] EXCEPT !.clogged = ~conn[r].clogged]
           \/ conn'[r] = [conn[r] EXCEPT !.lane = Tail(conn[r].lane)]
    <3>1. CASE Clog(r)
      BY <1>1, <3>1, ClogIs DEF Resting
    <3>2. CASE Deliver(r)
      BY <1>1, <2>1, <3>2, DeliverIs DEF Resting
    <3> QED
      BY <1>13, <3>1, <3>2
  <2>3. /\ conn'[r].up = conn[r].up /\ conn'[r].owner = conn[r].owner
        /\ conn'[r].seen = conn[r].seen /\ SamePace(conn[r], conn'[r])
    BY <2>1, <2>2 DEF Connection, SamePace
  <2>4. Calm(r)
    BY <2>1, <2>3, SameUpShrinks DEF Calm
  <2>5. \A q \in Sessions \ {r} : Calm(q)
    BY <1>3, <2>2
  <2> QED
    BY <2>2, <2>4, <2>5 DEF Quiet
<1>14. ASSUME Tick PROVE Quiet
  <2>1. UNCHANGED <<conn, client, caret>> /\ budget'.moves = budget.moves
    BY <1>1, <1>14, TickIs
  <2> QED
    BY <1>2, <2>1 DEF Quiet, Resting
<1>15. ASSUME UNCHANGED vars PROVE Quiet
  <2>1. UNCHANGED <<conn, client, caret, budget>>
    BY <1>15 DEF vars
  <2> QED
    BY <1>2, <2>1 DEF Quiet, Resting
<1>16. Goal
  BY <1>4, <1>5, <1>6, <1>7, <1>8, <1>9, <1>10, <1>11, <1>12, <1>13, <1>14, <1>15 DEF Next
<1> QED
  BY <1>16

-----------------------------------------------------------------------------
(* Carets stay in order *)

\* The fields of an update under way.
LEMMA UpdateFields ==
  ASSUME Types, NEW r \in Sessions, NEW i \in Updates(r)
  PROVE  /\ i \in Nat /\ conn[r].up[i].caret \in Nat \ {0} /\ conn[r].up[i].sent \in Nat
         /\ caret[r] \in Nat /\ conn[r].up[i].kind = "update"
<1>1. conn[r].up \in Seq(Frame) /\ caret[r] \in Moves
  BY ConnectionFields DEF Types
<1>2. i \in Nat /\ conn[r].up[i] \in Frame /\ conn[r].up[i].kind = "update"
  BY <1>1 DEF Updates
<1>3. conn[r].up[i].caret \in Moves \ {0} /\ conn[r].up[i].sent \in Nat
  BY <1>2 DEF Frame
<1> QED
  BY <1>1, <1>2, <1>3, Numbers DEF Moves

\* What is under way for a calm session was under way for it, in that order.
LEMMA UpdatesShift ==
  ASSUME NEW r \in Sessions, Shrinks(conn[r], conn'[r])
  PROVE  \E m \in Nat : \A i \in Updates(r)' :
           i + m \in Updates(r) /\ conn'[r].up[i] = conn[r].up[i + m]
<1>1. PICK m \in Nat : \A i \in DOMAIN conn'[r].up :
        conn'[r].up[i].kind = "update" =>
          i + m \in DOMAIN conn[r].up /\ conn'[r].up[i] = conn[r].up[i + m]
  BY DEF Shrinks
<1>2. ASSUME NEW i \in Updates(r)'
      PROVE  i + m \in Updates(r) /\ conn'[r].up[i] = conn[r].up[i + m]
  <2>1. i \in DOMAIN conn'[r].up /\ conn'[r].up[i].kind = "update"
    BY <1>2 DEF Updates
  <2>2. i + m \in DOMAIN conn[r].up /\ conn'[r].up[i] = conn[r].up[i + m]
    BY <1>1, <2>1
  <2> QED
    BY <2>1, <2>2 DEF Updates
<1> QED
  BY <1>2

\* A quiet step keeps the order.
LEMMA CaretsQuiet ==
  ASSUME Types, Types', Carets, Quiet
  PROVE  Carets'
<1>1. caret' = caret /\ budget'.moves = budget.moves
  BY DEF Quiet
<1>2. ASSUME NEW r \in Sessions PROVE CaretsInOrder(r)'
  <2>1. Calm(r) /\ CaretsInOrder(r)
    BY DEF Quiet, Carets
  <2>2. PICK m \in Nat : \A i \in Updates(r)' :
          i + m \in Updates(r) /\ conn'[r].up[i] = conn[r].up[i + m]
    BY <2>1, UpdatesShift DEF Calm
  <2>3. ASSUME NEW i \in Updates(r)'
        PROVE  /\ conn'[r].up[i].caret > budget'.moves
               /\ caret'[r] # 0 => conn'[r].up[i].caret < caret'[r]
    BY <1>1, <2>1, <2>2 DEF CaretsInOrder
  <2>4. ASSUME NEW i \in Updates(r)', NEW j \in Updates(r)', i < j
        PROVE  conn'[r].up[j].caret < conn'[r].up[i].caret
    <3>1. i \in Nat /\ j \in Nat
      <4>1. conn'[r].up \in Seq(Frame)
        BY ConnectionFields DEF Types
      <4> QED
        BY <4>1 DEF Updates
    <3>2. i + m < j + m
      BY <2>4, <3>1
    <3>3. /\ i + m \in Updates(r) /\ conn'[r].up[i] = conn[r].up[i + m]
          /\ j + m \in Updates(r) /\ conn'[r].up[j] = conn[r].up[j + m]
      BY <2>2
    <3> QED
      BY <2>1, <3>2, <3>3 DEF CaretsInOrder
  <2>5. caret'[r] # 0 => caret'[r] > budget'.moves
    BY <1>1, <2>1 DEF CaretsInOrder
  <2> QED
    BY <2>3, <2>4, <2>5 DEF CaretsInOrder
<1>3. ASSUME NEW c \in Clients PROVE PendingIsNewest(c)'
  <2>1. CASE client'[c].flushAt = {}
    BY <2>1 DEF PendingIsNewest
  <2>2. CASE client'[c].flushAt = client[c].flushAt /\ client'[c].pending = client[c].pending
    <3> SUFFICES ASSUME client[c].flushAt # {}
                 PROVE  PendingIsNewest(c)'
      BY <2>2 DEF PendingIsNewest
    <3>1. PendingIsNewest(c)
      BY DEF Carets
    <3>2. client'[c].pending > budget'.moves
      BY <1>1, <2>2, <3>1 DEF PendingIsNewest
    <3>3. ASSUME NEW r \in Sessions, conn'[r].owner = c
          PROVE  /\ \A i \in Updates(r)' : client'[c].pending < conn'[r].up[i].caret
                 /\ caret'[r] # 0 => client'[c].pending < caret'[r]
      <4>1. Calm(r)
        BY DEF Quiet
      <4>2. CASE conn'[r].owner # conn[r].owner
        <5>1. conn'[r].up = <<>> /\ caret[r] = 0
          BY <4>1, <4>2 DEF Calm
        <5>2. Updates(r)' = {}
          BY <5>1 DEF Updates
        <5> QED
          BY <1>1, <5>1, <5>2
      <4>3. CASE conn'[r].owner = conn[r].owner
        <5>1. PICK m \in Nat : \A i \in Updates(r)' :
                i + m \in Updates(r) /\ conn'[r].up[i] = conn[r].up[i + m]
          BY <4>1, UpdatesShift DEF Calm
        <5>2. /\ \A i \in Updates(r) : client[c].pending < conn[r].up[i].caret
              /\ caret[r] # 0 => client[c].pending < caret[r]
          BY <3>1, <3>3, <4>3 DEF PendingIsNewest
        <5> QED
          BY <1>1, <2>2, <5>1, <5>2
      <4> QED
        BY <4>2, <4>3
    <3> QED
      BY <3>2, <3>3 DEF PendingIsNewest
  <2> QED
    BY <2>1, <2>2 DEF Quiet, Resting
<1>4. SeenBefore'
  <2> SUFFICES ASSUME NEW r \in Sessions, NEW q \in Sessions, conn'[r].seen[q] # 0
               PROVE  caret'[q] # 0 /\ caret'[q] <= conn'[r].seen[q]
    BY DEF SeenBefore
  <2>1. conn'[r].seen = conn[r].seen
    BY DEF Quiet, Calm
  <2> QED
    BY <1>1, <2>1 DEF Carets, SeenBefore
<1> QED
  BY <1>2, <1>3, <1>4 DEF Carets

\* A move is newer than everything before it.
LEMMA CaretsMove ==
  ASSUME Types, Carets, NEW c \in Clients, Move(c)
  PROVE  Carets'
<1>1. /\ conn' = conn /\ caret' = caret
      /\ budget.moves > 0 /\ budget'.moves = budget.moves - 1
      /\ \A d \in Clients \ {c} : client'[d] = client[d]
      /\ client'[c].pending = budget.moves
  BY MoveIs
<1>2. budget.moves \in Nat
  BY Numbers DEF Types, Budget, Moves
<1>3. ASSUME NEW r \in Sessions
      PROVE  /\ Updates(r)' = Updates(r) /\ caret[r] \in Nat
             /\ \A i \in Updates(r) : conn[r].up[i].caret \in Nat
  <2>1. caret[r] \in Nat
    BY Numbers DEF Types, Moves
  <2> QED
    BY <1>1, <2>1, UpdateFields DEF Updates
<1>4. ASSUME NEW r \in Sessions PROVE CaretsInOrder(r)'
  <2>1. CaretsInOrder(r)
    BY DEF Carets
  <2> QED
    BY <1>1, <1>2, <1>3, <2>1 DEF CaretsInOrder
<1>5. PendingIsNewest(c)'
  <2>1. \A r \in Sessions : CaretsInOrder(r)
    BY DEF Carets
  <2> QED
    BY <1>1, <1>2, <1>3, <2>1 DEF CaretsInOrder, PendingIsNewest
<1>6. ASSUME NEW d \in Clients \ {c} PROVE PendingIsNewest(d)'
  <2>1. PendingIsNewest(d)
    BY DEF Carets
  <2>2. client[d].pending \in Nat
    BY PersonFields, Numbers DEF Types, Moves
  <2> QED
    BY <1>1, <1>2, <1>3, <2>1, <2>2 DEF PendingIsNewest
<1>7. SeenBefore'
  BY <1>1 DEF Carets, SeenBefore
<1> QED
  BY <1>4, <1>5, <1>6, <1>7 DEF Carets

\* An update that is sent is the last one under way.
LEMMA SentLast ==
  ASSUME Types, NEW r \in Sessions, NEW frame, Sends(r, frame), frame.kind = "update"
  PROVE  /\ Len(conn[r].up) + 1 \in Nat
         /\ Updates(r)' = Updates(r) \cup {Len(conn[r].up) + 1}
         /\ conn'[r].up[Len(conn[r].up) + 1] = frame
         /\ \A i \in Updates(r) : i < Len(conn[r].up) + 1 /\ conn'[r].up[i] = conn[r].up[i]
         /\ conn'[r].owner = conn[r].owner /\ conn'[r].seen = conn[r].seen
         /\ conn'[r].hits = conn[r].hits /\ conn'[r].relayed = conn[r].relayed
         /\ conn'[r].late = conn[r].late /\ conn'[r].refused = conn[r].refused
<1>1. conn[r] \in Connection /\ conn[r].up \in Seq(Frame)
  BY ConnectionFields DEF Types
<1>2. /\ conn'[r].up = Append(conn[r].up, frame)
      /\ conn'[r].owner = conn[r].owner /\ conn'[r].seen = conn[r].seen
      /\ conn'[r].hits = conn[r].hits /\ conn'[r].relayed = conn[r].relayed
      /\ conn'[r].late = conn[r].late /\ conn'[r].refused = conn[r].refused
  BY <1>1 DEF Sends, Connection
<1> DEFINE up == conn[r].up
           longer == Append(up, frame)
<1>3. /\ Len(up) + 1 \in Nat /\ DOMAIN longer = DOMAIN up \cup {Len(up) + 1}
      /\ longer[Len(up) + 1] = frame
      /\ \A i \in DOMAIN up : i < Len(up) + 1 /\ longer[i] = up[i]
  BY <1>1
<1> HIDE DEF longer
<1>4. Updates(r)' = Updates(r) \cup {Len(up) + 1}
  <2>1. Updates(r)' = {i \in DOMAIN longer : longer[i].kind = "update"}
    BY <1>2 DEF Updates, longer
  <2> QED
    BY <1>3, <2>1 DEF Updates
<1>5. \A i \in Updates(r) : i \in DOMAIN up
  BY DEF Updates
<1> QED
  BY <1>2, <1>3, <1>4, <1>5 DEF longer

\* What is flushed comes after what is under way, and before what is still to
\* be put.
LEMMA CaretsFlush ==
  ASSUME Shape, Carets, NEW c \in Clients, Flush(c)
  PROVE  Carets'
<1> DEFINE frame == [kind |-> "update", caret |-> client[c].pending, sent |-> now]
<1>1. /\ caret' = caret /\ budget' = budget
      /\ \A d \in Clients \ {c} : client'[d] = client[d]
      /\ client'[c].flushAt = {} /\ \E t \in client[c].flushAt : t <= now
      /\ \/ UNCHANGED conn
         \/ client[c].ws # Nobody /\ Sends(client[c].ws, frame)
  BY PendingCounts, FlushIs DEF Shape
<1>2. /\ Types /\ PendingIsNewest(c) /\ client[c].flushAt # {}
      /\ \A r \in Sessions : CaretsInOrder(r)
  BY <1>1 DEF Shape, Carets
<1>3. CASE UNCHANGED conn
  <2>1. \A r \in Sessions : Updates(r)' = Updates(r)
    BY <1>3 DEF Updates
  <2>2. ASSUME NEW r \in Sessions PROVE CaretsInOrder(r)'
    BY <1>1, <1>2, <1>3, <2>1 DEF CaretsInOrder
  <2>3. ASSUME NEW d \in Clients PROVE PendingIsNewest(d)'
    <3>1. PendingIsNewest(d)
      BY DEF Carets
    <3> QED
      BY <1>1, <1>3, <2>1, <3>1 DEF PendingIsNewest
  <2>4. SeenBefore'
    BY <1>1, <1>3 DEF Carets, SeenBefore
  <2> QED
    BY <2>2, <2>3, <2>4 DEF Carets
<1>4. CASE client[c].ws # Nobody /\ Sends(client[c].ws, frame)
  <2>1. PICK r \in Sessions : r = client[c].ws /\ conn[r].owner = c
    BY <1>4, SocketOpened DEF Shape, Sockets
  <2>2. frame.kind = "update" /\ frame.caret = client[c].pending
    OBVIOUS
  <2> HIDE DEF frame
  <2>3. PICK n \in Nat :
          /\ Updates(r)' = Updates(r) \cup {n}
          /\ conn'[r].up[n] = frame
          /\ \A i \in Updates(r) : i < n /\ conn'[r].up[i] = conn[r].up[i]
          /\ conn'[r].owner = conn[r].owner /\ conn'[r].seen = conn[r].seen
    <3>1. Sends(r, frame)
      BY <1>4, <2>1
    <3> QED
      BY <1>2, <2>2, <3>1, SentLast
  <2>4. \A q \in Sessions \ {r} : conn'[q] = conn[q]
    BY <1>4, <2>1 DEF Sends
  <2>5. \A q \in Sessions \ {r} : Updates(q)' = Updates(q)
    BY <2>4 DEF Updates
  <2>6. /\ client[c].pending > budget.moves
        /\ \A i \in Updates(r) : client[c].pending < conn[r].up[i].caret
        /\ caret[r] # 0 => client[c].pending < caret[r]
    BY <1>2, <2>1 DEF PendingIsNewest
  <2>7. \A i \in Updates(r) : i \in Nat
    BY <1>2, <2>1, UpdateFields
  <2>8. CaretsInOrder(r)'
    <3>1. CaretsInOrder(r)
      BY <1>2, <2>1
    <3>2. ASSUME NEW i \in Updates(r)'
          PROVE  /\ conn'[r].up[i].caret > budget'.moves
                 /\ caret'[r] # 0 => conn'[r].up[i].caret < caret'[r]
      BY <1>1, <2>2, <2>3, <2>6, <3>1 DEF CaretsInOrder
    <3>3. ASSUME NEW i \in Updates(r)', NEW j \in Updates(r)', i < j
          PROVE  conn'[r].up[j].caret < conn'[r].up[i].caret
      <4>1. i \in Updates(r)
        BY <2>3, <2>7, <3>3
      <4>2. CASE j \in Updates(r)
        BY <2>3, <3>1, <3>3, <4>1, <4>2 DEF CaretsInOrder
      <4>3. CASE j = n
        BY <2>2, <2>3, <2>6, <4>1, <4>3
      <4> QED
        BY <2>3, <4>2, <4>3
    <3> QED
      BY <1>1, <3>1, <3>2, <3>3 DEF CaretsInOrder
  <2>9. ASSUME NEW q \in Sessions \ {r} PROVE CaretsInOrder(q)'
    BY <1>1, <1>2, <2>4, <2>5 DEF CaretsInOrder
  <2>10. PendingIsNewest(c)'
    BY <1>1 DEF PendingIsNewest
  <2>11. ASSUME NEW d \in Clients \ {c} PROVE PendingIsNewest(d)'
    <3>1. PendingIsNewest(d)
      BY DEF Carets
    <3>2. client'[d] = client[d] /\ conn'[r].owner # d
      BY <1>1, <2>1, <2>3
    <3> QED
      BY <1>1, <2>4, <2>5, <3>1, <3>2 DEF PendingIsNewest
  <2>12. SeenBefore'
    <3>1. \A q \in Sessions : conn'[q].seen = conn[q].seen
      BY <2>1, <2>3, <2>4
    <3> QED
      BY <1>1, <3>1 DEF Carets, SeenBefore
  <2> QED
    BY <2>1, <2>8, <2>9, <2>10, <2>11, <2>12 DEF Carets
<1> QED
  BY <1>1, <1>3, <1>4

\* A roster says where the carets are.
LEMMA CaretsRoster ==
  ASSUME Shape, Carets, NEW r \in Sessions, SendRoster(r)
  PROVE  Carets'
<1>1. UNCHANGED <<client, caret, budget>> /\ Alone(r)
  BY SendRosterIs DEF Shape
<1>2. PICK k : /\ k = [conn[r] EXCEPT !.stage = "live", !.seen = caret]
               /\ IF r \in room THEN Hears(k, conn'[r], [kind |-> "roster", members |-> room])
                  ELSE conn'[r] = k
  BY SendRosterIs DEF Shape
<1>3. conn[r] \in Connection
  BY PlaceBefore
<1>4. k.up = conn[r].up /\ k.owner = conn[r].owner /\ k.seen = caret
  BY <1>2, <1>3 DEF Connection
<1>5. conn'[r].up = conn[r].up /\ conn'[r].owner = conn[r].owner /\ conn'[r].seen = caret
  BY <1>2, <1>4 DEF Hears, SameButLane
<1>6. \A q \in Sessions : /\ conn'[q].up = conn[q].up /\ conn'[q].owner = conn[q].owner
                          /\ conn'[q].seen \in {conn[q].seen, caret}
  BY <1>1, <1>5 DEF Alone
<1>7. \A q \in Sessions : Updates(q)' = Updates(q)
  BY <1>6 DEF Updates
<1>8. ASSUME NEW q \in Sessions PROVE CaretsInOrder(q)'
  BY <1>1, <1>6, <1>7 DEF Carets, CaretsInOrder
<1>9. ASSUME NEW c \in Clients PROVE PendingIsNewest(c)'
  <2>1. PendingIsNewest(c)
    BY DEF Carets
  <2> QED
    BY <1>1, <1>6, <1>7, <2>1 DEF PendingIsNewest
<1>10. SeenBefore'
  <2>1. \A q \in Sessions : caret[q] \in Nat
    BY Numbers DEF Shape, Types, Moves
  <2>2. ASSUME NEW p \in Sessions, NEW q \in Sessions, conn'[p].seen[q] # 0
        PROVE  caret[q] # 0 /\ caret[q] <= conn'[p].seen[q]
    <3>1. CASE conn'[p].seen = conn[p].seen
      BY <2>2, <3>1 DEF Carets, SeenBefore
    <3>2. CASE conn'[p].seen = caret
      BY <2>1, <2>2, <3>2
    <3> QED
      BY <1>6, <3>1, <3>2
  <2> QED
    BY <1>1, <2>2 DEF SeenBefore
<1> QED
  BY <1>8, <1>9, <1>10 DEF Carets

\* What becomes of an update that is not relayed: it is dropped, or refused.
Declines(r) ==
  /\ Alone(r) /\ UNCHANGED caret /\ conn'[r].relayed = conn[r].relayed
  /\ \/ conn'[r].hits = conn[r].hits /\ conn'[r].refused = conn[r].refused
     \/ /\ r \in room /\ Cardinality(Hits(conn[r])) >= MaxUpdates
        /\ conn'[r].hits = Hits(conn[r])

\* And of one that is.
Relays(r, frame) ==
  /\ r \in room /\ ~(Cardinality(Hits(conn[r])) >= MaxUpdates)
  /\ Told(r, [kind |-> "update", of |-> r, caret |-> frame.caret])
  /\ caret' = [caret EXCEPT ![r] = frame.caret]
  /\ conn'[r].hits = Hits(conn[r]) \cup {Len(conn[r].relayed) + 1}
  /\ conn'[r].relayed = Append(conn[r].relayed, now)
  /\ conn'[r].refused = conn[r].refused

\* An update is the first of the frames under way, and it is taken from them.
LEMMA UpdateIs ==
  ASSUME Shape, NEW r \in Sessions, Update(r)
  PROVE  /\ Types' /\ UNCHANGED <<now, room, client, budget>>
         /\ 1 \in Updates(r)
         /\ \A i \in Updates(r)' : /\ i \in Nat /\ i + 1 \in Updates(r)
                                   /\ conn'[r].up[i] = conn[r].up[i + 1]
         /\ conn'[r].owner = conn[r].owner /\ conn'[r].stage = conn[r].stage
         /\ conn'[r].open = conn[r].open /\ conn'[r].seen = conn[r].seen
         /\ conn'[r].timers = conn[r].timers /\ conn'[r].pingAt = conn[r].pingAt
         /\ conn'[r].stale = conn[r].stale /\ conn'[r].lane = conn[r].lane
         /\ conn'[r].lost = conn[r].lost
         /\ conn'[r].late = (conn[r].late \/ (r \in room /\ now > conn[r].up[1].sent))
         /\ \A q \in Sessions \ {r} : SameButLane(conn[q], conn'[q])
         /\ Declines(r) \/ Relays(r, conn[r].up[1])
<1> DEFINE frame == Head(conn[r].up)
           k == Taken(r, frame)
           late == conn[r].late \/ (r \in room /\ now > frame.sent)
           SameAs(l) ==
             /\ l.owner = conn[r].owner /\ l.stage = conn[r].stage /\ l.open = conn[r].open
             /\ l.seen = conn[r].seen /\ l.timers = conn[r].timers /\ l.pingAt = conn[r].pingAt
             /\ l.stale = conn[r].stale /\ l.lane = conn[r].lane /\ l.lost = conn[r].lost
             /\ l.up = Tail(conn[r].up) /\ l.late = late
<1>1. Types /\ conn[r] \in Connection
  BY PlaceBefore DEF Shape
<1>2. /\ conn[r].up # <<>> /\ frame.kind = "update" /\ HandleUpdate(r, frame)
      /\ UNCHANGED <<now, budget>>
  BY DEF Update
<1>3. frame = conn[r].up[1] /\ conn[r].up \in Seq(Frame) /\ Tail(conn[r].up) \in Seq(Frame)
  BY <1>1, <1>2, UpFrame, ConnectionFields
<1>4. /\ Types' /\ UNCHANGED <<now, room, client, budget>> /\ k \in Connection
      /\ Dropped(r, k) \/ Refused(r, k) \/ Relayed(r, frame, k)
  BY <1>1, <1>2, HandleUpdateIs
<1>5. 1 \in Updates(r)
  BY <1>2, <1>3 DEF Updates
<1>6. late \in BOOLEAN
  BY <1>1, ConnectionFields
<1>7. k = [conn[r] EXCEPT !.up = Tail(conn[r].up), !.late = late]
  BY DEF Taken
<1> HIDE DEF frame, late, k
<1>8. SameAs(k) /\ k.hits = conn[r].hits /\ k.relayed = conn[r].relayed /\ k.refused = conn[r].refused
  BY <1>1, <1>7 DEF Connection
<1>9. Hits(k) = Hits(conn[r])
  BY <1>8 DEF Hits
<1>10. SameAs(conn'[r]) /\ (Declines(r) \/ Relays(r, frame))
  <2>1. CASE Dropped(r, k)
    BY <1>8, <2>1 DEF Dropped, Declines
  <2>2. CASE Refused(r, k)
    <3>1. /\ conn'[r].hits = Hits(k) /\ conn'[r].refused = TRUE /\ SameAs(conn'[r])
          /\ conn'[r].relayed = conn[r].relayed
      BY <1>4, <1>8, <2>2 DEF Refused, Connection
    <3> HIDE DEF SameAs
    <3> QED
      BY <1>9, <2>2, <3>1 DEF Refused, Declines
  <2>3. CASE Relayed(r, frame, k)
    <3>1. /\ conn'[r].hits = Hits(k) \cup {Len(k.relayed) + 1} /\ SameAs(conn'[r])
          /\ conn'[r].relayed = Append(k.relayed, now) /\ conn'[r].refused = k.refused
      BY <1>4, <1>8, <2>3 DEF Relayed, Connection
    <3> HIDE DEF SameAs
    <3> QED
      BY <1>8, <1>9, <2>3, <3>1 DEF Relayed, Relays
  <2> QED
    BY <1>4, <2>1, <2>2, <2>3
<1>11. \A i \in Updates(r)' : /\ i \in Nat /\ i + 1 \in Updates(r)
                              /\ conn'[r].up[i] = conn[r].up[i + 1]
  <2>1. \A i \in DOMAIN Tail(conn[r].up) :
           i \in Nat /\ i + 1 \in DOMAIN conn[r].up /\ Tail(conn[r].up)[i] = conn[r].up[i + 1]
    BY <1>2, <1>3
  <2> QED
    BY <1>10, <2>1 DEF Updates
<1>12. \A q \in Sessions \ {r} : SameButLane(conn[q], conn'[q])
  <2>1. \A q \in Sessions : SameButLane(conn[q], conn[q])
    BY DEF SameButLane
  <2> QED
    BY <1>10, <2>1 DEF Declines, Relays, Alone, Told, Hears
<1> QED
  BY <1>3, <1>4, <1>5, <1>10, <1>11, <1>12 DEF late

\* A caret that is relayed is older than those behind it.
LEMMA CaretsUpdate ==
  ASSUME Shape, Carets, NEW r \in Sessions, Update(r)
  PROVE  Carets'
<1>1. /\ UNCHANGED <<now, room, client, budget>>
      /\ 1 \in Updates(r)
      /\ \A i \in Updates(r)' : /\ i \in Nat /\ i + 1 \in Updates(r)
                                /\ conn'[r].up[i] = conn[r].up[i + 1]
      /\ conn'[r].owner = conn[r].owner /\ conn'[r].seen = conn[r].seen
      /\ \A q \in Sessions \ {r} : SameButLane(conn[q], conn'[q])
      /\ Declines(r) \/ Relays(r, conn[r].up[1])
  BY UpdateIs
<1> DEFINE head == conn[r].up[1].caret
<1>2. Types /\ caret \in [Sessions -> Moves]
  BY DEF Shape, Types
<1>3. /\ \A q \in Sessions \ {r} : caret'[q] = caret[q]
      /\ caret'[r] = caret[r] \/ caret'[r] = head
  BY <1>1, <1>2 DEF Declines, Relays
<1>4. \A q \in Sessions \ {r} : Updates(q)' = Updates(q) /\ conn'[q].up = conn[q].up
  BY <1>1 DEF Updates, SameButLane
<1>5. head \in Nat \ {0} /\ caret[r] \in Nat
  BY <1>1, <1>2, UpdateFields
<1>6. /\ head > budget.moves /\ (caret[r] # 0 => head < caret[r])
      /\ \A i \in Updates(r)' : conn'[r].up[i].caret < head
      /\ CaretsInOrder(r)
  <2>1. CaretsInOrder(r)
    BY DEF Carets
  <2>2. \A i \in Updates(r)' : 1 < i + 1
    <3>1. \A i \in Updates(r)' : i \in DOMAIN conn'[r].up
      BY DEF Updates
    <3>2. conn'[r].up \in Seq(Frame)
      BY UpdateIs, ConnectionFields DEF Types
    <3> QED
      BY <3>1, <3>2
  <2> QED
    BY <1>1, <2>1, <2>2 DEF CaretsInOrder
<1> HIDE DEF head
<1>7. ASSUME NEW q \in Sessions PROVE CaretsInOrder(q)'
  <2>1. CASE q = r
    <3>1. ASSUME NEW i \in Updates(r)'
          PROVE  /\ conn'[r].up[i].caret > budget'.moves
                 /\ caret'[r] # 0 => conn'[r].up[i].caret < caret'[r]
      BY <1>1, <1>3, <1>6, <3>1 DEF CaretsInOrder
    <3>2. ASSUME NEW i \in Updates(r)', NEW j \in Updates(r)', i < j
          PROVE  conn'[r].up[j].caret < conn'[r].up[i].caret
      <4>1. i + 1 < j + 1
        BY <1>1, <3>2
      <4> QED
        BY <1>1, <1>6, <4>1 DEF CaretsInOrder
    <3>3. caret'[r] # 0 => caret'[r] > budget'.moves
      BY <1>1, <1>3, <1>6 DEF CaretsInOrder
    <3> QED
      BY <2>1, <3>1, <3>2, <3>3 DEF CaretsInOrder
  <2>2. CASE q # r
    <3>1. CaretsInOrder(q)
      BY DEF Carets
    <3> QED
      BY <1>1, <1>3, <1>4, <2>2, <3>1 DEF CaretsInOrder
  <2> QED
    BY <2>1, <2>2
<1>8. ASSUME NEW c \in Clients PROVE PendingIsNewest(c)'
  <2> SUFFICES ASSUME client[c].flushAt # {}
               PROVE  PendingIsNewest(c)'
    BY <1>1 DEF PendingIsNewest
  <2>1. PendingIsNewest(c)
    BY DEF Carets
  <2>2. ASSUME NEW q \in Sessions, conn'[q].owner = c
        PROVE  /\ \A i \in Updates(q)' : client[c].pending < conn'[q].up[i].caret
               /\ caret'[q] # 0 => client[c].pending < caret'[q]
    <3>1. conn[q].owner = c
      BY <1>1, <2>2 DEF SameButLane
    <3>2. CASE q = r
      BY <1>1, <1>3, <2>1, <3>1, <3>2 DEF PendingIsNewest, head
    <3>3. CASE q # r
      BY <1>3, <1>4, <2>1, <3>1, <3>3 DEF PendingIsNewest
    <3> QED
      BY <3>2, <3>3
  <2> QED
    BY <1>1, <2>1, <2>2 DEF PendingIsNewest
<1>9. SeenBefore'
  <2> SUFFICES ASSUME NEW p \in Sessions, NEW q \in Sessions, conn'[p].seen[q] # 0
               PROVE  caret'[q] # 0 /\ caret'[q] <= conn'[p].seen[q]
    BY DEF SeenBefore
  <2>1. conn'[p].seen = conn[p].seen
    BY <1>1 DEF SameButLane
  <2>2. caret[q] # 0 /\ caret[q] <= conn[p].seen[q]
    BY <2>1 DEF Carets, SeenBefore
  <2>3. conn[p].seen[q] \in Nat
    BY <1>2, ConnectionFields, Numbers DEF Types, Moves
  <2>4. CASE q = r
    BY <1>3, <1>5, <1>6, <2>1, <2>2, <2>3, <2>4
  <2>5. CASE q # r
    BY <1>3, <2>1, <2>2, <2>5
  <2> QED
    BY <2>4, <2>5
<1> QED
  BY <1>7, <1>8, <1>9 DEF Carets

\* Every step keeps the carets in order.
LEMMA CaretsStep ==
  ASSUME Shape, Carets, [Next]_vars
  PROVE  Carets'
<1>1. Types /\ Types'
  BY ShapeStep DEF Shape
<1> QED
  BY <1>1, QuietSteps, CaretsQuiet, CaretsMove, CaretsFlush, CaretsRoster, CaretsUpdate

-----------------------------------------------------------------------------
(* What is shown follows the room *)

\* What the client of a session will show, and whether that is the room.
Showing(r) == Shown(client[conn[r].owner].overlay, conn[r].lane)

Attends(r) ==
  /\ r \in room /\ conn[r].stage = "live" /\ conn[r].open /\ ~conn[r].lost
  /\ client[conn[r].owner].ws = r /\ ~client[conn[r].owner].closing

ShowsRoom(r) ==
  /\ DOMAIN Showing(r) = room
  /\ \A q \in room \ {r} :
       Showing(r)[q] = IF caret[q] = conn[r].seen[q] THEN 0 ELSE caret[q]

\* The property, one session at a time.
LEMMA FollowsBySession ==
  ASSUME room \subseteq Sessions
  PROVE  OverlayFollowsRoom <=> \A r \in Sessions : Attends(r) => ShowsRoom(r)
BY DEF OverlayFollowsRoom, Attends, ShowsRoom, Showing

\* Nothing happens to what a session shows.
Still(q) ==
  /\ conn'[q].owner = conn[q].owner /\ conn'[q].stage = conn[q].stage
  /\ conn'[q].open = conn[q].open /\ conn'[q].lane = conn[q].lane
  /\ conn'[q].lost = conn[q].lost /\ conn'[q].seen = conn[q].seen

\* If that is so of all sessions in the room, the property is kept.
LEMMA StillFollows ==
  ASSUME Shape, OverlayFollowsRoom, UNCHANGED <<room, caret>>,
         \A q \in room : Still(q),
         \A c \in Clients : /\ client'[c].overlay = client[c].overlay
                            /\ client'[c].ws \in room /\ ~client'[c].closing =>
                                 client'[c].ws = client[c].ws /\ ~client[c].closing
  PROVE  OverlayFollowsRoom'
<1>1. room \subseteq Sessions /\ room' = room
  BY DEF Shape, Types
<1>2. ASSUME NEW q \in room, Attends(q)' PROVE ShowsRoom(q)'
  <2>1. Still(q) /\ conn[q].owner \in Clients
    BY <1>1, PlaceBefore
  <2>2. Attends(q)
    BY <1>1, <1>2, <2>1 DEF Attends, Still
  <2>3. ShowsRoom(q)
    BY <1>1, <2>2, FollowsBySession
  <2>4. Showing(q)' = Showing(q) /\ conn'[q].seen = conn[q].seen
    BY <2>1 DEF Showing, Still
  <2> QED
    BY <2>3, <2>4 DEF ShowsRoom
<1> QED
  BY <1>1, <1>2 DEF OverlayFollowsRoom, Attends, ShowsRoom, Showing

\* A session that hears of something shows it, if nothing of its lane was shed.
LEMMA HearsShows ==
  ASSUME Shape, OverlayFollowsRoom, NEW q \in room, NEW frame \in Event,
         Hears(conn[q], conn'[q], frame), client' = client, Attends(q)'
  PROVE  /\ ShowsRoom(q) /\ conn'[q].seen = conn[q].seen
         /\ Showing(q)' = HandlePresenceEvent(Showing(q), frame)
<1>1. room \subseteq Sessions /\ q \in Sessions /\ conn[q].lane \in Seq(Event)
      /\ conn[q].lost \in BOOLEAN
  BY ConnectionFields DEF Shape, Types
<1>2. SameButLane(conn[q], conn'[q]) /\ conn[q].open /\ ~conn'[q].lost /\ ~conn[q].lost
      /\ conn'[q].lane = Append(conn[q].lane, frame)
  BY <1>1 DEF Hears, SameButLane, Attends
<1>3. Attends(q)
  BY <1>2 DEF Attends, SameButLane
<1>4. ShowsRoom(q)
  BY <1>1, <1>3, FollowsBySession
<1>5. conn'[q].owner = conn[q].owner /\ conn'[q].seen = conn[q].seen
  BY <1>2 DEF SameButLane
<1>6. Showing(q)' = Shown(client[conn[q].owner].overlay, Append(conn[q].lane, frame))
  BY <1>2, <1>5 DEF Showing
<1>7. Showing(q)' = HandlePresenceEvent(Showing(q), frame)
  BY <1>1, <1>6, ShownAppend DEF Showing
<1> QED
  BY <1>4, <1>5, <1>7

\* The others are shown a session that joins, without a caret.
LEMMA JoinShows ==
  ASSUME Shape, SeenBefore, OverlayFollowsRoom, NEW r \in Sessions, Join(r)
  PROVE  OverlayFollowsRoom'
<1> DEFINE frame == [kind |-> "join", of |-> r]
<1>1. /\ UNCHANGED <<client, caret>> /\ conn[r].stage = "new" /\ room' = room \cup {r}
      /\ Told(r, frame)
      /\ conn'[r] = [conn[r] EXCEPT !.stage = "joined", !.pingAt = now, !.timers = {now + Stale}]
  BY JoinIs DEF Shape
<1>2. frame \in Event /\ frame.kind = "join" /\ frame.of = r
  BY DEF Event
<1> HIDE DEF frame
<1>3. r \notin room /\ caret[r] = 0 /\ conn[r] \in Connection /\ room \subseteq Sessions
  BY <1>1, PlaceBefore DEF Shape, Types
<1>4. conn'[r].stage = "joined"
  BY <1>1, <1>3 DEF Connection
<1>5. ASSUME NEW q \in room', Attends(q)' PROVE ShowsRoom(q)'
  <2>1. q \in room /\ q # r
    BY <1>1, <1>4, <1>5 DEF Attends
  <2>2. Hears(conn[q], conn'[q], frame)
    BY <1>1, <1>3, <2>1 DEF Told
  <2>3. /\ ShowsRoom(q) /\ conn'[q].seen = conn[q].seen
        /\ Showing(q)' = HandlePresenceEvent(Showing(q), frame)
    BY <1>1, <1>2, <1>5, <2>1, <2>2, HearsShows
  <2>4. Showing(q)' = [p \in DOMAIN Showing(q) \cup {r} |-> IF p = r THEN 0 ELSE Showing(q)[p]]
    BY <1>2, <2>3 DEF HandlePresenceEvent
  <2>5. conn[q].seen[r] = 0
    BY <1>3, <2>1 DEF SeenBefore
  <2> QED
    BY <1>1, <1>3, <2>3, <2>4, <2>5 DEF ShowsRoom
<1> QED
  BY <1>5 DEF OverlayFollowsRoom, Attends, ShowsRoom, Showing

\* A roster shows the room.
LEMMA RosterShows ==
  ASSUME Shape, OverlayFollowsRoom, NEW r \in Sessions, SendRoster(r)
  PROVE  OverlayFollowsRoom'
<1> DEFINE frame == [kind |-> "roster", members |-> room]
<1>1. UNCHANGED <<room, client, caret>> /\ Alone(r)
  BY SendRosterIs DEF Shape
<1>2. PICK k : /\ k = [conn[r] EXCEPT !.stage = "live", !.seen = caret]
               /\ IF r \in room THEN Hears(k, conn'[r], frame) ELSE conn'[r] = k
  BY SendRosterIs DEF Shape
<1>3. conn[r] \in Connection /\ room \subseteq Sessions /\ caret \in [Sessions -> Moves]
      /\ conn[r].lane \in Seq(Event)
  BY PlaceBefore, ConnectionFields DEF Shape, Types
<1>4. frame \in Event /\ frame.kind = "roster" /\ frame.members = room
  BY <1>3 DEF Event
<1> HIDE DEF frame
<1>5. k.owner = conn[r].owner /\ k.seen = caret /\ k.lane = conn[r].lane /\ k.open = conn[r].open
  BY <1>2, <1>3 DEF Connection
<1>6. ASSUME NEW q \in room', Attends(q)' PROVE ShowsRoom(q)'
  <2>1. CASE q # r
    <3>1. conn'[q] = conn[q] /\ q \in room
      BY <1>1, <1>3, <2>1 DEF Alone
    <3>2. Attends(q)
      BY <1>1, <1>6, <3>1 DEF Attends
    <3>3. ShowsRoom(q)
      BY <1>3, <3>1, <3>2, FollowsBySession
    <3> QED
      BY <1>1, <3>1, <3>3 DEF ShowsRoom, Showing
  <2>2. CASE q = r
    <3>1. Hears(k, conn'[r], frame) /\ conn'[r].open /\ ~conn'[r].lost
      BY <1>1, <1>2, <1>6, <2>2 DEF Attends
    <3>2. conn'[r].owner = conn[r].owner /\ conn'[r].seen = caret
          /\ conn'[r].lane = Append(conn[r].lane, frame)
      BY <1>5, <3>1 DEF Hears, SameButLane
    <3>3. Showing(r)' = Shown(client[conn[r].owner].overlay, Append(conn[r].lane, frame))
      BY <1>1, <3>2 DEF Showing
    <3>4. Showing(r)' = HandlePresenceEvent(Showing(r), frame)
      BY <1>3, <1>4, <3>3, ShownAppend DEF Showing
    <3>5. Showing(r)' = [p \in room |-> 0]
      BY <1>4, <3>4 DEF HandlePresenceEvent
    <3> QED
      BY <1>1, <2>2, <3>2, <3>5 DEF ShowsRoom
  <2> QED
    BY <2>1, <2>2
<1> QED
  BY <1>6 DEF OverlayFollowsRoom, Attends, ShowsRoom, Showing

\* A session that leaves is shown no more.
LEMMA LeavingShows ==
  ASSUME Shape, OverlayFollowsRoom, NEW r \in Sessions, Leaves(r), UNCHANGED <<client, caret>>
  PROVE  OverlayFollowsRoom'
<1> DEFINE frame == [kind |-> "leave", of |-> r]
<1>1. room' = room \ {r} /\ IF r \in room THEN Told(r, frame) ELSE Alone(r)
  BY DEF Leaves
<1>2. frame \in Event /\ frame.kind = "leave" /\ frame.of = r
  BY DEF Event
<1> HIDE DEF frame
<1>3. room \subseteq Sessions
  BY DEF Shape, Types
<1>4. ASSUME NEW q \in room', Attends(q)' PROVE ShowsRoom(q)'
  <2>1. q \in room /\ q # r
    BY <1>1
  <2>2. CASE r \in room
    <3>1. Hears(conn[q], conn'[q], frame)
      BY <1>1, <1>3, <2>1, <2>2 DEF Told
    <3>2. /\ ShowsRoom(q) /\ conn'[q].seen = conn[q].seen
          /\ Showing(q)' = HandlePresenceEvent(Showing(q), frame)
      BY <1>2, <1>4, <2>1, <3>1, HearsShows
    <3>3. Showing(q)' = [p \in DOMAIN Showing(q) \ {r} |-> Showing(q)[p]]
      BY <1>2, <3>2 DEF HandlePresenceEvent
    <3> QED
      BY <1>1, <3>2, <3>3 DEF ShowsRoom
  <2>3. CASE r \notin room
    <3>1. conn'[q] = conn[q] /\ room' = room
      BY <1>1, <1>3, <2>1, <2>3 DEF Alone
    <3>2. Attends(q)
      BY <1>4, <3>1 DEF Attends
    <3>3. ShowsRoom(q)
      BY <1>3, <2>1, <3>2, FollowsBySession
    <3> QED
      BY <3>1, <3>3 DEF ShowsRoom, Showing
  <2> QED
    BY <2>2, <2>3
<1> QED
  BY <1>4 DEF OverlayFollowsRoom, Attends, ShowsRoom, Showing

\* An update that is relayed is shown, and one that is not shows nowhere.
LEMMA UpdateShows ==
  ASSUME Shape, Carets, OverlayFollowsRoom, NEW r \in Sessions, Update(r)
  PROVE  OverlayFollowsRoom'
<1> DEFINE put == conn[r].up[1].caret
           frame == [kind |-> "update", of |-> r, caret |-> put]
<1>1. /\ UNCHANGED <<room, client>> /\ 1 \in Updates(r) /\ Still(r)
      /\ Declines(r) \/ Relays(r, conn[r].up[1])
  BY UpdateIs DEF Still
<1>2. room \subseteq Sessions /\ caret \in [Sessions -> Moves]
  BY DEF Shape, Types
<1>3. CASE Declines(r)
  <2>1. \A q \in room : Still(q)
    BY <1>1, <1>2, <1>3 DEF Declines, Alone, Still
  <2> QED
    BY <1>1, <1>3, <2>1, StillFollows DEF Declines
<1>4. CASE Relays(r, conn[r].up[1])
  <2>1. Told(r, frame) /\ caret' = [caret EXCEPT ![r] = put]
    BY <1>4 DEF Relays
  <2>2. caret'[r] = put /\ \A q \in Sessions \ {r} : caret'[q] = caret[q]
    BY <1>2, <2>1
  <2>3. put \in Nat \ {0} /\ (caret[r] # 0 => put < caret[r]) /\ caret[r] \in Nat /\ put \in Moves
    <3>1. put \in Nat \ {0} /\ caret[r] \in Nat
      BY <1>1, UpdateFields DEF Shape
    <3>2. CaretsInOrder(r)
      BY DEF Carets
    <3>3. put \in Moves
      <4>1. conn[r].up \in Seq(Frame)
        BY ConnectionFields DEF Shape, Types
      <4>2. conn[r].up[1] \in Frame /\ conn[r].up[1].kind = "update"
        BY <1>1, <4>1 DEF Updates
      <4> QED
        BY <4>2 DEF Frame
    <3> QED
      BY <1>1, <3>1, <3>2, <3>3 DEF CaretsInOrder
  <2>4. frame \in Event /\ frame.kind = "update" /\ frame.of = r /\ frame.caret = put
    BY <2>3 DEF Event
  <2> HIDE DEF frame, put
  <2>5. ASSUME NEW q \in room', Attends(q)' PROVE ShowsRoom(q)'
    <3>1. CASE q = r
      <4>1. Attends(q)
        BY <1>1, <2>5, <3>1 DEF Attends, Still
      <4>2. ShowsRoom(q)
        BY <1>2, <3>1, <4>1, FollowsBySession
      <4> QED
        BY <1>1, <1>2, <2>2, <3>1, <4>2 DEF ShowsRoom, Showing, Still
    <3>2. CASE q # r
      <4>1. q \in room /\ Hears(conn[q], conn'[q], frame)
        BY <1>1, <1>2, <2>1, <3>2 DEF Told
      <4>2. /\ ShowsRoom(q) /\ conn'[q].seen = conn[q].seen
            /\ Showing(q)' = HandlePresenceEvent(Showing(q), frame)
        BY <1>1, <2>4, <2>5, <4>1, HearsShows
      <4>3. Showing(q)' = [p \in DOMAIN Showing(q) |-> IF p = r THEN put ELSE Showing(q)[p]]
        BY <2>4, <4>2 DEF HandlePresenceEvent
      <4>4. put # conn[q].seen[r]
        <5>1. q \in Sessions
          BY <1>1, <1>2
        <5>2. conn[q].seen[r] \in Nat
          BY <5>1, ConnectionFields, Numbers DEF Shape, Types, Moves
        <5>3. conn[q].seen[r] # 0 => caret[r] # 0 /\ caret[r] <= conn[q].seen[r]
          BY <5>1 DEF Carets, SeenBefore
        <5> QED
          BY <2>3, <5>2, <5>3
      <4> QED
        BY <1>1, <1>2, <2>2, <4>2, <4>3, <4>4 DEF ShowsRoom
    <3> QED
      BY <3>1, <3>2
  <2> QED
    BY <2>5 DEF OverlayFollowsRoom, Attends, ShowsRoom, Showing
<1> QED
  BY <1>1, <1>3, <1>4

\* What has been handled is shown.
LEMMA DeliverShows ==
  ASSUME Shape, OverlayFollowsRoom, NEW r \in Sessions, Deliver(r)
  PROVE  OverlayFollowsRoom'
<1>1. /\ UNCHANGED <<room, caret>> /\ Alone(r) /\ conn[r].lane # <<>>
      /\ conn'[r] = [conn[r] EXCEPT !.lane = Tail(conn[r].lane)]
      /\ \A c \in Clients :
           /\ client'[c].ws = client[c].ws /\ client'[c].closing = client[c].closing
           /\ client'[c].overlay = IF client[c].ws = r /\ ~client[c].closing /\ c = conn[r].owner
                                   THEN HandlePresenceEvent(client[c].overlay, Head(conn[r].lane))
                                   ELSE client[c].overlay
  BY PlaceBefore, DeliverIs DEF Shape
<1>2. room \subseteq Sessions /\ conn[r] \in Connection /\ conn[r].lane \in Seq(Event)
  BY ConnectionFields DEF Shape, Types
<1>3. /\ conn'[r].owner = conn[r].owner /\ conn'[r].stage = conn[r].stage
      /\ conn'[r].open = conn[r].open /\ conn'[r].lane = Tail(conn[r].lane)
      /\ conn'[r].lost = conn[r].lost /\ conn'[r].seen = conn[r].seen
  BY <1>1, <1>2 DEF Connection
<1>4. ASSUME NEW q \in room', Attends(q)' PROVE ShowsRoom(q)'
  <2>1. q \in Sessions /\ q \in room /\ conn[q].owner \in Clients
    BY <1>1, <1>2, PlaceBefore
  <2>2. /\ conn'[q].owner = conn[q].owner /\ conn'[q].stage = conn[q].stage
        /\ conn'[q].open = conn[q].open /\ conn'[q].lost = conn[q].lost
        /\ conn'[q].seen = conn[q].seen
    BY <1>1, <1>3, <2>1 DEF Alone
  <2>3. Attends(q)
    BY <1>1, <1>4, <2>1, <2>2 DEF Attends
  <2>4. ShowsRoom(q)
    BY <1>2, <2>1, <2>3, FollowsBySession
  <2>5. Showing(q)' = Showing(q)
    <3>1. CASE q = r
      <4>1. client'[conn[r].owner].overlay =
              HandlePresenceEvent(client[conn[r].owner].overlay, Head(conn[r].lane))
        BY <1>1, <2>1, <2>3, <3>1 DEF Attends
      <4>2. Showing(r)' = Shown(client'[conn[r].owner].overlay, Tail(conn[r].lane))
        BY <1>3 DEF Showing
      <4>3. conn[r].lane # <<>>
        BY <1>1
      <4>4. Shown(HandlePresenceEvent(client[conn[r].owner].overlay, Head(conn[r].lane)),
                  Tail(conn[r].lane)) = Showing(r)
        BY <1>2, <4>3, ShownTail DEF Showing
      <4> QED
        BY <3>1, <4>1, <4>2, <4>4
    <3>2. CASE q # r
      <4>1. client'[conn[q].owner].overlay = client[conn[q].owner].overlay
        BY <1>1, <2>1, <2>3, <3>2 DEF Attends
      <4>2. conn'[q] = conn[q]
        BY <1>1, <2>1, <3>2 DEF Alone
      <4> QED
        BY <4>1, <4>2 DEF Showing
    <3> QED
      BY <3>1, <3>2
  <2> QED
    BY <1>1, <2>2, <2>4, <2>5 DEF ShowsRoom
<1> QED
  BY <1>4 DEF OverlayFollowsRoom, Attends, ShowsRoom, Showing

\* A frame that is sent does not show anything.
LEMMA SendsStill ==
  ASSUME Shape, NEW r \in {Nobody} \cup Sessions, NEW frame, Sends(r, frame)
  PROVE  \A q \in Sessions : Still(q)
<1> SUFFICES ASSUME NEW q \in Sessions PROVE Still(q)
  OBVIOUS
<1>1. conn[q] \in Connection
  BY PlaceBefore
<1>2. conn'[q] = conn[q] \/ conn'[q] = [conn[q] EXCEPT !.up = Append(conn[q].up, frame)]
  BY DEF Sends
<1> QED
  BY <1>1, <1>2 DEF Still, Connection

\* Every step keeps what is shown in line with the room.
LEMMA OverlayStep ==
  ASSUME Shape, Carets, OverlayFollowsRoom, [Next]_vars
  PROVE  OverlayFollowsRoom'
<1>1. Types /\ Openings /\ Unopened /\ SeenBefore /\ room \subseteq Sessions
  BY DEF Shape, Types, Carets
<1>2. UNCHANGED conn => \A q \in room : Still(q)
  BY DEF Still
<1>3. ASSUME NEW c \in Clients, Connect(c) \/ Disconnect(c) \/ SocketLost(c) \/ CloseEvent(c) \/ Retry(c)
      PROVE  OverlayFollowsRoom'
  <2>1. /\ UNCHANGED <<room, conn, caret>> /\ \A d \in Clients \ {c} : client'[d] = client[d]
        /\ Aside(client[c], client'[c])
    BY <1>1, <1>3, ClientAside
  <2>2. \A d \in Clients : /\ client'[d].overlay = client[d].overlay
                           /\ \/ client'[d].ws = Nobody
                              \/ /\ client'[d].ws = client[d].ws
                                 /\ client'[d].closing = client[d].closing
    BY <2>1 DEF Aside
  <2>3. Nobody \notin room
    BY <1>1, Numbers DEF Nobody, Sessions
  <2> QED
    BY <1>2, <2>1, <2>2, <2>3, StillFollows
<1>4. ASSUME NEW c \in Clients, OpenSocketNow(c) PROVE OverlayFollowsRoom'
  <2>1. /\ UNCHANGED <<room, caret>> /\ \A d \in Clients \ {c} : client'[d] = client[d]
        /\ client'[c].overlay = client[c].overlay
    BY <1>1, <1>4, OpenSocketNowIs
  <2>2. PICK r \in Sessions :
          /\ conn[r].stage = "none" /\ client'[c].ws = r
          /\ \A q \in Sessions \ {r} : conn'[q] = conn[q]
    BY <1>1, <1>4, OpenSocketNowIs
  <2>3. r \notin room
    BY <2>2, PlaceBefore
  <2>4. \A q \in room : Still(q)
    BY <1>1, <2>2, <2>3 DEF Still
  <2> QED
    BY <2>1, <2>2, <2>3, <2>4, StillFollows
<1>5. ASSUME NEW c \in Clients, Synced(c) \/ Move(c) PROVE OverlayFollowsRoom'
  <2>1. /\ UNCHANGED <<room, conn, caret>>
        /\ \A d \in Clients : /\ client'[d].overlay = client[d].overlay
                              /\ client'[d].ws = client[d].ws
                              /\ client'[d].closing = client[d].closing
    BY <1>1, <1>5, SyncedIs, MoveIs
  <2> QED
    BY <1>2, <2>1, StillFollows
<1>6. ASSUME NEW c \in Clients, PingTimer(c) PROVE OverlayFollowsRoom'
  <2>1. /\ UNCHANGED <<room, caret>>
        /\ \A d \in Clients : /\ client'[d].overlay = client[d].overlay
                              /\ client'[d].ws = client[d].ws
                              /\ client'[d].closing \/ client'[d].closing = client[d].closing
        /\ UNCHANGED conn \/ Sends(client[c].ws, [kind |-> "ping"])
    BY <1>1, <1>6, PingTimerIs
  <2>2. \A q \in room : Still(q)
    BY <1>1, <1>2, <2>1, SendsStill, SocketOpened
  <2> QED
    BY <2>1, <2>2, StillFollows
<1>7. ASSUME NEW c \in Clients, Flush(c) PROVE OverlayFollowsRoom'
  <2> DEFINE frame == [kind |-> "update", caret |-> client[c].pending, sent |-> now]
  <2>1. /\ UNCHANGED <<room, caret>>
        /\ \A d \in Clients : /\ client'[d].overlay = client[d].overlay
                              /\ client'[d].ws = client[d].ws
                              /\ client'[d].closing = client[d].closing
        /\ UNCHANGED conn \/ Sends(client[c].ws, frame)
    BY <1>1, <1>7, PendingCounts, FlushIs
  <2> HIDE DEF frame
  <2>2. \A q \in room : Still(q)
    BY <1>1, <1>2, <2>1, SendsStill, SocketOpened
  <2> QED
    BY <2>1, <2>2, StillFollows
<1>8. ASSUME NEW r \in Sessions, Hear(r) PROVE OverlayFollowsRoom'
  <2>1. /\ conn[r].stage \in {"joined", "live"} /\ conn[r].up # <<>> /\ UNCHANGED <<now, budget>>
        /\ HandlePing(r) \/ Update(r)
    BY <1>8 DEF Hear, Update
  <2>2. CASE HandlePing(r)
    <3>1. conn[r] \in Connection /\ conn[r].owner \in Clients
      BY <2>1, PlaceBefore
    <3>2. /\ UNCHANGED <<room, caret>> /\ Alone(r)
          /\ \A d \in Clients : /\ client'[d].overlay = client[d].overlay
                                /\ client'[d].ws = client[d].ws
                                /\ client'[d].closing = client[d].closing
          /\ conn'[r] = [conn[r] EXCEPT !.pingAt = now, !.stale = FALSE, !.up = Tail(conn[r].up),
                                        !.timers = {now + Stale}]
      BY <1>1, <2>1, <2>2, <3>1, HandlePingIs
    <3>3. Still(r)
      BY <3>1, <3>2 DEF Still, Connection
    <3>4. \A q \in room : Still(q)
      BY <1>1, <3>2, <3>3 DEF Alone, Still
    <3> QED
      BY <3>2, <3>4, StillFollows
  <2> QED
    BY <2>1, <2>2, UpdateShows
<1>9. ASSUME NEW r \in Sessions, TooEarly(r) PROVE OverlayFollowsRoom'
  <2>1. conn[r].owner \in Clients /\ r \notin room
    BY <1>9, PlaceBefore DEF TooEarly
  <2>2. /\ UNCHANGED <<room, caret>> /\ Alone(r)
        /\ \A d \in Clients : /\ client'[d].overlay = client[d].overlay
                              /\ \/ client'[d].ws = Nobody
                                 \/ /\ client'[d].ws = client[d].ws
                                    /\ client'[d].closing = client[d].closing
    BY <1>1, <1>9, <2>1, TooEarlyIs DEF Aside
  <2>3. \A q \in room : Still(q)
    BY <1>1, <2>1, <2>2 DEF Alone, Still
  <2>4. Nobody \notin room
    BY <1>1, Numbers DEF Nobody, Sessions
  <2> QED
    BY <2>2, <2>3, <2>4, StillFollows
<1>10. ASSUME NEW r \in Sessions, GoStale(r) PROVE OverlayFollowsRoom'
  BY <1>1, <1>10, GoStaleIs, LeavingShows
<1>11. ASSUME NEW r \in Sessions, Close(r) PROVE OverlayFollowsRoom'
  <2>1. /\ UNCHANGED <<client, caret>>
        /\ (conn[r].stage = "new" /\ UNCHANGED room /\ Alone(r)) \/ Leaves(r)
    BY <1>1, <1>11, CloseIs
  <2>2. CASE conn[r].stage = "new" /\ UNCHANGED room /\ Alone(r)
    <3>1. r \notin room
      BY <2>2, PlaceBefore
    <3>2. \A q \in room : Still(q)
      BY <1>1, <2>2, <3>1 DEF Alone, Still
    <3> QED
      BY <2>1, <2>2, <3>2, StillFollows
  <2> QED
    BY <2>1, <2>2, LeavingShows
<1>12. ASSUME NEW r \in Sessions, Clog(r) PROVE OverlayFollowsRoom'
  <2>1. /\ UNCHANGED <<room, client, caret>> /\ Alone(r)
        /\ conn'[r] = [conn[r] EXCEPT !.clogged = ~conn[r].clogged]
    BY <1>1, <1>12, ClogIs
  <2>2. Still(r)
    BY <2>1, PlaceBefore DEF Still, Connection
  <2>3. \A q \in room : Still(q)
    BY <1>1, <2>1, <2>2 DEF Alone, Still
  <2> QED
    BY <2>1, <2>3, StillFollows
<1>13. CASE Tick
  BY <1>1, <1>2, <1>13, TickIs, StillFollows
<1>14. CASE UNCHANGED vars
  BY <1>2, <1>14, StillFollows DEF vars
<1> QED
  BY <1>1, <1>3, <1>4, <1>5, <1>6, <1>7, <1>8, <1>9, <1>10, <1>11, <1>12, <1>13, <1>14,
     JoinShows, RosterShows, DeliverShows
  DEF Next

-----------------------------------------------------------------------------
(* Silences and stalls are noticed *)

\* Nothing is heard of a session, and it comes no nearer to the room.
Unheard(q) ==
  /\ conn'[q].pingAt = conn[q].pingAt /\ conn'[q].timers = conn[q].timers
  /\ conn'[q].stale = conn[q].stale
  /\ conn'[q].stage \in {"none", "new"} => conn[q].stage \in {"none", "new"}
  /\ q \in room' => q \in room

\* Then what its heartbeat knows of it stays true.
LEMMA UnheardStays ==
  ASSUME NEW q \in Sessions, Heard(q), Unheard(q), now' = now
  PROVE  Heard(q)'
BY DEF Heard, Unheard

\* So it is for a session that changes in nothing but its lane, if at all.
LEMMA OthersUnheard ==
  ASSUME NEW r, NEW frame, NEW q \in Sessions \ {r}, Told(r, frame) \/ Alone(r),
         q \in room' => q \in room
  PROVE  Unheard(q)
BY DEF Told, Alone, Hears, SameButLane, Unheard

\* And for all of them when a frame is sent.
LEMMA SendsUnheard ==
  ASSUME Shape, NEW r \in {Nobody} \cup Sessions, NEW frame, Sends(r, frame), room' = room
  PROVE  \A q \in Sessions : Unheard(q)
<1> SUFFICES ASSUME NEW q \in Sessions PROVE Unheard(q)
  OBVIOUS
<1>1. conn[q] \in Connection
  BY PlaceBefore
<1>2. conn'[q] = conn[q] \/ conn'[q] = [conn[q] EXCEPT !.up = Append(conn[q].up, frame)]
  BY DEF Sends
<1> QED
  BY <1>1, <1>2 DEF Unheard, Connection

\* Every step keeps what the heartbeats know.
LEMMA SilencesStep ==
  ASSUME Shape, Carets, Silences, [Next]_vars
  PROVE  Silences'
<1>1. Types /\ Openings /\ Unopened /\ room \subseteq Sessions /\ now \in Nat
  BY DEF Shape, Types
<1>2. ASSUME UNCHANGED <<now, room, conn>> PROVE Silences'
  BY <1>2, UnheardStays DEF Silences, Unheard
<1>3. ASSUME now' = now, \A q \in Sessions : Unheard(q) PROVE Silences'
  BY <1>3, UnheardStays DEF Silences
<1>4. ASSUME NEW r \in Sessions, now' = now, Heard(r)', \A q \in Sessions \ {r} : Unheard(q)
      PROVE  Silences'
  BY <1>4, UnheardStays DEF Silences
<1>5. ASSUME NEW c \in Clients, Connect(c) \/ Disconnect(c) \/ SocketLost(c) \/ CloseEvent(c) \/ Retry(c)
      PROVE  Silences'
  BY <1>1, <1>2, <1>5, ClientAside
<1>6. ASSUME NEW c \in Clients, OpenSocketNow(c) PROVE Silences'
  <2>1. UNCHANGED <<now, room>>
    BY <1>1, <1>6, OpenSocketNowIs
  <2>2. PICK r \in Sessions :
          /\ conn[r].stage = "none"
          /\ \A q \in Sessions \ {r} : conn'[q] = conn[q]
          /\ conn'[r] = [NoConn EXCEPT !.owner = c, !.stage = "new", !.open = TRUE]
    BY <1>1, <1>6, OpenSocketNowIs
  <2>3. conn[r] = NoConn
    BY <2>2, PlaceBefore
  <2>4. Unheard(r)
    BY <2>1, <2>2, <2>3, NoConnType DEF Unheard, Connection
  <2>5. \A q \in Sessions \ {r} : Unheard(q)
    BY <2>1, <2>2 DEF Unheard
  <2> QED
    BY <1>3, <2>1, <2>4, <2>5
<1>7. ASSUME NEW c \in Clients, Synced(c) \/ Move(c) PROVE Silences'
  BY <1>1, <1>2, <1>7, SyncedIs, MoveIs
<1>8. ASSUME NEW c \in Clients, PingTimer(c) PROVE Silences'
  <2>1. UNCHANGED <<now, room>> /\ (UNCHANGED conn \/ Sends(client[c].ws, [kind |-> "ping"]))
    BY <1>1, <1>8, PingTimerIs
  <2> QED
    BY <1>2, <1>3, <2>1, SendsUnheard, SocketOpened
<1>9. ASSUME NEW c \in Clients, Flush(c) PROVE Silences'
  <2> DEFINE frame == [kind |-> "update", caret |-> client[c].pending, sent |-> now]
  <2>1. UNCHANGED <<now, room>> /\ (UNCHANGED conn \/ Sends(client[c].ws, frame))
    BY <1>1, <1>9, PendingCounts, FlushIs
  <2> HIDE DEF frame
  <2> QED
    BY <1>2, <1>3, <2>1, SendsUnheard, SocketOpened
<1>10. ASSUME NEW r \in Sessions, Join(r) PROVE Silences'
  <2>1. /\ now' = now /\ conn[r].stage = "new" /\ room' = room \cup {r}
        /\ Told(r, [kind |-> "join", of |-> r])
        /\ conn'[r] = [conn[r] EXCEPT !.stage = "joined", !.pingAt = now, !.timers = {now + Stale}]
    BY <1>1, <1>10, JoinIs
  <2>2. \A q \in Sessions \ {r} : Unheard(q)
    BY <2>1, OthersUnheard
  <2>3. /\ conn'[r].stage = "joined" /\ conn'[r].pingAt = now /\ conn'[r].timers = {now + Stale}
        /\ conn'[r].stale = conn[r].stale
    BY <2>1, PlaceBefore DEF Connection
  <2>4. ~conn[r].stale
    BY <2>1 DEF Silences, Heard
  <2>5. Heard(r)'
    BY <1>1, <2>1, <2>3, <2>4, Numbers DEF Heard
  <2> QED
    BY <1>4, <2>1, <2>2, <2>5
<1>11. ASSUME NEW r \in Sessions, SendRoster(r) PROVE Silences'
  <2>1. UNCHANGED <<now, room>> /\ Alone(r) /\ conn[r].stage = "joined"
    BY <1>1, <1>11, SendRosterIs
  <2>2. PICK k : /\ k = [conn[r] EXCEPT !.stage = "live", !.seen = caret]
                 /\ IF r \in room THEN Hears(k, conn'[r], [kind |-> "roster", members |-> room])
                    ELSE conn'[r] = k
    BY <1>1, <1>11, SendRosterIs
  <2>3. /\ k.pingAt = conn[r].pingAt /\ k.timers = conn[r].timers /\ k.stale = conn[r].stale
        /\ k.stage = "live"
    BY <2>2, PlaceBefore DEF Connection
  <2>4. Unheard(r)
    BY <2>1, <2>2, <2>3 DEF Unheard, Hears, SameButLane
  <2>5. \A q \in Sessions \ {r} : Unheard(q)
    BY <2>1, OthersUnheard
  <2> QED
    BY <1>3, <2>1, <2>4, <2>5
<1>12. ASSUME NEW r \in Sessions, Hear(r) PROVE Silences'
  <2>1. /\ conn[r].stage \in {"joined", "live"} /\ conn[r].up # <<>> /\ UNCHANGED <<now, budget>>
        /\ HandlePing(r) \/ Update(r)
    BY <1>12 DEF Hear, Update
  <2>2. CASE HandlePing(r)
    <3>1. conn[r] \in Connection /\ conn[r].owner \in Clients
      BY <2>1, PlaceBefore
    <3>2. /\ UNCHANGED <<now, room>> /\ Alone(r)
          /\ conn'[r] = [conn[r] EXCEPT !.pingAt = now, !.stale = FALSE, !.up = Tail(conn[r].up),
                                        !.timers = {now + Stale}]
      BY <1>1, <2>1, <2>2, <3>1, HandlePingIs
    <3>3. /\ conn'[r].stage = conn[r].stage /\ conn'[r].pingAt = now
          /\ conn'[r].timers = {now + Stale} /\ ~conn'[r].stale
      BY <3>1, <3>2 DEF Connection
    <3>4. Heard(r)'
      BY <1>1, <2>1, <3>2, <3>3, Numbers DEF Heard
    <3>5. \A q \in Sessions \ {r} : Unheard(q)
      BY <3>2, OthersUnheard
    <3> QED
      BY <1>4, <3>2, <3>4, <3>5
  <2>3. CASE Update(r)
    <3>1. UNCHANGED <<now, room>> /\ Unheard(r)
      BY <2>3, UpdateIs DEF Unheard
    <3>2. \A q \in Sessions \ {r} : SameButLane(conn[q], conn'[q])
      BY <2>3, UpdateIs
    <3>3. \A q \in Sessions \ {r} : Unheard(q)
      BY <3>1, <3>2 DEF SameButLane, Unheard
    <3> QED
      BY <1>3, <3>1, <3>3
  <2> QED
    BY <2>1, <2>2, <2>3
<1>13. ASSUME NEW r \in Sessions, TooEarly(r) PROVE Silences'
  <2>1. conn[r].owner \in Clients
    BY <1>13, PlaceBefore DEF TooEarly
  <2>2. UNCHANGED <<now, room>> /\ Alone(r) /\ conn'[r] = [conn[r] EXCEPT !.up = <<>>]
    BY <1>1, <1>13, <2>1, TooEarlyIs
  <2>3. Unheard(r)
    BY <2>2, PlaceBefore DEF Unheard, Connection
  <2>4. \A q \in Sessions \ {r} : Unheard(q)
    BY <2>2, OthersUnheard
  <2> QED
    BY <1>3, <2>2, <2>3, <2>4
<1>14. ASSUME NEW r \in Sessions, GoStale(r) PROVE Silences'
  <2>1. now' = now /\ Leaves(r)
    BY <1>1, <1>14, GoStaleIs
  <2>2. PICK t \in conn[r].timers :
          t <= now /\ conn'[r] = [conn[r] EXCEPT !.stale = TRUE, !.timers = conn[r].timers \ {t}]
    BY <1>1, <1>14, GoStaleIs
  <2>3. \A q \in Sessions \ {r} : Unheard(q)
    BY <2>1, OthersUnheard DEF Leaves
  <2>4. /\ conn'[r].stage = conn[r].stage /\ conn'[r].pingAt = conn[r].pingAt
        /\ conn'[r].timers = conn[r].timers \ {t} /\ conn'[r].stale
    BY <2>2, PlaceBefore DEF Connection
  <2>5. Heard(r) /\ r \notin room'
    BY <2>1 DEF Silences, Leaves
  <2>6. Heard(r)'
    BY <2>1, <2>2, <2>4, <2>5 DEF Heard
  <2> QED
    BY <1>4, <2>1, <2>3, <2>6
<1>15. ASSUME NEW r \in Sessions, Close(r) PROVE Silences'
  <2>1. /\ now' = now
        /\ \/ /\ conn[r].stage = "new" /\ UNCHANGED room /\ Alone(r)
              /\ conn'[r] = [conn[r] EXCEPT !.open = FALSE, !.up = <<>>]
           \/ /\ Leaves(r)
              /\ conn'[r] = [NoConn EXCEPT !.owner = conn[r].owner, !.stage = "gone"]
    BY <1>1, <1>15, CloseIs
  <2>2. CASE /\ conn[r].stage = "new" /\ UNCHANGED room /\ Alone(r)
             /\ conn'[r] = [conn[r] EXCEPT !.open = FALSE, !.up = <<>>]
    <3>1. Unheard(r)
      BY <2>2, PlaceBefore DEF Unheard, Connection
    <3>2. \A q \in Sessions \ {r} : Unheard(q)
      BY <2>2, OthersUnheard
    <3> QED
      BY <1>3, <2>1, <3>1, <3>2
  <2>3. CASE /\ Leaves(r)
             /\ conn'[r] = [NoConn EXCEPT !.owner = conn[r].owner, !.stage = "gone"]
    <3>1. \A q \in Sessions \ {r} : Unheard(q)
      BY <2>3, OthersUnheard DEF Leaves
    <3>2. /\ conn'[r].stage = "gone" /\ conn'[r].pingAt = 0 /\ conn'[r].timers = {}
          /\ ~conn'[r].stale /\ r \notin room'
      BY <2>3, NoConnType DEF Connection, Leaves
    <3>3. Heard(r)'
      BY <1>1, <2>1, <3>2 DEF Heard
    <3> QED
      BY <1>4, <2>1, <3>1, <3>3
  <2> QED
    BY <2>1, <2>2, <2>3
<1>16. ASSUME NEW r \in Sessions, Clog(r) \/ Deliver(r) PROVE Silences'
  <2>1. conn[r] \in Connection /\ (conn[r].lane # <<>> => conn[r].owner \in Clients)
    BY PlaceBefore
  <2>2. /\ UNCHANGED <<now, room>> /\ Alone(r)
        /\ \/ conn'[r] = [conn[r] EXCEPT !.clogged = ~conn[r].clogged]
           \/ conn'[r] = [conn[r] EXCEPT !.lane = Tail(conn[r].lane)]
    <3>1. CASE Clog(r)
      BY <1>1, <3>1, ClogIs
    <3>2. CASE Deliver(r)
      BY <1>1, <2>1, <3>2, DeliverIs
    <3> QED
      BY <1>16, <3>1, <3>2
  <2>3. Unheard(r)
    BY <2>1, <2>2 DEF Unheard, Connection
  <2>4. \A q \in Sessions \ {r} : Unheard(q)
    BY <2>2, OthersUnheard
  <2> QED
    BY <1>3, <2>2, <2>3, <2>4
<1>17. CASE Tick
  <2>1. now' = now + 1 /\ UNCHANGED <<room, conn>>
        /\ \A r \in Sessions : \A t \in conn[r].timers : t > now
    BY <1>1, <1>17, TickIs
  <2> SUFFICES ASSUME NEW r \in Sessions PROVE Heard(r)'
    BY DEF Silences
  <2>2. conn[r].pingAt \in Nat /\ conn[r].timers \in SUBSET Nat
    BY <1>1, ConnectionFields DEF Types
  <2>3. Heard(r)
    BY DEF Silences
  <2>4. \A t \in conn[r].timers : t \in Nat /\ t >= now + 1
    BY <1>1, <2>1, <2>2
  <2> QED
    BY <1>1, <2>1, <2>2, <2>3, <2>4, Numbers DEF Heard
<1>18. CASE UNCHANGED vars
  BY <1>2, <1>18 DEF vars
<1> QED
  BY <1>5, <1>6, <1>7, <1>8, <1>9, <1>10, <1>11, <1>12, <1>13, <1>14, <1>15, <1>16, <1>17, <1>18
  DEF Next

\* The clock of a client's connection does not change.
Unanswered(c) ==
  /\ client'[c].aliveAt = client[c].aliveAt /\ client'[c].heardAt = client[c].heardAt
  /\ client'[c].state = "synced" =>
       /\ client[c].state = "synced" /\ client'[c].pingDue = client[c].pingDue
       /\ client'[c].closing = client[c].closing

\* Every step leaves a synced client with a ping to send, or closing.
LEMMA StallsStep ==
  ASSUME Shape, Carets, Stalls, [Next]_vars
  PROVE  Stalls'
<1>1. Types /\ Openings /\ Unopened /\ now \in Nat
  BY DEF Shape, Types
<1>2. \A c \in Clients : /\ client[c].aliveAt \in Nat /\ client[c].pingDue \in SUBSET Nat
                         /\ client[c].heardAt \in Nat /\ Pinging(c)
  BY PersonFields DEF Shape, Types, Stalls
<1>3. ASSUME now' = now, \A c \in Clients : Unanswered(c) PROVE Stalls'
  BY <1>2, <1>3 DEF Stalls, Pinging, Unanswered
<1>4. ASSUME now' = now, UNCHANGED client PROVE Stalls'
  BY <1>3, <1>4 DEF Unanswered
<1>5. ASSUME NEW c \in Clients, now' = now, Pinging(c)', \A d \in Clients \ {c} : client'[d] = client[d]
      PROVE  Stalls'
  <2>1. ASSUME NEW d \in Clients \ {c} PROVE Pinging(d)'
    BY <1>2, <1>5 DEF Pinging
  <2> QED
    BY <1>5, <2>1 DEF Stalls
<1>6. ASSUME NEW c \in Clients, Connect(c) \/ Disconnect(c) \/ SocketLost(c) \/ CloseEvent(c) \/ Retry(c)
      PROVE  Stalls'
  <2>1. /\ now' = now /\ \A d \in Clients \ {c} : client'[d] = client[d]
        /\ Aside(client[c], client'[c])
    BY <1>1, <1>6, ClientAside
  <2>2. \A d \in Clients : Unanswered(d)
    BY <2>1 DEF Aside, Unanswered
  <2> QED
    BY <1>3, <2>1, <2>2
<1>7. ASSUME NEW c \in Clients, OpenSocketNow(c) PROVE Stalls'
  <2>1. /\ now' = now /\ \A d \in Clients \ {c} : client'[d] = client[d]
        /\ client'[c].state = client[c].state /\ client'[c].pingDue = client[c].pingDue
        /\ client'[c].aliveAt = client[c].aliveAt /\ client'[c].heardAt = now
    BY <1>1, <1>7, OpenSocketNowIs
  <2>2. client[c].aliveAt <= now /\ now <= now
    BY <1>1, <1>2 DEF Pinging
  <2>3. ASSUME NEW d \in client[c].pingDue, d <= now + PingEvery
        PROVE  d <= now + Gap + PingEvery
    BY <1>1, <1>2, <2>3, Numbers
  <2>4. Pinging(c)'
    BY <1>2, <2>1, <2>2, <2>3 DEF Pinging
  <2> QED
    BY <1>5, <2>1, <2>4
<1>17. ASSUME NEW c \in Clients, Move(c) PROVE Stalls'
  <2>1. /\ now' = now /\ \A d \in Clients \ {c} : client'[d] = client[d]
        /\ client'[c].state = client[c].state /\ client'[c].pingDue = client[c].pingDue
        /\ client'[c].aliveAt = client[c].aliveAt /\ client'[c].heardAt = client[c].heardAt
        /\ client'[c].closing = client[c].closing
    BY <1>1, <1>17, MoveIs
  <2>2. \A d \in Clients : Unanswered(d)
    BY <2>1 DEF Unanswered
  <2> QED
    BY <1>3, <2>1, <2>2
<1>8. ASSUME NEW c \in Clients, Synced(c) PROVE Stalls'
  <2>1. /\ now' = now /\ \A d \in Clients \ {c} : client'[d] = client[d]
        /\ client'[c].aliveAt \in {client[c].aliveAt, now} /\ client'[c].heardAt = now
        /\ client'[c].pingDue = {now + PingEvery}
    BY <1>1, <1>8, SyncedIs
  <2>2. /\ now <= now + PingEvery /\ now + PingEvery <= now + PingEvery
        /\ now + PingEvery <= now + Gap + PingEvery /\ now <= now
    BY <1>1, Numbers
  <2>3. client[c].aliveAt <= now
    BY <1>1, <1>2 DEF Pinging
  <2>4. Pinging(c)'
    BY <2>1, <2>2, <2>3 DEF Pinging
  <2> QED
    BY <1>5, <2>1, <2>4
<1>9. ASSUME NEW c \in Clients, PingTimer(c) PROVE Stalls'
  <2>1. /\ now' = now /\ \A d \in Clients \ {c} : client'[d] = client[d]
        /\ client'[c].aliveAt = client[c].aliveAt /\ client'[c].heardAt = client[c].heardAt
        /\ client'[c].pingDue = {now + PingEvery}
        /\ client'[c].closing \/ now < client[c].aliveAt + Gap
    BY <1>1, <1>9, PingTimerIs
  <2>2. client[c].aliveAt <= client[c].heardAt /\ client[c].heardAt <= now
    BY <1>2 DEF Pinging
  <2>3. now < client[c].aliveAt + Gap => now + PingEvery <= client[c].heardAt + Gap + PingEvery
    BY <1>1, <1>2, <2>2, Numbers
  <2>4. now <= now + PingEvery /\ now + PingEvery <= now + PingEvery
    BY <1>1, Numbers
  <2>5. Pinging(c)'
    BY <2>1, <2>2, <2>3, <2>4 DEF Pinging
  <2> QED
    BY <1>5, <2>1, <2>5
<1>10. ASSUME NEW c \in Clients, Flush(c) PROVE Stalls'
  <2>1. /\ now' = now /\ \A d \in Clients \ {c} : client'[d] = client[d]
        /\ client'[c].state = client[c].state /\ client'[c].pingDue = client[c].pingDue
        /\ client'[c].aliveAt = client[c].aliveAt /\ client'[c].heardAt = client[c].heardAt
        /\ client'[c].closing = client[c].closing
    BY <1>1, <1>10, PendingCounts, FlushIs
  <2>2. \A d \in Clients : Unanswered(d)
    BY <2>1 DEF Unanswered
  <2> QED
    BY <1>3, <2>1, <2>2
<1>11. ASSUME NEW r \in Sessions, Hear(r) PROVE Stalls'
  <2>1. /\ conn[r].stage \in {"joined", "live"} /\ conn[r].up # <<>> /\ UNCHANGED <<now, budget>>
        /\ HandlePing(r) \/ Update(r)
    BY <1>11 DEF Hear, Update
  <2>2. CASE HandlePing(r)
    <3>1. conn[r].owner \in Clients
      BY <2>1, PlaceBefore
    <3>2. \A c \in Clients :
            /\ client'[c].state = client[c].state /\ client'[c].pingDue = client[c].pingDue
            /\ client'[c].closing = client[c].closing
            /\ \/ client'[c].aliveAt = client[c].aliveAt /\ client'[c].heardAt = client[c].heardAt
               \/ client'[c].aliveAt = now /\ client'[c].heardAt = now
      BY <1>1, <2>1, <2>2, <3>1, HandlePingIs
    <3> SUFFICES ASSUME NEW c \in Clients PROVE Pinging(c)'
      BY DEF Stalls
    <3>3. client[c].pingDue \in SUBSET Nat /\ Pinging(c)
      BY <1>2
    <3>4. CASE client'[c].aliveAt = client[c].aliveAt /\ client'[c].heardAt = client[c].heardAt
      BY <2>1, <3>2, <3>3, <3>4 DEF Pinging
    <3>5. CASE client'[c].aliveAt = now /\ client'[c].heardAt = now
      <4>1. ASSUME NEW d \in client[c].pingDue, d <= now + PingEvery
            PROVE  d <= now + Gap + PingEvery
        BY <1>1, <3>3, <4>1, Numbers
      <4>2. now <= now
        BY <1>1
      <4> QED
        BY <2>1, <3>2, <3>3, <3>5, <4>1, <4>2 DEF Pinging
    <3> QED
      BY <3>2, <3>4, <3>5
  <2> QED
    BY <1>4, <2>1, <2>2, UpdateIs
<1>12. ASSUME NEW r \in Sessions, TooEarly(r) PROVE Stalls'
  <2>1. conn[r].owner \in Clients
    BY <1>12, PlaceBefore DEF TooEarly
  <2>2. now' = now /\ \A c \in Clients : Aside(client[c], client'[c])
    BY <1>1, <1>12, <2>1, TooEarlyIs
  <2> QED
    BY <1>3, <2>2 DEF Aside, Unanswered
<1>13. ASSUME NEW r \in Sessions, Deliver(r) PROVE Stalls'
  <2>1. now' = now /\ \A c \in Clients : Unanswered(c)
    BY <1>1, <1>13, PlaceBefore, DeliverIs DEF Unanswered
  <2> QED
    BY <1>3, <2>1
<1>14. ASSUME NEW r \in Sessions, Join(r) \/ SendRoster(r) \/ GoStale(r) \/ Close(r) \/ Clog(r)
       PROVE  Stalls'
  <2>1. now' = now /\ client' = client
    BY <1>14 DEF Join, SendRoster, GoStale, Close, Clog
  <2> QED
    BY <1>4, <2>1
<1>15. CASE Tick
  <2>1. now' = now + 1 /\ client' = client
        /\ \A c \in Clients : \A t \in client[c].pingDue : t > now
    BY <1>1, <1>15, TickIs
  <2> SUFFICES ASSUME NEW c \in Clients PROVE Pinging(c)'
    BY DEF Stalls
  <2>2. /\ client[c].aliveAt \in Nat /\ client[c].pingDue \in SUBSET Nat
        /\ client[c].heardAt \in Nat /\ Pinging(c)
    BY <1>2
  <2>3. \A d \in client[c].pingDue :
          now + 1 <= d /\ (d <= now + PingEvery => d <= now + 1 + PingEvery)
    BY <1>1, <2>1, <2>2, Numbers
  <2>4. client[c].aliveAt <= client[c].heardAt /\ client[c].heardAt <= now + 1
    BY <1>1, <2>2 DEF Pinging
  <2> QED
    BY <2>1, <2>2, <2>3, <2>4 DEF Pinging
<1>16. CASE UNCHANGED vars
  BY <1>4, <1>16 DEF vars
<1> QED
  BY <1>6, <1>7, <1>8, <1>9, <1>10, <1>11, <1>12, <1>13, <1>14, <1>15, <1>16, <1>17 DEF Next

-----------------------------------------------------------------------------
(* The rate is held, and no update that was on time is refused *)

\* A window that takes in one more update holds what the limiter allows, if the
\* limiter counts fewer than that.
LEMMA WindowHolds ==
  ASSUME NEW f \in Seq(Nat), NEW time \in Nat,
         NEW counted \in SUBSET (DOMAIN f), Cardinality(counted) < MaxUpdates,
         \A i \in DOMAIN f : f[i] + Window > time => i \in counted,
         NEW t \in Nat, Cardinality(Within(f, t)) <= MaxUpdates,
         NEW g, g = Append(f, time)
  PROVE  Cardinality(Within(g, t)) <= MaxUpdates
<1> DEFINE n == Len(f) + 1
           old == {i \in DOMAIN f : t <= f[i] /\ f[i] < t + Window}
           new == {i \in DOMAIN g : t <= g[i] /\ g[i] < t + Window}
<1>1. /\ n \in Nat /\ DOMAIN f = 1..n - 1 /\ n \notin DOMAIN f /\ DOMAIN g = DOMAIN f \cup {n}
      /\ g[n] = time /\ \A i \in DOMAIN f : g[i] = f[i] /\ f[i] \in Nat
  OBVIOUS
<1>2. IsFiniteSet(DOMAIN f)
  BY <1>1, FS_Interval
<1>3. IsFiniteSet(old) /\ IsFiniteSet(counted)
  BY <1>2, FS_Subset
<1>4. CASE time < t + Window
  <2>1. old \subseteq counted
    <3>1. \A i \in old : f[i] + Window > time
      BY <1>1, <1>4, Numbers
    <3> QED
      BY <3>1
  <2>2. Cardinality(old) <= Cardinality(counted)
    BY <1>3, <2>1, FS_Subset
  <2>3. Cardinality(old) \in Nat /\ Cardinality(counted) \in Nat
    BY <1>3, FS_CardinalityType
  <2>4. new \subseteq old \cup {n}
    BY <1>1
  <2>5. /\ IsFiniteSet(old \cup {n}) /\ Cardinality(old \cup {n}) = Cardinality(old) + 1
    BY <1>1, <1>3, FS_AddElement
  <2>6. Cardinality(new) <= Cardinality(old \cup {n}) /\ IsFiniteSet(new)
    BY <2>4, <2>5, FS_Subset
  <2>7. Cardinality(new) \in Nat
    BY <2>6, FS_CardinalityType
  <2> HIDE DEF new, old
  <2>8. Cardinality(new) <= MaxUpdates
    BY <2>2, <2>3, <2>5, <2>6, <2>7, Numbers
  <2> QED
    BY <2>8 DEF new, Within
<1>5. CASE ~(time < t + Window)
  <2>1. new = old
    BY <1>1, <1>5
  <2> HIDE DEF new, old
  <2>2. Within(f, t) = old /\ Within(g, t) = new
    BY DEF Within, new, old
  <2> QED
    BY <2>1, <2>2
<1> QED
  BY <1>4, <1>5

\* A multiple of a greater number is greater.
LEMMA TimesGrows ==
  \A a, b, c \in Nat :
    a * c \in Nat /\ (a + 1) * c = a * c + c /\ (a <= b => a * c <= b * c)
OBVIOUS

\* What comes as far apart as the coalescer sends it never fills the limiter.
LEMMA NeverFull ==
  ASSUME NEW f \in Seq(Nat), NEW time \in Nat, NEW counted \in SUBSET (DOMAIN f),
         Cardinality(counted) >= MaxUpdates,
         \A i \in counted : f[i] + Window > time,
         \A i, j \in DOMAIN f : i <= j => f[i] + (j - i) * Coalesce <= f[j],
         \A i \in DOMAIN f : f[i] + Coalesce <= time
  PROVE  FALSE
<1> DEFINE n == Len(f)
<1>1. n \in Nat /\ DOMAIN f = 1..n /\ \A i \in DOMAIN f : f[i] \in Nat
  OBVIOUS
<1>2. IsFiniteSet(counted)
  <2>1. IsFiniteSet(1..n)
    BY <1>1, FS_Interval
  <2> QED
    BY <1>1, <2>1, FS_Subset
<1>3. counted # {}
  <2>1. Cardinality({}) = 0
    BY FS_EmptySet
  <2>2. ~(0 >= MaxUpdates)
    BY Numbers
  <2> QED
    BY <2>1, <2>2
<1>4. PICK i \in counted : \A j \in counted : i <= j
  <2>1. counted \in SUBSET Nat
    BY <1>1
  <2> QED
    BY <1>3, <2>1, LeastNatural
<1>5. i \in 1..n /\ n \in DOMAIN f
  BY <1>1, <1>4
<1>6. counted \subseteq i..n
  BY <1>1, <1>4
<1>7. IsFiniteSet(i..n) /\ Cardinality(i..n) = n - i + 1
  BY <1>5, FS_Interval
<1>8. Cardinality(counted) <= n - i + 1 /\ Cardinality(counted) \in Nat
  BY <1>2, <1>6, <1>7, FS_Subset, FS_CardinalityType
<1>9. f[i] + (n - i) * Coalesce <= f[n] /\ f[n] + Coalesce <= time /\ i <= n
  BY <1>1, <1>5
<1>10. PICK m \in Nat : m = n - i
  BY <1>5
<1>11. m * Coalesce \in Nat /\ (m + 1) * Coalesce = m * Coalesce + Coalesce
  BY <1>10, Numbers, TimesGrows
<1>12. MaxUpdates * Coalesce <= (m + 1) * Coalesce
  <2>1. MaxUpdates <= m + 1 /\ m + 1 \in Nat
    BY <1>8, <1>10, Numbers
  <2> QED
    BY <2>1, Numbers, TimesGrows
<1>13. PICK gap \in Nat : gap = m * Coalesce
  BY <1>11
<1>14. f[i] + gap + Coalesce <= time /\ Window <= gap + Coalesce
  <2>1. f[i] + gap <= f[n]
    BY <1>9, <1>10, <1>13
  <2>2. PICK most : most = MaxUpdates * Coalesce
    OBVIOUS
  <2>3. most \in Nat /\ most >= Window /\ most <= gap + Coalesce
    <3>1. most \in Nat
      BY <2>2, Numbers, TimesGrows
    <3> QED
      BY <1>11, <1>12, <1>13, <2>2, <3>1, Numbers
  <2> QED
    BY <1>1, <1>5, <1>9, <2>1, <2>3, Numbers
<1>15. f[i] + Window <= time
  BY <1>1, <1>5, <1>14, Numbers
<1> QED
  BY <1>1, <1>4, <1>5, <1>15, Numbers

\* The clock does not go back.
LEMMA TimeGoesOn ==
  ASSUME [Next]_vars
  PROVE  now' \in {now, now + 1}
BY DEF Next, vars, Connect, Disconnect, OpenSocketNow, SocketLost, CloseEvent, Retry, Synced, PingTimer, Move,
       Flush, Join, SendRoster, Hear, TooEarly, GoStale, Close, Clog, Deliver, Tick

\* A session nothing is put for keeps its pace.
LEMMA PaceKept ==
  ASSUME Types, Types', NEW r \in Sessions, Limited(r) /\ Apart(r) /\ Rated(r),
         Shrinks(conn[r], conn'[r]), SamePace(conn[r], conn'[r]), now' \in {now, now + 1}
  PROVE  Limited(r)' /\ Apart(r)' /\ Rated(r)'
<1>1. /\ conn[r].relayed \in Seq(Nat) /\ now \in Nat /\ now' \in Nat /\ now <= now'
      /\ \A i \in DOMAIN conn[r].relayed : conn[r].relayed[i] \in Nat
  BY ConnectionFields DEF Types
<1>2. PICK m \in Nat : \A i \in Updates(r)' :
        i + m \in Updates(r) /\ conn'[r].up[i] = conn[r].up[i + m]
  BY UpdatesShift
<1>3. \A i \in Updates(r)' : i \in Nat
  <2>1. conn'[r].up \in Seq(Frame)
    BY ConnectionFields DEF Types
  <2> QED
    BY <2>1 DEF Updates
<1>4. \A i \in Updates(r)' : conn'[r].up[i].sent \in Nat
  BY <1>2, UpdateFields
<1>5. /\ \A i \in Updates(r)' : conn'[r].up[i].sent <= now'
      /\ \A i, j \in Updates(r)' : i < j => conn'[r].up[i].sent + Coalesce <= conn'[r].up[j].sent
  <2>1. \A i \in Updates(r)' : conn'[r].up[i].sent <= now
    BY <1>2 DEF Apart
  <2>2. ASSUME NEW i \in Updates(r)', NEW j \in Updates(r)', i < j
        PROVE  conn'[r].up[i].sent + Coalesce <= conn'[r].up[j].sent
    <3>1. i + m < j + m
      BY <1>3, <2>2
    <3> QED
      BY <1>2, <3>1 DEF Apart
  <2> QED
    BY <1>1, <1>4, <2>1, <2>2
<1>6. CASE /\ conn'[r].hits = conn[r].hits /\ conn'[r].relayed = conn[r].relayed
           /\ conn'[r].late = conn[r].late /\ conn'[r].refused = conn[r].refused
  <2>1. Limited(r)'
    BY <1>1, <1>6, Numbers DEF Limited
  <2>2. Apart(r)'
    BY <1>2, <1>5, <1>6 DEF Apart
  <2>3. ASSUME NEW t \in 0..now'
        PROVE  Cardinality(Within(conn[r].relayed, t)) <= MaxUpdates
    <3>1. CASE t \in 0..now
      BY <3>1 DEF Rated
    <3>2. CASE t \notin 0..now
      <4>1. t > now
        BY <1>1, <3>2
      <4>2. Within(conn[r].relayed, t) = {}
        BY <1>1, <4>1 DEF Limited, Within
      <4>3. Cardinality({}) <= MaxUpdates
        BY FS_EmptySet, Numbers
      <4> QED
        BY <4>2, <4>3
    <3> QED
      BY <3>1, <3>2
  <2>4. Rated(r)'
    BY <1>6, <2>3 DEF Rated
  <2> QED
    BY <2>1, <2>2, <2>4
<1>7. CASE conn'[r].hits = {} /\ conn'[r].relayed = <<>> /\ ~conn'[r].late /\ ~conn'[r].refused
  <2>1. DOMAIN conn'[r].relayed = {}
    BY <1>7
  <2>2. Limited(r)' /\ Apart(r)'
    BY <1>5, <1>7, <2>1 DEF Limited, Apart
  <2>3. Rated(r)'
    <3>1. \A t : Within(conn'[r].relayed, t) = {}
      BY <2>1 DEF Within
    <3>2. Cardinality({}) <= MaxUpdates
      BY FS_EmptySet, Numbers
    <3> QED
      BY <1>7, <3>1, <3>2 DEF Rated
  <2> QED
    BY <2>2, <2>3
<1> QED
  BY <1>6, <1>7 DEF SamePace

\* A client that rests keeps its distance.
LEMMA DistanceKept ==
  ASSUME Types, NEW c \in Clients, NextApart(c), Resting(c),
         \A r \in Sessions :
           /\ Shrinks(conn[r], conn'[r]) /\ SamePace(conn[r], conn'[r])
           /\ conn'[r].owner = conn[r].owner \/ (conn'[r].up = <<>> /\ conn'[r].relayed = <<>>)
  PROVE  NextApart(c)'
<1> SUFFICES ASSUME NEW d \in client'[c].flushAt, NEW r \in Sessions, conn'[r].owner = c
             PROVE  /\ \A i \in Updates(r)' : conn'[r].up[i].sent + Coalesce <= d
                    /\ ~conn'[r].late => \A i \in DOMAIN conn'[r].relayed :
                                           conn'[r].relayed[i] + Coalesce <= d
  BY DEF NextApart
<1>1. d \in client[c].flushAt
  BY DEF Resting
<1>2. CASE conn'[r].up = <<>> /\ conn'[r].relayed = <<>>
  BY <1>2 DEF Updates
<1>3. CASE conn'[r].owner = conn[r].owner
  <2>1. /\ \A i \in Updates(r) : conn[r].up[i].sent + Coalesce <= d
        /\ ~conn[r].late => \A i \in DOMAIN conn[r].relayed : conn[r].relayed[i] + Coalesce <= d
    BY <1>1, <1>3 DEF NextApart
  <2>2. PICK m \in Nat : \A i \in Updates(r)' :
          i + m \in Updates(r) /\ conn'[r].up[i] = conn[r].up[i + m]
    BY UpdatesShift
  <2>3. \A i \in Updates(r)' : conn'[r].up[i].sent + Coalesce <= d
    BY <2>1, <2>2
  <2>4. ~conn'[r].late => \A i \in DOMAIN conn'[r].relayed : conn'[r].relayed[i] + Coalesce <= d
    <3>1. conn'[r].relayed = <<>> => DOMAIN conn'[r].relayed = {}
      OBVIOUS
    <3> QED
      BY <2>1, <3>1 DEF SamePace
  <2> QED
    BY <2>3, <2>4
<1> QED
  BY <1>2, <1>3

\* A step that changes neither a session's frames nor its record keeps its pace.
LEMMA PaceSame ==
  ASSUME Types, Types', NEW r \in Sessions, Limited(r) /\ Apart(r) /\ Rated(r), now' = now,
         conn'[r].up = conn[r].up, SamePace(conn[r], conn'[r])
  PROVE  Limited(r)' /\ Apart(r)' /\ Rated(r)'
<1>1. Shrinks(conn[r], conn'[r])
  BY SameUpShrinks DEF Types
<1> QED
  BY <1>1, PaceKept

\* A quiet step keeps all paces.
LEMMA PacesQuiet ==
  ASSUME Types, Types', Paces, Quiet, now' \in {now, now + 1}
  PROVE  Paces'
<1>1. ASSUME NEW r \in Sessions PROVE Limited(r)' /\ Apart(r)' /\ Rated(r)'
  <2>1. Shrinks(conn[r], conn'[r]) /\ SamePace(conn[r], conn'[r])
    BY DEF Quiet, Calm
  <2> QED
    BY <2>1, PaceKept DEF Paces
<1>2. ASSUME NEW c \in Clients PROVE NextApart(c)'
  <2>1. \A r \in Sessions :
          /\ Shrinks(conn[r], conn'[r]) /\ SamePace(conn[r], conn'[r])
          /\ conn'[r].owner = conn[r].owner \/ (conn'[r].up = <<>> /\ conn'[r].relayed = <<>>)
    BY DEF Quiet, Calm
  <2>2. NextApart(c) /\ Resting(c)
    BY DEF Quiet, Paces
  <2> QED
    BY <2>1, <2>2, DistanceKept
<1> QED
  BY <1>1, <1>2 DEF Paces

\* A caret that is put is sent an interval later, if none was waiting.
LEMMA PacesMove ==
  ASSUME Types, Paces, NEW c \in Clients, Move(c)
  PROVE  Paces'
<1>1. /\ Types' /\ now' = now /\ conn' = conn
      /\ \A d \in Clients \ {c} : client'[d] = client[d]
      /\ client'[c].flushAt = client[c].flushAt \/ client'[c].flushAt = {now + Coalesce}
  BY MoveIs
<1>2. \A r \in Sessions : /\ Shrinks(conn[r], conn'[r]) /\ SamePace(conn[r], conn'[r])
                          /\ Updates(r)' = Updates(r)
  BY <1>1, SameUpShrinks DEF SamePace, Types, Updates
<1>3. ASSUME NEW r \in Sessions PROVE Limited(r)' /\ Apart(r)' /\ Rated(r)'
  BY <1>1, <1>2, PaceKept DEF Paces
<1>4. ASSUME NEW d \in Clients, client'[d].flushAt = client[d].flushAt PROVE NextApart(d)'
  BY <1>1, <1>2, <1>4 DEF Paces, NextApart
<1>5. ASSUME client'[c].flushAt = {now + Coalesce} PROVE NextApart(c)'
  <2>1. now \in Nat
    BY DEF Types
  <2>2. ASSUME NEW r \in Sessions
        PROVE  /\ \A i \in Updates(r) : conn[r].up[i].sent + Coalesce <= now + Coalesce
               /\ \A i \in DOMAIN conn[r].relayed : conn[r].relayed[i] + Coalesce <= now + Coalesce
    <3>1. Apart(r) /\ Limited(r)
      BY DEF Paces
    <3>2. \A i \in Updates(r) : conn[r].up[i].sent \in Nat /\ conn[r].up[i].sent <= now
      BY <3>1, UpdateFields DEF Apart
    <3>3. \A i \in DOMAIN conn[r].relayed : conn[r].relayed[i] \in Nat /\ conn[r].relayed[i] <= now
      BY <3>1, ConnectionFields DEF Limited, Types
    <3> QED
      BY <2>1, <3>2, <3>3, Numbers
  <2> QED
    BY <1>1, <1>2, <1>5, <2>2 DEF NextApart
<1> QED
  BY <1>1, <1>3, <1>4, <1>5 DEF Paces

\* What is flushed is an interval behind what was sent before.
LEMMA PacesFlush ==
  ASSUME Shape, Carets, Paces, NEW c \in Clients, Flush(c)
  PROVE  Paces'
<1> DEFINE frame == [kind |-> "update", caret |-> client[c].pending, sent |-> now]
<1>1. /\ Types' /\ now' = now
      /\ \A d \in Clients \ {c} : client'[d] = client[d]
      /\ client'[c].flushAt = {} /\ \E t \in client[c].flushAt : t <= now
      /\ \/ UNCHANGED conn
         \/ client[c].ws # Nobody /\ Sends(client[c].ws, frame)
  BY PendingCounts, FlushIs DEF Shape
<1>2. Types /\ now \in Nat
  BY DEF Shape, Types
<1>3. PICK t \in client[c].flushAt : t <= now
  BY <1>1
<1>4. t \in Nat
  BY PersonFields DEF Shape, Types
<1>5. frame.kind = "update" /\ frame.sent = now
  OBVIOUS
<1> HIDE DEF frame
<1>6. CASE UNCHANGED conn
  <2>1. ASSUME NEW r \in Sessions PROVE Limited(r)' /\ Apart(r)' /\ Rated(r)'
    BY <1>1, <1>2, <1>6, PaceSame DEF Paces, SamePace
  <2>2. \A r \in Sessions : Updates(r)' = Updates(r)
    BY <1>6 DEF Updates
  <2>3. ASSUME NEW d \in Clients PROVE NextApart(d)'
    BY <1>1, <1>6, <2>2 DEF Paces, NextApart
  <2> QED
    BY <2>1, <2>3 DEF Paces
<1>7. CASE client[c].ws # Nobody /\ Sends(client[c].ws, frame)
  <2>1. PICK r \in Sessions : r = client[c].ws /\ conn[r].owner = c
    BY <1>7, SocketOpened DEF Shape, Sockets
  <2>2. Sends(r, frame)
    BY <1>7, <2>1
  <2>3. PICK n \in Nat :
          /\ Updates(r)' = Updates(r) \cup {n}
          /\ conn'[r].up[n] = frame
          /\ \A i \in Updates(r) : i < n /\ conn'[r].up[i] = conn[r].up[i]
          /\ conn'[r].owner = conn[r].owner
          /\ conn'[r].hits = conn[r].hits /\ conn'[r].relayed = conn[r].relayed
          /\ conn'[r].late = conn[r].late /\ conn'[r].refused = conn[r].refused
    BY <1>2, <1>5, <2>2, SentLast
  <2>4. \A q \in Sessions \ {r} : conn'[q] = conn[q] /\ Updates(q)' = Updates(q)
    BY <2>2 DEF Sends, Updates
  <2>5. /\ \A i \in Updates(r) : conn[r].up[i].sent + Coalesce <= now
        /\ ~conn[r].late => \A i \in DOMAIN conn[r].relayed : conn[r].relayed[i] + Coalesce <= now
    <3>1. NextApart(c)
      BY DEF Paces
    <3>2. /\ \A i \in Updates(r) : conn[r].up[i].sent + Coalesce <= t
          /\ ~conn[r].late => \A i \in DOMAIN conn[r].relayed : conn[r].relayed[i] + Coalesce <= t
      BY <2>1, <3>1 DEF NextApart
    <3>3. \A i \in Updates(r) : conn[r].up[i].sent \in Nat
      BY <1>2, UpdateFields
    <3>4. \A i \in DOMAIN conn[r].relayed : conn[r].relayed[i] \in Nat
      BY <1>2, ConnectionFields DEF Types
    <3> QED
      BY <1>2, <1>3, <1>4, <3>2, <3>3, <3>4, Numbers
  <2>6. \A i \in Updates(r) : i \in Nat /\ conn[r].up[i].sent \in Nat
    BY <1>2, UpdateFields
  <2>7. Limited(r) /\ Apart(r) /\ Rated(r)
    BY DEF Paces
  <2>8. Limited(r)' /\ Rated(r)'
    BY <1>1, <2>3, <2>7 DEF Limited, Rated
  <2>9. Apart(r)'
    <3>1. \A i \in Updates(r)' : conn'[r].up[i].sent <= now'
      BY <1>1, <1>2, <1>5, <2>3, <2>7 DEF Apart
    <3>2. ASSUME NEW i \in Updates(r)', NEW j \in Updates(r)', i < j
          PROVE  conn'[r].up[i].sent + Coalesce <= conn'[r].up[j].sent
      <4>1. i \in Updates(r)
        BY <2>3, <2>6, <3>2
      <4>2. CASE j \in Updates(r)
        BY <2>3, <2>7, <3>2, <4>1, <4>2 DEF Apart
      <4>3. CASE j = n
        BY <1>5, <2>3, <2>5, <4>1, <4>3
      <4> QED
        BY <2>3, <4>2, <4>3
    <3>3. ASSUME ~conn'[r].late
          PROVE  /\ \A i, j \in DOMAIN conn'[r].relayed : i <= j =>
                      conn'[r].relayed[i] + (j - i) * Coalesce <= conn'[r].relayed[j]
                 /\ \A i \in DOMAIN conn'[r].relayed, j \in Updates(r)' :
                      conn'[r].relayed[i] + Coalesce <= conn'[r].up[j].sent
      <4>1. \A i, j \in DOMAIN conn[r].relayed : i <= j =>
               conn[r].relayed[i] + (j - i) * Coalesce <= conn[r].relayed[j]
        BY <2>3, <2>7, <3>3 DEF Apart
      <4>2. ASSUME NEW i \in DOMAIN conn[r].relayed, NEW j \in Updates(r)'
            PROVE  conn[r].relayed[i] + Coalesce <= conn'[r].up[j].sent
        <5>1. CASE j \in Updates(r)
          BY <2>3, <2>7, <3>3, <5>1 DEF Apart
        <5>2. CASE j = n
          BY <1>5, <2>3, <2>5, <3>3, <5>2
        <5> QED
          BY <2>3, <5>1, <5>2
      <4> QED
        BY <2>3, <4>1, <4>2
    <3> QED
      BY <3>1, <3>2, <3>3 DEF Apart
  <2>10. ASSUME NEW q \in Sessions \ {r} PROVE Limited(q)' /\ Apart(q)' /\ Rated(q)'
    BY <1>1, <1>2, <2>4, PaceSame DEF Paces, SamePace
  <2>11. NextApart(c)'
    BY <1>1 DEF NextApart
  <2>12. ASSUME NEW d \in Clients \ {c} PROVE NextApart(d)'
    <3>1. client'[d] = client[d] /\ conn'[r].owner # d /\ NextApart(d)
      BY <1>1, <2>1, <2>3 DEF Paces
    <3> QED
      BY <2>4, <3>1 DEF NextApart
  <2> QED
    BY <2>8, <2>9, <2>10, <2>11, <2>12 DEF Paces
<1> QED
  BY <1>1, <1>6, <1>7

\* A roster has nothing to do with it.
LEMMA PacesRoster ==
  ASSUME Shape, Types', Paces, NEW r \in Sessions, SendRoster(r)
  PROVE  Paces'
<1>1. UNCHANGED <<now, client>> /\ Alone(r)
  BY SendRosterIs DEF Shape
<1>2. PICK k : /\ k = [conn[r] EXCEPT !.stage = "live", !.seen = caret]
               /\ IF r \in room THEN Hears(k, conn'[r], [kind |-> "roster", members |-> room])
                  ELSE conn'[r] = k
  BY SendRosterIs DEF Shape
<1>3. /\ k.up = conn[r].up /\ k.owner = conn[r].owner /\ k.hits = conn[r].hits
      /\ k.relayed = conn[r].relayed /\ k.late = conn[r].late /\ k.refused = conn[r].refused
  BY <1>2, PlaceBefore DEF Connection
<1>4. /\ conn'[r].up = conn[r].up /\ conn'[r].owner = conn[r].owner
      /\ SamePace(conn[r], conn'[r])
  BY <1>2, <1>3 DEF Hears, SameButLane, SamePace
<1>5. ASSUME NEW q \in Sessions
      PROVE  /\ conn'[q].up = conn[q].up /\ conn'[q].owner = conn[q].owner
             /\ SamePace(conn[q], conn'[q]) /\ Shrinks(conn[q], conn'[q])
  <2>1. /\ conn'[q].up = conn[q].up /\ conn'[q].owner = conn[q].owner
        /\ SamePace(conn[q], conn'[q])
    BY <1>1, <1>4 DEF Alone, SamePace
  <2> QED
    BY <2>1, SameUpShrinks, PlaceBefore
<1>6. ASSUME NEW q \in Sessions PROVE Limited(q)' /\ Apart(q)' /\ Rated(q)'
  BY <1>1, <1>5, PaceSame DEF Paces, Shape
<1>7. ASSUME NEW c \in Clients PROVE NextApart(c)'
  BY <1>1, <1>5, DistanceKept DEF Paces, Resting, Shape
<1> QED
  BY <1>6, <1>7 DEF Paces

\* The updates of a session that was never late come to the limiter as far apart
\* as they were sent.
LEMMA ComesApart ==
  ASSUME Types, NEW r \in Sessions, Apart(r), 1 \in Updates(r), ~conn[r].late,
         ~(now > conn[r].up[1].sent)
  PROVE  /\ conn[r].up[1].sent = now
         /\ \A i \in DOMAIN conn[r].relayed : conn[r].relayed[i] + Coalesce <= now
         /\ \A i, j \in DOMAIN conn[r].relayed : i <= j =>
              conn[r].relayed[i] + (j - i) * Coalesce <= conn[r].relayed[j]
<1>1. conn[r].up[1].sent \in Nat /\ now \in Nat
  BY UpdateFields DEF Types
<1>2. conn[r].up[1].sent <= now
  BY DEF Apart
<1>3. conn[r].up[1].sent = now
  BY <1>1, <1>2
<1> QED
  BY <1>3 DEF Apart

\* So the limiter is not full for it.
LEMMA NotRefused ==
  ASSUME Types, NEW r \in Sessions, Limited(r), Apart(r), 1 \in Updates(r), ~conn[r].late,
         ~(now > conn[r].up[1].sent)
  PROVE  ~(Cardinality(Hits(conn[r])) >= MaxUpdates)
<1> DEFINE counted == Hits(conn[r])
           f == conn[r].relayed
<1>1. f \in Seq(Nat) /\ now \in Nat
  BY ConnectionFields DEF Types
<1>2. counted \subseteq DOMAIN f /\ \A i \in counted : f[i] + Window > now
  BY DEF Hits, Limited
<1>3. /\ \A i \in DOMAIN f : f[i] + Coalesce <= now
      /\ \A i, j \in DOMAIN f : i <= j => f[i] + (j - i) * Coalesce <= f[j]
  BY ComesApart
<1> HIDE DEF counted, f
<1>4. ~(Cardinality(counted) >= MaxUpdates)
  BY <1>1, <1>2, <1>3, NeverFull
<1> QED
  BY <1>4 DEF counted

\* A relayed update is one more in the record, as far from the last.
LEMMA RecordGrows ==
  ASSUME NEW f \in Seq(Nat), NEW time \in Nat, NEW g, g = Append(f, time),
         \A i \in DOMAIN f : f[i] + Coalesce <= time,
         \A i, j \in DOMAIN f : i <= j => f[i] + (j - i) * Coalesce <= f[j],
         NEW i \in DOMAIN g, NEW j \in DOMAIN g, i <= j
  PROVE  g[i] + (j - i) * Coalesce <= g[j]
<1> DEFINE n == Len(f) + 1
<1>1. /\ n \in Nat /\ DOMAIN f = 1..n - 1 /\ DOMAIN g = DOMAIN f \cup {n}
      /\ g[n] = time /\ \A m \in DOMAIN f : g[m] = f[m] /\ f[m] \in Nat
  OBVIOUS
<1>2. CASE j \in DOMAIN f
  <2>1. i \in DOMAIN f
    BY <1>1, <1>2
  <2> QED
    BY <1>1, <1>2, <2>1
<1>3. CASE j = n /\ i = n
  <2>1. (j - i) * Coalesce = 0
    BY <1>1, <1>3, Numbers
  <2> QED
    BY <1>1, <1>3, <2>1
<1>4. CASE j = n /\ i # n
  <2>1. i \in DOMAIN f /\ n - 1 \in DOMAIN f /\ i <= n - 1
    BY <1>1, <1>4
  <2>2. PICK m \in Nat : m = n - 1 - i
    BY <1>1, <2>1
  <2>3. f[i] + m * Coalesce <= f[n - 1] /\ f[n - 1] + Coalesce <= time
    BY <2>1, <2>2
  <2>4. PICK gap \in Nat : gap = m * Coalesce
    BY Numbers, TimesGrows
  <2>5. (m + 1) * Coalesce = gap + Coalesce
    BY <2>4, Numbers, TimesGrows
  <2>6. j - i = m + 1
    BY <1>1, <1>4, <2>1, <2>2
  <2>7. f[i] + (gap + Coalesce) <= time
    BY <1>1, <2>1, <2>3, <2>4, Numbers
  <2> QED
    BY <1>1, <1>4, <2>1, <2>5, <2>6, <2>7
<1> QED
  BY <1>1, <1>2, <1>3, <1>4

\* What the limiter lets through, it counts.
LEMMA PacesUpdate ==
  ASSUME Shape, Paces, NEW r \in Sessions, Update(r)
  PROVE  Paces'
<1> DEFINE f == conn[r].relayed
           g == conn'[r].relayed
           sent == conn[r].up[1].sent
<1>1. /\ Types' /\ UNCHANGED <<now, room, client>> /\ 1 \in Updates(r)
      /\ \A i \in Updates(r)' : /\ i \in Nat /\ i + 1 \in Updates(r)
                                /\ conn'[r].up[i] = conn[r].up[i + 1]
      /\ conn'[r].owner = conn[r].owner
      /\ conn'[r].late = (conn[r].late \/ (r \in room /\ now > sent))
      /\ \A q \in Sessions \ {r} : SameButLane(conn[q], conn'[q])
      /\ Declines(r) \/ Relays(r, conn[r].up[1])
  BY UpdateIs
<1>2. /\ Types /\ now \in Nat /\ f \in Seq(Nat) /\ Limited(r) /\ Apart(r) /\ Rated(r)
      /\ \A i \in DOMAIN f : f[i] \in Nat
  BY ConnectionFields DEF Shape, Types, Paces
<1>3. \A q \in Sessions \ {r} :
        /\ conn'[q].up = conn[q].up /\ Updates(q)' = Updates(q)
        /\ conn'[q].owner = conn[q].owner /\ SamePace(conn[q], conn'[q])
        /\ conn'[q].relayed = conn[q].relayed /\ conn'[q].late = conn[q].late
  BY <1>1 DEF SameButLane, SamePace, Updates
<1>4. ASSUME NEW q \in Sessions \ {r} PROVE Limited(q)' /\ Apart(q)' /\ Rated(q)'
  BY <1>1, <1>2, <1>3, PaceSame DEF Paces
<1>5. ASSUME ~conn'[r].late, r \in room
      PROVE  ~conn[r].late /\ ~(now > sent)
  BY <1>1, <1>5
<1>6. /\ \A i \in Updates(r)' : conn'[r].up[i].sent <= now'
      /\ \A i, j \in Updates(r)' : i < j => conn'[r].up[i].sent + Coalesce <= conn'[r].up[j].sent
      /\ \A j \in Updates(r)' : sent + Coalesce <= conn'[r].up[j].sent
  <2>1. \A i \in Updates(r)' : conn'[r].up[i].sent <= now'
    BY <1>1, <1>2 DEF Apart
  <2>2. ASSUME NEW i \in Updates(r)', NEW j \in Updates(r)', i < j
        PROVE  conn'[r].up[i].sent + Coalesce <= conn'[r].up[j].sent
    <3>1. i + 1 < j + 1
      BY <1>1, <2>2
    <3> QED
      BY <1>1, <1>2, <3>1 DEF Apart
  <2>3. ASSUME NEW j \in Updates(r)' PROVE sent + Coalesce <= conn'[r].up[j].sent
    <3>1. 1 < j + 1
      <4>1. conn'[r].up \in Seq(Frame)
        BY <1>1, ConnectionFields DEF Types
      <4>2. j \in DOMAIN conn'[r].up
        BY DEF Updates
      <4> QED
        BY <4>1, <4>2
    <3> QED
      BY <1>1, <1>2, <3>1 DEF Apart
  <2> QED
    BY <2>1, <2>2, <2>3
<1>7. ASSUME NEW c \in Clients, NEW d \in client[c].flushAt, NEW q \in Sessions, conn[q].owner = c
      PROVE  /\ \A i \in Updates(q) : conn[q].up[i].sent + Coalesce <= d
             /\ ~conn[q].late => \A i \in DOMAIN conn[q].relayed : conn[q].relayed[i] + Coalesce <= d
  BY <1>7 DEF Paces, NextApart
<1>8. ASSUME NEW c \in Clients,
             ASSUME NEW d \in client[c].flushAt, conn[r].owner = c, ~conn'[r].late
             PROVE  \A i \in DOMAIN g : g[i] + Coalesce <= d
      PROVE  NextApart(c)'
  <2> SUFFICES ASSUME NEW d \in client[c].flushAt, NEW q \in Sessions, conn'[q].owner = c
               PROVE  /\ \A i \in Updates(q)' : conn'[q].up[i].sent + Coalesce <= d
                      /\ ~conn'[q].late => \A i \in DOMAIN conn'[q].relayed :
                                             conn'[q].relayed[i] + Coalesce <= d
    BY <1>1 DEF NextApart
  <2>1. CASE q = r
    BY <1>1, <1>7, <1>8, <2>1
  <2>2. CASE q # r
    BY <1>3, <1>7, <2>2
  <2> QED
    BY <2>1, <2>2
<1> HIDE DEF sent
<1>9. CASE Declines(r)
  <2>1. g = f
    BY <1>9 DEF Declines
  <2>2. Limited(r)'
    <3>1. conn'[r].hits = conn[r].hits \/ conn'[r].hits = Hits(conn[r])
      BY <1>9 DEF Declines
    <3> QED
      BY <1>1, <1>2, <2>1, <3>1 DEF Limited, Hits
  <2>3. Apart(r)'
    <3>1. ASSUME ~conn'[r].late
          PROVE  /\ \A i, j \in DOMAIN f : i <= j => f[i] + (j - i) * Coalesce <= f[j]
                 /\ \A i \in DOMAIN f, j \in Updates(r)' : f[i] + Coalesce <= conn'[r].up[j].sent
      BY <1>1, <1>2, <3>1 DEF Apart
    <3> QED
      BY <1>6, <2>1, <3>1 DEF Apart
  <2>4. Rated(r)'
    <3>1. ASSUME conn'[r].refused PROVE conn'[r].late
      <4>1. CASE conn'[r].refused = conn[r].refused
        BY <1>1, <1>2, <3>1, <4>1 DEF Rated
      <4>2. CASE r \in room /\ Cardinality(Hits(conn[r])) >= MaxUpdates
        BY <1>1, <1>2, <1>5, <4>2, NotRefused DEF sent
      <4> QED
        BY <1>9, <4>1, <4>2 DEF Declines
    <3> QED
      BY <1>1, <1>2, <2>1, <3>1 DEF Rated
  <2>5. ASSUME NEW c \in Clients PROVE NextApart(c)'
    <3>1. ASSUME NEW d \in client[c].flushAt, conn[r].owner = c, ~conn'[r].late
          PROVE  \A i \in DOMAIN g : g[i] + Coalesce <= d
      BY <1>1, <1>7, <2>1, <3>1
    <3> QED
      BY <1>8, <3>1
  <2> QED
    BY <1>4, <2>2, <2>3, <2>4, <2>5 DEF Paces
<1>10. CASE Relays(r, conn[r].up[1])
  <2>1. /\ r \in room /\ ~(Cardinality(Hits(conn[r])) >= MaxUpdates)
        /\ conn'[r].hits = Hits(conn[r]) \cup {Len(f) + 1}
        /\ g = Append(f, now) /\ conn'[r].refused = conn[r].refused
    BY <1>10 DEF Relays
  <2>2. /\ Len(f) + 1 \in Nat /\ DOMAIN g = DOMAIN f \cup {Len(f) + 1}
        /\ g[Len(f) + 1] = now /\ \A i \in DOMAIN f : g[i] = f[i]
    BY <1>2, <2>1
  <2>3. Limited(r)'
    <3>1. \A i \in DOMAIN f : f[i] <= now /\ (f[i] + Window > now => i \in Hits(conn[r]))
      BY <1>2 DEF Limited, Hits
    <3>2. Hits(conn[r]) \subseteq DOMAIN f
      BY <1>2 DEF Limited, Hits
    <3>3. now <= now
      BY <1>2
    <3> HIDE DEF g
    <3>4. /\ conn'[r].hits \subseteq DOMAIN g
          /\ \A i \in DOMAIN g : g[i] <= now /\ (g[i] + Window > now => i \in conn'[r].hits)
      BY <2>1, <2>2, <3>1, <3>2, <3>3
    <3> QED
      BY <1>1, <3>4 DEF Limited, g
  <2>4. ASSUME ~conn'[r].late
        PROVE  /\ sent = now /\ \A i \in DOMAIN f : f[i] + Coalesce <= now
               /\ \A i, j \in DOMAIN f : i <= j => f[i] + (j - i) * Coalesce <= f[j]
    BY <1>1, <1>2, <1>5, <2>1, <2>4, ComesApart DEF sent
  <2>5. Apart(r)'
    <3>1. ASSUME ~conn'[r].late
          PROVE  /\ \A i, j \in DOMAIN g : i <= j => g[i] + (j - i) * Coalesce <= g[j]
                 /\ \A i \in DOMAIN g, j \in Updates(r)' : g[i] + Coalesce <= conn'[r].up[j].sent
      <4>1. \A i, j \in DOMAIN g : i <= j => g[i] + (j - i) * Coalesce <= g[j]
        <5> HIDE DEF g, f
        <5> QED
          BY <1>2, <2>1, <2>4, <3>1, RecordGrows
      <4>2. ASSUME NEW i \in DOMAIN g, NEW j \in Updates(r)'
            PROVE  g[i] + Coalesce <= conn'[r].up[j].sent
        <5>1. ~conn[r].late
          BY <1>1, <3>1
        <5>2. CASE i \in DOMAIN f
          BY <1>1, <1>2, <2>2, <5>1, <5>2 DEF Apart
        <5>3. CASE i = Len(f) + 1
          BY <1>6, <2>2, <2>4, <3>1, <5>3
        <5> QED
          BY <2>2, <5>2, <5>3
      <4> QED
        BY <4>1, <4>2
    <3> QED
      BY <1>6, <3>1 DEF Apart
  <2>6. Rated(r)'
    <3>1. ASSUME NEW t \in 0..now
          PROVE  Cardinality(Within(g, t)) <= MaxUpdates
      <4> DEFINE counted == Hits(conn[r])
      <4>1. /\ counted \in SUBSET (DOMAIN f)
            /\ \A i \in DOMAIN f : f[i] + Window > now => i \in counted
        BY <1>2 DEF Limited, Hits
      <4>2. Cardinality(counted) < MaxUpdates
        <5>1. IsFiniteSet(counted)
          <6>1. IsFiniteSet(DOMAIN f)
            BY <1>2, FS_Interval
          <6> QED
            BY <4>1, <6>1, FS_Subset
        <5>2. Cardinality(counted) \in Nat
          BY <5>1, FS_CardinalityType
        <5> QED
          BY <2>1, <5>2, Numbers
      <4>3. Cardinality(Within(f, t)) <= MaxUpdates
        BY <1>2 DEF Rated
      <4>4. t \in Nat
        OBVIOUS
      <4> HIDE DEF counted, f, g
      <4> QED
        BY <1>2, <2>1, <4>1, <4>2, <4>3, <4>4, WindowHolds
    <3>2. conn'[r].refused => conn'[r].late
      BY <1>1, <1>2, <2>1 DEF Rated
    <3> QED
      BY <1>1, <3>1, <3>2 DEF Rated
  <2>7. ASSUME NEW c \in Clients PROVE NextApart(c)'
    <3>1. ASSUME NEW d \in client[c].flushAt, conn[r].owner = c, ~conn'[r].late
          PROVE  \A i \in DOMAIN g : g[i] + Coalesce <= d
      <4>1. \A i \in DOMAIN f : f[i] + Coalesce <= d
        BY <1>1, <1>7, <3>1
      <4>2. now + Coalesce <= d
        BY <1>1, <1>7, <2>4, <3>1 DEF sent
      <4> QED
        BY <2>2, <4>1, <4>2
    <3> QED
      BY <1>8, <3>1
  <2> QED
    BY <1>4, <2>3, <2>5, <2>6, <2>7 DEF Paces
<1> QED
  BY <1>1, <1>9, <1>10

\* Every step keeps the paces.
LEMMA PacesStep ==
  ASSUME Shape, Carets, Paces, [Next]_vars
  PROVE  Paces'
<1>1. Types /\ Types'
  BY ShapeStep DEF Shape
<1>2. now' \in {now, now + 1}
  BY TimeGoesOn
<1> QED
  BY <1>1, <1>2, QuietSteps, PacesQuiet, PacesMove, PacesFlush, PacesRoster, PacesUpdate

-----------------------------------------------------------------------------
(* The theorems *)

IInv == Shape /\ Carets /\ Silences /\ Stalls /\ Paces /\ OverlayFollowsRoom

\* It holds before anybody connects.
LEMMA IInvInit == Init => IInv
<1> SUFFICES ASSUME Init PROVE IInv
  OBVIOUS
<1>1. /\ now = 0 /\ room = {} /\ conn = [r \in Sessions |-> NoConn]
      /\ client = [c \in Clients |-> NoClient] /\ caret = [r \in Sessions |-> 0]
  BY DEF Init
<1>2. \A r \in Sessions : conn[r] = NoConn /\ caret[r] = 0
  BY <1>1
<1>3. \A c \in Clients : client[c] = NoClient
  BY <1>1
<1>4. budget \in Budget
  BY PresenceAssumption DEF Init, Budget, Moves
<1>5. Types
  <2>1. 0 \in Moves /\ 0 \in Nat
    BY Numbers DEF Moves
  <2> QED
    BY <1>1, <1>4, <2>1, NoConnType, NoClientType DEF Types
<1>6. Openings
  <2>1. budget.sessions \in 0..MaxSessions
    BY <1>4 DEF Budget
  <2>2. 0 \in 0..MaxSessions /\ 0 + budget.sessions <= MaxSessions
    BY <2>1, Numbers
  <2>3. \A r \in Sessions : r > 0
    BY DEF Sessions
  <2> QED
    BY <1>2, <2>2, <2>3, NoConnType DEF Openings
<1>7. Unopened /\ Places
  BY <1>1, <1>2, NoConnType DEF Unopened, Places
<1>8. Sockets
  BY <1>3, NoClientType DEF Sockets
<1>9. \A r \in Sessions : Updates(r) = {}
  BY <1>2, NoConnType DEF Updates
<1>10. Carets
  <2>1. \A r \in Sessions : CaretsInOrder(r)
    BY <1>2, <1>9 DEF CaretsInOrder
  <2>2. \A c \in Clients : PendingIsNewest(c)
    BY <1>3, NoClientType DEF PendingIsNewest
  <2>3. SeenBefore
    BY <1>2, NoConnType DEF SeenBefore
  <2> QED
    BY <2>1, <2>2, <2>3 DEF Carets
<1>11. Silences
  BY <1>1, <1>2, NoConnType DEF Silences, Heard
<1>12. Stalls
  BY <1>1, <1>3, NoClientType DEF Stalls, Pinging
<1>13. Paces
  <2>1. DOMAIN NoConn.relayed = {}
    BY NoConnType
  <2>2. \A r \in Sessions : Limited(r) /\ Apart(r)
    BY <1>2, <1>9, <2>1, NoConnType DEF Limited, Apart
  <2>3. \A r \in Sessions : Rated(r)
    <3>1. \A t : Within(NoConn.relayed, t) = {}
      BY <2>1 DEF Within
    <3>2. Cardinality({}) <= MaxUpdates
      BY FS_EmptySet, Numbers
    <3> QED
      BY <1>2, <3>1, <3>2, NoConnType DEF Rated
  <2>4. \A c \in Clients : NextApart(c)
    BY <1>3, NoClientType DEF NextApart
  <2> QED
    BY <2>2, <2>3, <2>4 DEF Paces
<1>14. OverlayFollowsRoom
  BY <1>1 DEF OverlayFollowsRoom
<1> QED
  BY <1>5, <1>6, <1>7, <1>8, <1>10, <1>11, <1>12, <1>13, <1>14 DEF IInv, Shape

\* And every step keeps it.
LEMMA IInvStep == IInv /\ [Next]_vars => IInv'
BY ShapeStep, CaretsStep, SilencesStep, StallsStep, PacesStep, OverlayStep DEF IInv

\* It says that the room is right about time.
LEMMA IInvIsTimely == IInv => RoomIsTimely
<1> SUFFICES ASSUME IInv PROVE RoomIsTimely
  OBVIOUS
<1>1. Types /\ now \in Nat
  BY DEF IInv, Shape, Types
<1>2. TypeOK
  <2>1. ASSUME NEW r \in Sessions
        PROVE  /\ conn[r].stage \in {"none", "new", "joined", "live", "gone"}
               /\ conn[r].timers \subseteq Nat /\ conn[r].stale \in BOOLEAN
               /\ conn[r].lane # <<>> => conn[r].open
               /\ caret[r] \in Moves
               /\ r \in room => conn[r].stage \in {"joined", "live"}
    BY <1>1, PlaceBefore, ConnectionFields DEF IInv, Types
  <2>2. ASSUME NEW c \in Clients
        PROVE  /\ client[c].state \in {"offline", "connecting", "reconnecting", "synced"}
               /\ client[c].ws \in {Nobody} \cup Opened
               /\ client[c].closing => client[c].ws # Nobody
               /\ \A r \in DOMAIN client[c].overlay : client[c].overlay[r] \in Moves
               /\ client[c].pending \in Moves
               /\ client[c].flushAt \cup client[c].pingDue \subseteq Nat
    <3>1. client[c] \in Person
      BY <1>1 DEF Types
    <3>2. client[c].ws \in {Nobody} \cup Opened
      BY SocketOpened DEF IInv, Opened
    <3>3. \A r \in DOMAIN client[c].overlay : client[c].overlay[r] \in Moves
      BY <3>1, PersonFields DEF Overlay
    <3>4. client[c].closing => client[c].ws # Nobody
      BY DEF IInv, Shape, Sockets
    <3> QED
      BY <3>1, <3>2, <3>3, <3>4, PersonFields
  <2> QED
    BY <1>1, <2>1, <2>2 DEF TypeOK, Types
<1>3. RateHeld
  <2> SUFFICES ASSUME NEW r \in Sessions, NEW t \in 0..now
               PROVE  Cardinality(Within(conn[r].relayed, t)) <= MaxUpdates
    BY DEF RateHeld, Within
  <2> QED
    BY DEF IInv, Paces, Rated
<1>4. OnTimeIsRelayed
  BY DEF IInv, Paces, Rated, OnTimeIsRelayed
<1>5. SilenceNoticed
  <2> SUFFICES ASSUME NEW r \in Sessions
               PROVE  /\ conn[r].stale => now - conn[r].pingAt >= Stale
                      /\ r \in room => now - conn[r].pingAt <= Stale
    BY DEF SilenceNoticed
  <2>1. Heard(r) /\ conn[r].pingAt \in Nat
    BY <1>1, ConnectionFields DEF IInv, Silences, Types
  <2>2. conn[r].stale => conn[r].pingAt + Stale <= now
    BY <2>1 DEF Heard
  <2>3. r \in room => conn[r].pingAt + Stale >= now
    BY <2>1 DEF Heard
  <2> QED
    BY <1>1, <2>1, <2>2, <2>3, Numbers
<1>6. StallNoticed
  <2> SUFFICES ASSUME NEW c \in Clients, client[c].state = "synced", ~client[c].closing
               PROVE  now - client[c].heardAt <= Gap + PingEvery
    BY DEF StallNoticed
  <2>1. client[c].heardAt \in Nat /\ client[c].pingDue \in SUBSET Nat
    BY <1>1, PersonFields DEF Types
  <2>2. PICK d \in client[c].pingDue : now <= d /\ d <= client[c].heardAt + Gap + PingEvery
    BY DEF IInv, Stalls, Pinging
  <2>3. d \in Nat
    BY <2>1
  <2> QED
    BY <1>1, <2>1, <2>2, <2>3, Numbers
<1> QED
  BY <1>2, <1>3, <1>4, <1>5, <1>6 DEF RoomIsTimely

\* In every state a client that is on its session's open socket, has the roster
\* and has lost no frame will show exactly the room, and every caret where its
\* last update put it or, if that is older than the roster, nowhere: the frames
\* of broadcastExcept(), of sendRoster() and of a flush come in an order that
\* handlePresenceEvent() makes the same of, whoever joins, leaves, goes stale,
\* reconnects or moves in between (presenceManager.ts:61-141,
\* sendQueues.ts:61-81, presenceOverlay.ts:126-180).
THEOREM OverlayFollowsRoomAlways == Spec => []OverlayFollowsRoom
<1>1. IInv => OverlayFollowsRoom
  BY DEF IInv
<1> QED
  BY <1>1, IInvInit, IInvStep, PTL DEF Spec

\* In every state no window holds more relayed updates of a session than the
\* limiter allows, what is refused was late, who is stale was silent for that
\* long, who is in the room was not, and a synced client that has not called
\* close() had a sign of life of its connection within a gap and an interval,
\* whatever the intervals are, as long as as many updates as the limiter allows
\* take the coalescer at least its window
\* (rateLimiter.ts:31-49, heartbeat.ts:29-77, sync/presence.ts:46-72,
\* syncClient.ts:1833-1846).
THEOREM RoomIsTimelyAlways == Spec => []RoomIsTimely
<1> QED
  BY IInvInit, IInvStep, IInvIsTimely, PTL DEF Spec

=============================================================================
