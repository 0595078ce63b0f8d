------------------------- MODULE SyncClaims_proofs -------------------------
(***************************************************************************)
(* Proofs about what a client claims and keeps: up to the number it        *)
(* reports it has integrated every entry of another client that it could,  *)
(* and its durable queue at rest holds what memory holds, for any number   *)
(* of edits, peers, connections and reloads, whatever the lanes, the       *)
(* commits, the chunks and the reconnections do, under the premise of      *)
(* Sync_proofs (Orderly): no late frames, role lookups that answer in      *)
(* order, and no page that finds the row of an operation that was answered *)
(* or minted again.                                                        *)
(***************************************************************************)
EXTENDS Sync_proofs

-----------------------------------------------------------------------------
(* What the client claims to have of the others *)

\* An entry of another client.
Foreign(i) == log[i].id[2] = 0

\* Parents are logged before their children.
LogCausal ==
  \A i \in DOMAIN log : log[i].parent = Root \/ \E k \in 1..(i - 1) : log[k].id = log[i].parent

\* Where operations are; of two with one identifier none differs from the other.
Somewhere ==
  ToSet(log) \cup parked \cup ToSet(unacked) \cup Held \cup UNION {SentBy(n) : n \in Connections}

OneCopy == \A o, p \in Somewhere : o.id = p.id => o = p

\* The engine has integrated whatever it can.
Dry == engine.nodes \cap engine.pending = {} /\ Resolved(engine.nodes, engine.pending) = {}

\* What the engine's operations hang under was minted, and no later than the copy
\* that is queued.
Elders ==
  \A o \in Held : o.parent[2] # 0 =>
    /\ o.parent[1] \in 1..typed /\ o.parent[2] <= conn
    /\ \A q \in ToSet(unacked) : o.parent[1] = q.id[1] => o.parent[2] <= q.id[2]

\* The numbers of a frame are those of the log, above the one HELLO reported.
Sound(f, floor) ==
  /\ f.kind = "op" => f.seq \in DOMAIN log /\ f.seq > floor /\ f.op = log[f.seq]
  /\ f.kind = "ack" => f.seq \in DOMAIN log /\ ~Foreign(f.seq)
  /\ f.kind = "snapshot" => f.seq \in floor..Len(log) /\ f.nodes = {log[i] : i \in 1..f.seq}
  /\ f.kind = "chunk" =>
       /\ f.through <= Len(log)
       /\ \A entry \in f.entries : entry.seq \in (floor + 1)..f.through /\ entry.op = log[entry.seq]
  /\ f.kind = "end" => f.to <= Len(log)

\* One frame on a connection makes a new engine; only then is a catch-up chained.
RenewedOnce ==
  /\ open /\ (session[conn].stage \in {"open", "catchup"} \/ \E i \in DOMAIN control : Renews(control[i]))
       => engine.replica # conn
  /\ open /\ session[conn].stage \in {"open", "catchup"} => \A i \in DOMAIN control : ~Renews(control[i])
  /\ \A i, j \in DOMAIN control : Renews(control[i]) /\ Renews(control[j]) => i = j

Chained ==
  /\ \A i \in DOMAIN control : control[i].kind \in {"chunk", "end", "have"} =>
       engine.replica = conn \/ \E j \in 1..(i - 1) : Renews(control[j])
  /\ gate # <<>> => engine.replica = conn

\* What the numbers of the client stand for.
Books ==
  /\ seqs.applied <= Len(log) /\ seqs.seen <= Len(log)
  /\ \A n \in seqs.confirmed : n \in DOMAIN log /\ (Foreign(n) => log[n] \in engine.nodes)
  /\ \A p \in seqs.livePending : p.seq \in DOMAIN log /\ p.op = log[p.seq]
                                 /\ (Foreign(p.seq) => p.op \in Held)
  /\ \A p \in seqs.catchupPending : p.seq \in 1..seqs.seen /\ p.op = log[p.seq]
  /\ \A i \in 1..seqs.seen : Foreign(i) =>
       \/ i <= seqs.applied
       \/ log[i] \in engine.nodes
       \/ log[i] \in engine.pending /\ [seq |-> i, op |-> log[i]] \in seqs.catchupPending

\* A claimed entry of another client is integrated if its parent is.
Claim(j) ==
  Foreign(j) /\ (log[j].parent = Root \/ \E k \in 1..(j - 1) : log[k].id = log[j].parent /\ log[k] \in engine.nodes)
    => log[j] \in engine.nodes

Claims == \A j \in 1..seqs.applied : Claim(j)

\* One that was claimed since HELLO is at least buffered.
Late(j) == Foreign(j) => log[j] \in engine.nodes \/ (engine.replica = conn /\ log[j] \in engine.pending)

Recent(floor) == \A j \in (floor + 1)..seqs.applied : Late(j)

\* What HELLO reported.
Heard(floor) ==
  /\ floor <= seqs.applied
  /\ open /\ session[conn].stage = "open" => up[conn][1].seq = floor
  /\ open /\ session[conn].stage = "catchup" => session[conn].from = floor

\* The chunks of a catch-up leave out nothing.
Brings(f, s) == f.kind = "chunk" /\ \E entry \in f.entries : entry.seq = s

UpTo(f) == IF f.kind = "chunk" THEN f.through ELSE f.to

GateCovers(floor) ==
  \A i \in DOMAIN gate : gate[i].kind \in {"chunk", "end"} =>
    \A s \in (floor + 1)..UpTo(gate[i]) : s <= seqs.seen \/ \E j \in 1..i : Brings(gate[j], s)

ControlCovers(floor) ==
  \A i \in DOMAIN control : control[i].kind \in {"chunk", "end"} =>
    \A s \in (floor + 1)..UpTo(control[i]) :
      \/ engine.replica = conn /\ s <= seqs.seen
      \/ \E f \in ToSet(gate) : Brings(f, s)
      \/ \E j \in 1..i : Brings(control[j], s)

Sounds(floor) == \A f \in ToSet(ops) \cup ToSet(control) \cup ToSet(gate) : Sound(f, floor)

Floor(floor) == Sounds(floor) /\ Heard(floor) /\ GateCovers(floor) /\ ControlCovers(floor) /\ Recent(floor)

\* The greatest set of operations of P whose parents are in N or among them.
Greatest(R, N, P) ==
  /\ R \subseteq P
  /\ \A o \in R : o.parent \in IdsOf(N \cup R) \cup {Root}
  /\ \A S \in SUBSET P : (\A o \in S : o.parent \in IdsOf(N \cup S) \cup {Root}) => S \subseteq R

\* It is what is integrated of P after N.
LEMMA ResolvedIs ==
  ASSUME NEW N, NEW P
  PROVE  Greatest(Resolved(N, P), N, P)
<1>1. Resolved(N, P) \subseteq P
  BY DEF Resolved
<1>2. \A S \in SUBSET P : (\A o \in S : o.parent \in IdsOf(N \cup S) \cup {Root}) => S \subseteq Resolved(N, P)
  BY DEF Resolved
<1>3. ASSUME NEW o \in Resolved(N, P) PROVE o.parent \in IdsOf(N \cup Resolved(N, P)) \cup {Root}
  <2>1. PICK S \in SUBSET P : o \in S /\ \A p \in S : p.parent \in IdsOf(N \cup S) \cup {Root}
    BY <1>3 DEF Resolved
  <2>2. S \subseteq Resolved(N, P)
    BY <1>2, <2>1
  <2>3. IdsOf(N \cup S) \subseteq IdsOf(N \cup Resolved(N, P))
    BY <2>2 DEF IdsOf
  <2> QED
    BY <2>1, <2>3
<1> QED
  BY <1>1, <1>2, <1>3 DEF Greatest

\* What waits hangs under nothing that is there.
LEMMA DryWaits ==
  ASSUME NEW N, NEW P, Resolved(N, P) = {}
  PROVE  \A o \in P : o.parent \notin IdsOf(N) \cup {Root}
<1> SUFFICES ASSUME NEW o \in P, o.parent \in IdsOf(N) \cup {Root} PROVE FALSE
  OBVIOUS
<1>1. \A p \in {o} : p.parent \in IdsOf(N \cup {o}) \cup {Root}
  BY DEF IdsOf
<1>2. {o} \in SUBSET P
  OBVIOUS
<1> QED
  BY <1>1, <1>2, ResolvedIs DEF Greatest

\* applyRemote() leaves nothing it could integrate.
LEMMA ApplyDry ==
  ASSUME NEW e \in Engine, NEW new \in SUBSET Operations, NEW a, a = ApplyAll(e, new)
  PROVE  /\ a.nodes \cap a.pending = {} /\ Resolved(a.nodes, a.pending) = {}
         /\ \A o \in a.nodes \ e.nodes : o \in e.pending \cup new /\ o.parent \in IdsOf(a.nodes) \cup {Root}
<1>1. PICK R : R = Resolved(e.nodes, e.pending \cup new)
  OBVIOUS
<1>2. a.nodes = e.nodes \cup R /\ a.pending = (e.pending \cup new) \ (e.nodes \cup R)
  BY <1>1 DEF ApplyAll, Engine
<1>3. /\ R \subseteq e.pending \cup new
      /\ \A o \in R : o.parent \in IdsOf(e.nodes \cup R) \cup {Root}
      /\ \A S \in SUBSET (e.pending \cup new) :
           (\A o \in S : o.parent \in IdsOf(e.nodes \cup S) \cup {Root}) => S \subseteq R
  <2>1. Greatest(R, e.nodes, e.pending \cup new)
    BY <1>1, ResolvedIs
  <2> QED
    BY <2>1 DEF Greatest
<1>4. Resolved(a.nodes, a.pending) = {}
  <2>1. PICK T : T = Resolved(a.nodes, a.pending)
    OBVIOUS
  <2>2. T \subseteq a.pending /\ \A o \in T : o.parent \in IdsOf(a.nodes \cup T) \cup {Root}
    <3>1. Greatest(T, a.nodes, a.pending)
      BY <2>1, ResolvedIs
    <3> QED
      BY <3>1 DEF Greatest
  <2>3. R \cup T \in SUBSET (e.pending \cup new)
    BY <1>2, <1>3, <2>2
  <2>4. e.nodes \cup (R \cup T) = a.nodes \cup T
    BY <1>2
  <2>5. IdsOf(e.nodes \cup R) \subseteq IdsOf(a.nodes \cup T)
    BY <1>2 DEF IdsOf
  <2>6. \A o \in R \cup T : o.parent \in IdsOf(e.nodes \cup (R \cup T)) \cup {Root}
    BY <1>3, <2>2, <2>4, <2>5
  <2>7. R \cup T \subseteq R
    BY <1>3, <2>3, <2>6
  <2> QED
    BY <1>2, <2>1, <2>2, <2>7
<1>5. a.nodes \cap a.pending = {}
  BY <1>2
<1> QED
  BY <1>2, <1>3, <1>4, <1>5


\* What arrives from the log above the number that HELLO reported lets through
\* nothing of the log up to it.
LEMMA NothingEarly ==
  ASSUME Types, LoggedOnce, LogCausal, OneCopy, Dry, NEW floor \in Nat, NEW new \in SUBSET Operations,
         \A o \in new : \E m \in DOMAIN log : m > floor /\ o = log[m],
         NEW a, a = ApplyAll(engine, new)
  PROVE  \A k \in DOMAIN log : k <= floor /\ log[k] \in a.nodes => log[k] \in engine.nodes
<1>1. engine \in Engine /\ log \in Seq(Operations) /\ DOMAIN log = 1..Len(log) /\ Len(log) \in Nat
  BY TypeParts
<1> DEFINE Early == {log[k] : k \in {i \in DOMAIN log : i <= floor}}
           X == Early \cap (a.nodes \ engine.nodes)
<1>2. \A k \in DOMAIN log : k <= floor => log[k] \in Early
  OBVIOUS
<1>3. \A x \in Early : \E k \in DOMAIN log : k <= floor /\ x = log[k]
  OBVIOUS
<1>4. X \subseteq Early /\ X \subseteq a.nodes \ engine.nodes
      /\ \A x \in Early : x \in a.nodes => x \in engine.nodes \/ x \in X
  OBVIOUS
<1> HIDE DEF Early, X
<1>5. \A o \in a.nodes \ engine.nodes : o \in engine.pending \cup new /\ o.parent \in IdsOf(a.nodes) \cup {Root}
  BY <1>1, ApplyDry
<1>6. \A x \in X : x \in engine.pending
  <2> SUFFICES ASSUME NEW x \in X, x \in new PROVE FALSE
    BY <1>4, <1>5
  <2>1. PICK k \in DOMAIN log : k <= floor /\ x = log[k]
    BY <1>3, <1>4
  <2>2. PICK m \in DOMAIN log : m > floor /\ x = log[m]
    OBVIOUS
  <2>3. k # m
    BY <1>1, <2>1, <2>2
  <2> QED
    BY <2>1, <2>2, <2>3 DEF LoggedOnce
<1>7. ASSUME NEW x \in X PROVE x.parent \in IdsOf(engine.nodes \cup X) \cup {Root}
  <2>1. PICK k \in DOMAIN log : k <= floor /\ x = log[k]
    BY <1>3, <1>4
  <2>2. CASE x.parent = Root
    BY <2>2
  <2>3. CASE x.parent # Root
    <3>1. PICK i \in 1..(k - 1) : log[i].id = x.parent
      BY <2>1, <2>3 DEF LogCausal
    <3>2. i \in DOMAIN log /\ i <= floor
      BY <1>1, <2>1, <3>1
    <3>3. PICK y \in a.nodes : y.id = x.parent
      BY <1>4, <1>5, <2>3 DEF IdsOf
    <3>4. y \in Somewhere
      <4>1. new \subseteq ToSet(log)
        BY DEF ToSet
      <4>2. y \in engine.nodes \cup engine.pending \cup new
        BY <1>5, <3>3
      <4> QED
        BY <4>1, <4>2 DEF Somewhere, Held
    <3>5. log[i] \in Somewhere
      BY <3>2 DEF Somewhere, ToSet
    <3>6. y = log[i]
      BY <3>1, <3>3, <3>4, <3>5 DEF OneCopy
    <3>7. y \in engine.nodes \cup X
      BY <1>2, <1>4, <3>2, <3>3, <3>6
    <3> QED
      BY <3>3, <3>7 DEF IdsOf
  <2> QED
    BY <2>2, <2>3
<1>8. X \subseteq Resolved(engine.nodes, engine.pending)
  <2>1. Greatest(Resolved(engine.nodes, engine.pending), engine.nodes, engine.pending)
    BY ResolvedIs
  <2>2. X \in SUBSET engine.pending
    BY <1>6
  <2> QED
    BY <1>7, <2>1, <2>2 DEF Greatest
<1>9. X = {}
  BY <1>8 DEF Dry
<1> QED
  BY <1>2, <1>4, <1>9

\* Such an arrival keeps what is claimed.
LEMMA ArrivalClaims ==
  ASSUME Types, LoggedOnce, LogCausal, OneCopy, Dry, Claims, NEW floor \in Nat, Recent(floor),
         seqs.applied <= Len(log), NEW new \in SUBSET Operations,
         \A o \in new : \E m \in DOMAIN log : m > floor /\ o = log[m],
         engine' = ApplyAll(engine, new), UNCHANGED <<log, conn>>
  PROVE  /\ Dry' /\ engine.nodes \subseteq engine'.nodes /\ Held' = Held \cup new
         /\ engine'.replica = engine.replica
         /\ \A j \in 1..seqs.applied : Claim(j)'
         /\ \A j \in (floor + 1)..seqs.applied : Late(j)'
<1>1. engine \in Engine /\ seqs.applied \in Nat /\ DOMAIN log = 1..Len(log) /\ Len(log) \in Nat
  BY TypeParts DEF Seqs
<1>2. /\ engine.nodes \subseteq engine'.nodes /\ Held' = Held \cup new
      /\ engine'.replica = engine.replica
  BY <1>1, ApplyAllIs DEF Held, Engine
<1>3. Dry'
  BY <1>1, ApplyDry DEF Dry
<1>4. ASSUME NEW j \in (floor + 1)..seqs.applied PROVE Late(j)'
  <2>1. Late(j)
    BY DEF Recent
  <2> QED
    BY <1>2, <2>1 DEF Late, Foreign, Held
<1>5. ASSUME NEW j \in 1..seqs.applied PROVE Claim(j)'
  <2> SUFFICES ASSUME Foreign(j),
                      log[j].parent = Root \/ \E k \in 1..(j - 1) : log[k].id = log[j].parent /\ log[k] \in engine'.nodes
               PROVE  log[j] \in engine'.nodes
    BY DEF Claim, Foreign
  <2>1. Claim(j)
    BY DEF Claims
  <2>2. CASE log[j].parent = Root
    BY <1>2, <2>1, <2>2 DEF Claim
  <2>3. CASE log[j].parent # Root
    <3>1. PICK k \in 1..(j - 1) : log[k].id = log[j].parent /\ log[k] \in engine'.nodes
      BY <2>3
    <3>2. k \in DOMAIN log
      BY <1>1, <3>1
    <3>3. CASE j <= floor
      <4>1. k <= floor
        BY <1>1, <3>1, <3>3
      <4>2. log[k] \in engine.nodes
        BY <3>1, <3>2, <4>1, NothingEarly
      <4> QED
        BY <1>2, <2>1, <3>1, <4>2 DEF Claim
    <3>4. CASE j > floor
      <4>1. log[j] \in engine'.nodes \cup engine'.pending
        BY <1>1, <1>4, <3>4 DEF Late, Foreign
      <4>2. log[j] \notin engine'.pending
        <5>1. PICK N, P : N = engine'.nodes /\ P = engine'.pending /\ Resolved(N, P) = {}
          BY <1>3 DEF Dry
        <5>2. log[j].parent \in IdsOf(N)
          BY <3>1, <5>1 DEF IdsOf
        <5> QED
          BY <5>1, <5>2, DryWaits
      <4> QED
        BY <4>1, <4>2
    <3> QED
      BY <1>1, <3>3, <3>4
  <2> QED
    BY <2>2, <2>3
<1> QED
  BY <1>2, <1>3, <1>4, <1>5

\* The property follows: the first entry that is not integrated has a parent that is.
LEMMA ClaimsHonest ==
  ASSUME Types, LoggedOnce, LogCausal, Claims
  PROVE  ForeignCeilingHonest
<1>1. log \in Seq(Operations) /\ DOMAIN log = 1..Len(log) /\ Len(log) \in Nat /\ seqs.applied \in Nat
  BY TypeParts DEF Seqs
<1> DEFINE missing == {o \in ToSet(log) : o.id[1] \in Edits /\ o \notin engine.nodes}
           rooted == Resolved({}, ToSet(log) \ missing)
           T == {i \in 1..seqs.applied : i \in DOMAIN log /\ log[i] \in rooted /\ log[i] \notin engine.nodes}
<1>2. rooted \subseteq ToSet(log) \ missing /\ \A o \in rooted : o.parent \in IdsOf(rooted) \cup {Root}
  <2>1. Greatest(rooted, {}, ToSet(log) \ missing)
    BY ResolvedIs
  <2>2. {} \cup rooted = rooted
    OBVIOUS
  <2> HIDE DEF rooted
  <2> QED
    BY <2>1, <2>2 DEF Greatest
<1> HIDE DEF rooted
<1>3. T = {}
  <2> SUFFICES ASSUME T # {} PROVE FALSE
    OBVIOUS
  <2>1. T \in SUBSET Nat
    BY <1>1
  <2>2. PICK j \in T : \A y \in T : j <= y
    BY <2>1, LeastNatural
  <2>3. j \in 1..seqs.applied /\ j \in DOMAIN log /\ log[j] \in rooted /\ log[j] \notin engine.nodes
    BY <2>2
  <2>4. log[j] \in Operations
    BY <1>1, <2>3
  <2>5. Foreign(j)
    <3>1. log[j].id[1] \notin Edits
      BY <1>2, <2>3
    <3>2. log[j].id \in Ids
      BY <2>4, OperationFields
    <3> QED
      BY <3>1, <3>2, IdFields DEF Foreign
  <2>6. Claim(j)
    BY <2>3 DEF Claims
  <2>7. log[j].parent # Root
    BY <2>3, <2>5, <2>6 DEF Claim
  <2>8. PICK k \in 1..(j - 1) : log[k].id = log[j].parent
    BY <2>3, <2>7 DEF LogCausal
  <2>9. k \in DOMAIN log /\ k \in 1..seqs.applied /\ k < j
    BY <1>1, <2>3, <2>8
  <2>10. log[k] \notin engine.nodes
    BY <2>3, <2>5, <2>6, <2>8 DEF Claim
  <2>11. log[k] \notin rooted
    BY <1>1, <2>1, <2>2, <2>3, <2>9, <2>10
  <2>12. PICK y \in rooted : y.id = log[k].id
    BY <1>2, <2>3, <2>7, <2>8 DEF IdsOf
  <2>13. PICK m \in DOMAIN log : y = log[m]
    BY <1>2 DEF ToSet
  <2> QED
    BY <2>9, <2>11, <2>12, <2>13 DEF LoggedOnce
<1>4. ASSUME NEW i \in 1..Min({seqs.applied, Len(log)}) PROVE i \in 1..seqs.applied /\ i \in DOMAIN log
  <2>1. {seqs.applied, Len(log)} \in SUBSET Nat /\ {seqs.applied, Len(log)} # {}
    BY <1>1
  <2>2. PICK m : m = Min({seqs.applied, Len(log)}) /\ m \in Nat /\ m <= seqs.applied /\ m <= Len(log)
    BY <1>1, <2>1, MinIs
  <2> QED
    BY <1>1, <2>2
<1> QED
  BY <1>3, <1>4 DEF ForeignCeilingHonest, rooted
\* The log keeps its entries, and the engine what it has of the others.
Extended ==
  Len(log) <= Len(log') /\ \A i \in DOMAIN log : i \in DOMAIN log' /\ log'[i] = log[i]

Steady ==
  \A i \in DOMAIN log : Foreign(i) =>
    /\ log[i] \in engine.nodes => log[i] \in engine'.nodes
    /\ log[i] \in Held => log[i] \in Held'

\* Entries keep their numbers and their author.
LEMMA EntriesStay ==
  ASSUME Types, Types', Extended
  PROVE  /\ DOMAIN log = 1..Len(log) /\ Len(log) \in Nat /\ DOMAIN log' = 1..Len(log') /\ Len(log') \in Nat
         /\ \A i \in 1..Len(log) : i \in DOMAIN log /\ i \in DOMAIN log' /\ log'[i] = log[i]
                                   /\ (Foreign(i)' <=> Foreign(i))
<1>1. log \in Seq(Operations) /\ log' \in Seq(Operations)
  BY TypeParts, TypePartsNext
<1>2. DOMAIN log = 1..Len(log) /\ Len(log) \in Nat /\ DOMAIN log' = 1..Len(log') /\ Len(log') \in Nat
  BY <1>1
<1> QED
  BY <1>2 DEF Extended, Foreign

\* The books stay true while the record stays.
LEMMA BooksKept ==
  ASSUME Types, Types', Books, Extended, Steady, seqs' = seqs
  PROVE  Books'
<1>1. /\ DOMAIN log = 1..Len(log) /\ Len(log) \in Nat /\ DOMAIN log' = 1..Len(log') /\ Len(log') \in Nat
      /\ \A i \in 1..Len(log) : i \in DOMAIN log /\ i \in DOMAIN log' /\ log'[i] = log[i]
                                /\ (Foreign(i)' <=> Foreign(i))
  BY EntriesStay
<1>2. seqs.applied \in Nat /\ seqs.seen \in Nat /\ Len(log) <= Len(log')
  BY TypeParts DEF Seqs, Extended
<1>3. seqs'.applied <= Len(log') /\ seqs'.seen <= Len(log')
  BY <1>1, <1>2 DEF Books
<1>4. \A n \in seqs.confirmed : n \in DOMAIN log' /\ (Foreign(n)' => log'[n] \in engine'.nodes)
  BY <1>1 DEF Books, Steady
<1>5. \A p \in seqs.livePending : p.seq \in DOMAIN log' /\ p.op = log'[p.seq]
                                  /\ (Foreign(p.seq)' => p.op \in Held')
  BY <1>1 DEF Books, Steady
<1>6. \A p \in seqs.catchupPending : p.seq \in 1..seqs.seen /\ p.op = log'[p.seq]
  <2> SUFFICES ASSUME NEW p \in seqs.catchupPending PROVE p.seq \in 1..seqs.seen /\ p.op = log'[p.seq]
    OBVIOUS
  <2>1. p.seq \in 1..seqs.seen /\ p.op = log[p.seq] /\ seqs.seen <= Len(log)
    BY DEF Books
  <2>2. p.seq \in 1..Len(log)
    BY <1>1, <1>2, <2>1
  <2> QED
    BY <1>1, <2>1, <2>2
<1>7. ASSUME NEW i \in 1..seqs.seen, Foreign(i)'
      PROVE  \/ i <= seqs.applied
             \/ log'[i] \in engine'.nodes
             \/ log'[i] \in engine'.pending /\ [seq |-> i, op |-> log'[i]] \in seqs.catchupPending
  <2>1. i \in 1..Len(log)
    BY <1>1, <1>2 DEF Books
  <2>2. Foreign(i) /\ log'[i] = log[i]
    BY <1>1, <1>7, <2>1
  <2>3. \/ i <= seqs.applied
        \/ log[i] \in engine.nodes
        \/ log[i] \in engine.pending /\ [seq |-> i, op |-> log[i]] \in seqs.catchupPending
    BY <2>2 DEF Books
  <2>4. log[i] \in engine.nodes => log[i] \in engine'.nodes
    BY <1>1, <2>1, <2>2 DEF Steady
  <2>5. log[i] \in engine.pending => log[i] \in engine'.nodes \cup engine'.pending
    BY <1>1, <2>1, <2>2 DEF Steady, Held
  <2> QED
    BY <2>2, <2>3, <2>4, <2>5
<1> QED
  BY <1>3, <1>4, <1>5, <1>6, <1>7 DEF Books

\* What is claimed stays so when more is claimed, if it is integrated.
LEMMA ClaimsRise ==
  ASSUME NEW floor \in Nat, seqs.applied \in Nat, seqs'.applied \in Nat, seqs.applied <= seqs'.applied,
         \A j \in 1..seqs.applied : Claim(j)',
         \A j \in (floor + 1)..seqs.applied : Late(j)',
         \A j \in (seqs.applied + 1)..seqs'.applied : Foreign(j)' => log'[j] \in engine'.nodes
  PROVE  Claims' /\ Recent(floor)'
<1>1. \A j \in 1..seqs'.applied : j \in 1..seqs.applied \/ j \in (seqs.applied + 1)..seqs'.applied
  OBVIOUS
<1>2. \A j \in (floor + 1)..seqs'.applied :
        j \in (floor + 1)..seqs.applied \/ j \in (seqs.applied + 1)..seqs'.applied
  OBVIOUS
<1>3. \A j \in 1..seqs'.applied : Claim(j)'
  BY <1>1 DEF Claim
<1>4. \A j \in (floor + 1)..seqs'.applied : Late(j)'
  BY <1>2 DEF Late
<1> QED
  BY <1>3, <1>4 DEF Claims, Recent

\* A record of confirmed and buffered entries lets the live ceiling rise.
LEMMA LiveCeiling ==
  ASSUME Types, Types', Books, Steady, Dry', log' = log, NEW q \in Seqs,
         IsFiniteSet(q.confirmed), IsFiniteSet(q.livePending),
         q.applied = seqs.applied, q.seen = seqs.seen, q.catchupPending = seqs.catchupPending,
         \A n \in q.confirmed : n \in DOMAIN log /\ (Foreign(n) => log[n] \in engine'.nodes),
         \A p \in q.livePending : p.seq \in DOMAIN log /\ p.op = log[p.seq]
                                  /\ (Foreign(p.seq) => p.op \in Held'),
         seqs' = AdvanceLiveSeqCeiling(q, engine'),
         NEW floor \in Nat, \A j \in 1..seqs.applied : Claim(j)',
         \A j \in (floor + 1)..seqs.applied : Late(j)'
  PROVE  Books' /\ Claims' /\ Recent(floor)' /\ seqs.applied <= seqs'.applied /\ seqs'.seen = seqs.seen
<1>1. /\ seqs' \in Seqs /\ seqs'.seen = seqs.seen /\ seqs'.catchupPending = seqs.catchupPending
      /\ seqs'.livePending = {p \in q.livePending : p.op \in engine'.pending}
      /\ seqs'.confirmed \subseteq Settled(q, engine')
      /\ seqs.applied <= seqs'.applied
      /\ (seqs.applied + 1)..seqs'.applied \subseteq Settled(q, engine')
  <2>1. PICK e, r : e = engine' /\ r = seqs' /\ r = AdvanceLiveSeqCeiling(q, e)
    OBVIOUS
  <2>2. /\ r \in Seqs /\ r.seen = q.seen /\ r.catchupPending = q.catchupPending
        /\ r.livePending = Buffered(q.livePending, e)
        /\ r.confirmed \subseteq Settled(q, e)
        /\ q.applied <= r.applied /\ (q.applied + 1)..r.applied \subseteq Settled(q, e)
    BY <2>1, AdvanceIs
  <2> QED
    BY <2>1, <2>2 DEF Buffered
<1>2. seqs.applied \in Nat /\ seqs.seen \in Nat /\ seqs'.applied \in Nat
      /\ DOMAIN log = 1..Len(log) /\ Len(log) \in Nat
  BY <1>1, TypeParts DEF Seqs
<1>3. \A n \in Settled(q, engine') : n \in DOMAIN log /\ (Foreign(n) => log[n] \in engine'.nodes)
  <2> SUFFICES ASSUME NEW p \in q.livePending, p.op \notin engine'.pending
               PROVE  p.seq \in DOMAIN log /\ (Foreign(p.seq) => log[p.seq] \in engine'.nodes)
    BY DEF Settled
  <2> QED
    BY DEF Held
<1>4. seqs'.applied <= Len(log)
  <2>1. CASE seqs'.applied = seqs.applied
    BY <2>1 DEF Books
  <2>2. CASE seqs'.applied # seqs.applied
    <3>1. seqs'.applied \in (seqs.applied + 1)..seqs'.applied
      BY <1>1, <1>2, <2>2
    <3> QED
      BY <1>1, <1>2, <1>3, <3>1
  <2> QED
    BY <2>1, <2>2
<1>5. \A j \in (seqs.applied + 1)..seqs'.applied : Foreign(j)' => log'[j] \in engine'.nodes
  BY <1>1, <1>3 DEF Foreign
<1>6. Claims' /\ Recent(floor)'
  BY <1>1, <1>2, <1>5, ClaimsRise
<1>7. ASSUME NEW i \in 1..seqs.seen, Foreign(i)
      PROVE  \/ i <= seqs'.applied
             \/ log[i] \in engine'.nodes
             \/ log[i] \in engine'.pending /\ [seq |-> i, op |-> log[i]] \in seqs.catchupPending
  <2>1. \/ i <= seqs.applied
        \/ log[i] \in engine.nodes
        \/ log[i] \in engine.pending /\ [seq |-> i, op |-> log[i]] \in seqs.catchupPending
    BY <1>7 DEF Books
  <2>2. i \in DOMAIN log
    BY <1>2 DEF Books
  <2>3. /\ log[i] \in engine.nodes => log[i] \in engine'.nodes
        /\ log[i] \in engine.pending => log[i] \in engine'.nodes \cup engine'.pending
    BY <1>7, <2>2 DEF Steady, Held
  <2>4. i <= seqs.applied => i <= seqs'.applied
    BY <1>1, <1>2
  <2> QED
    BY <2>1, <2>3, <2>4
<1>8. Books'
  <2>1. seqs'.applied <= Len(log') /\ seqs'.seen <= Len(log')
    BY <1>1, <1>4 DEF Books
  <2>2. \A n \in seqs'.confirmed : n \in DOMAIN log' /\ (Foreign(n)' => log'[n] \in engine'.nodes)
    BY <1>1, <1>3 DEF Foreign
  <2>3. \A p \in seqs'.livePending : p.seq \in DOMAIN log' /\ p.op = log'[p.seq]
                                     /\ (Foreign(p.seq)' => p.op \in Held')
    BY <1>1 DEF Foreign
  <2>4. \A p \in seqs'.catchupPending : p.seq \in 1..seqs'.seen /\ p.op = log'[p.seq]
    BY <1>1 DEF Books
  <2>5. \A i \in 1..seqs'.seen : Foreign(i)' =>
          \/ i <= seqs'.applied
          \/ log'[i] \in engine'.nodes
          \/ log'[i] \in engine'.pending /\ [seq |-> i, op |-> log'[i]] \in seqs'.catchupPending
    BY <1>1, <1>7 DEF Foreign
  <2> QED
    BY <2>1, <2>2, <2>3, <2>4, <2>5 DEF Books
<1> QED
  BY <1>1, <1>6, <1>8

\* So does a record of what a catch-up brought for the ceiling of catch-ups.
LEMMA CatchupCeiling ==
  ASSUME Types, Types', Books, Steady, Dry', log' = log, NEW q \in Seqs,
         q.applied = seqs.applied, q.confirmed = seqs.confirmed, q.livePending = seqs.livePending,
         q.seen <= Len(log),
         \A p \in q.catchupPending : p.seq \in 1..q.seen /\ p.op = log[p.seq],
         \A i \in 1..q.seen : Foreign(i) =>
           \/ i <= seqs.applied
           \/ log[i] \in engine'.nodes
           \/ log[i] \in engine'.pending /\ [seq |-> i, op |-> log[i]] \in q.catchupPending,
         seqs' = RecomputeCatchupSeqCeiling(q, engine'),
         NEW floor \in Nat, \A j \in 1..seqs.applied : Claim(j)',
         \A j \in (floor + 1)..seqs.applied : Late(j)'
  PROVE  Books' /\ Claims' /\ Recent(floor)' /\ seqs.applied <= seqs'.applied /\ seqs'.seen = q.seen
<1>1. /\ seqs' \in Seqs
      /\ seqs'.confirmed = seqs.confirmed /\ seqs'.livePending = seqs.livePending /\ seqs'.seen = q.seen
      /\ seqs'.catchupPending = {p \in q.catchupPending : p.op \in engine'.pending}
      /\ seqs.applied <= seqs'.applied
      /\ seqs'.applied = seqs.applied
         \/ IF seqs'.catchupPending = {} THEN seqs'.applied = q.seen
            ELSE \E p \in seqs'.catchupPending :
                   seqs'.applied = p.seq - 1 /\ \A o \in seqs'.catchupPending : p.seq <= o.seq
  <2>1. PICK e, r : e = engine' /\ r = seqs' /\ r = RecomputeCatchupSeqCeiling(q, e)
    OBVIOUS
  <2>2. /\ r \in Seqs
        /\ r.confirmed = q.confirmed /\ r.livePending = q.livePending /\ r.seen = q.seen
        /\ r.catchupPending = Buffered(q.catchupPending, e)
        /\ q.applied <= r.applied
        /\ r.applied = q.applied
           \/ IF r.catchupPending = {} THEN r.applied = q.seen
              ELSE \E p \in r.catchupPending :
                     r.applied = p.seq - 1 /\ \A o \in r.catchupPending : p.seq <= o.seq
    BY <2>1, RecomputeIs
  <2> QED
    BY <2>1, <2>2 DEF Buffered
<1>2. seqs.applied \in Nat /\ q.seen \in Nat /\ seqs'.applied \in Nat
      /\ DOMAIN log = 1..Len(log) /\ Len(log) \in Nat /\ seqs.applied <= Len(log)
  BY <1>1, TypeParts DEF Seqs, Books
<1>3. \A i \in 1..q.seen : Foreign(i) =>
        \/ i <= seqs.applied
        \/ log[i] \in engine'.nodes
        \/ log[i] \in engine'.pending /\ [seq |-> i, op |-> log[i]] \in seqs'.catchupPending
  <2> SUFFICES ASSUME NEW i \in 1..q.seen, log[i] \in engine'.pending,
                      [seq |-> i, op |-> log[i]] \in q.catchupPending
               PROVE  [seq |-> i, op |-> log[i]] \in seqs'.catchupPending
    OBVIOUS
  <2> QED
    BY <1>1
<1>4. \A j \in (seqs.applied + 1)..seqs'.applied : j \in 1..q.seen
  <2> SUFFICES ASSUME seqs'.applied # seqs.applied PROVE seqs'.applied <= q.seen
    BY <1>2
  <2>1. CASE seqs'.catchupPending = {}
    BY <1>1, <1>2, <2>1
  <2>2. CASE seqs'.catchupPending # {}
    <3>1. PICK p \in seqs'.catchupPending : seqs'.applied = p.seq - 1
      BY <1>1, <2>2
    <3>2. p.seq \in 1..q.seen
      BY <1>1, <3>1
    <3> QED
      BY <1>2, <3>1, <3>2
  <2> QED
    BY <2>1, <2>2
<1>5. ASSUME NEW j \in (seqs.applied + 1)..seqs'.applied, Foreign(j) PROVE log[j] \in engine'.nodes
  <2> SUFFICES ASSUME [seq |-> j, op |-> log[j]] \in seqs'.catchupPending PROVE FALSE
    BY <1>2, <1>3, <1>4, <1>5
  <2>1. seqs'.catchupPending # {} /\ seqs'.applied # seqs.applied
    BY <1>2
  <2>2. PICK p \in seqs'.catchupPending : seqs'.applied = p.seq - 1
                                         /\ \A o \in seqs'.catchupPending : p.seq <= o.seq
    BY <1>1, <2>1
  <2>3. p.seq <= j /\ p.seq \in 1..q.seen
    BY <1>1, <2>2
  <2> QED
    BY <1>2, <2>2, <2>3
<1>6. seqs'.applied <= Len(log)
  <2>1. CASE seqs'.applied = seqs.applied
    BY <1>2, <2>1
  <2>2. CASE seqs'.applied # seqs.applied
    <3>1. seqs'.applied \in (seqs.applied + 1)..seqs'.applied
      BY <1>1, <1>2, <2>2
    <3> QED
      BY <1>2, <1>4, <3>1
  <2> QED
    BY <2>1, <2>2
<1>7. Claims' /\ Recent(floor)'
  <2>1. \A j \in (seqs.applied + 1)..seqs'.applied : Foreign(j)' => log'[j] \in engine'.nodes
    BY <1>5 DEF Foreign
  <2> QED
    BY <1>1, <1>2, <2>1, ClaimsRise
<1>8. Books'
  <2>1. seqs'.applied <= Len(log') /\ seqs'.seen <= Len(log')
    BY <1>1, <1>6
  <2>2. \A n \in seqs'.confirmed : n \in DOMAIN log' /\ (Foreign(n)' => log'[n] \in engine'.nodes)
    BY <1>1 DEF Foreign, Books, Steady
  <2>3. \A p \in seqs'.livePending : p.seq \in DOMAIN log' /\ p.op = log'[p.seq]
                                     /\ (Foreign(p.seq)' => p.op \in Held')
    BY <1>1 DEF Foreign, Books, Steady
  <2>4. \A p \in seqs'.catchupPending : p.seq \in 1..seqs'.seen /\ p.op = log'[p.seq]
    BY <1>1
  <2>5. ASSUME NEW i \in 1..q.seen, Foreign(i)
        PROVE  \/ i <= seqs'.applied
               \/ log[i] \in engine'.nodes
               \/ log[i] \in engine'.pending /\ [seq |-> i, op |-> log[i]] \in seqs'.catchupPending
    BY <1>1, <1>2, <1>3, <2>5
  <2>6. \A i \in 1..seqs'.seen : Foreign(i)' =>
          \/ i <= seqs'.applied
          \/ log'[i] \in engine'.nodes
          \/ log'[i] \in engine'.pending /\ [seq |-> i, op |-> log'[i]] \in seqs'.catchupPending
    BY <1>1, <2>5 DEF Foreign
  <2> QED
    BY <2>1, <2>2, <2>3, <2>4, <2>6 DEF Books
<1> QED
  BY <1>1, <1>7, <1>8

-----------------------------------------------------------------------------
(* What the client claims, step by step *)

\* What stands for as long as one number was the last that HELLO reported.
Standing(floor) ==
  /\ LogCausal /\ OneCopy /\ Dry /\ Elders /\ RenewedOnce /\ Chained /\ Books /\ Claims
  /\ Floor(floor)

\* Some number was.
Claiming == \E floor \in Nat : Standing(floor)

\* An operation that is somewhere is met.
LEMMA SomewhereMet ==
  ASSUME Types, NEW o \in Somewhere
  PROVE  Met(o.id) /\ o \in Operations
<1>1. log \in Seq(Operations) /\ parked \in SUBSET Operations /\ unacked \in Seq(Operations)
      /\ engine \in Engine /\ up \in [Connections -> Seq(ClientFrames)]
  BY TypeParts
<1>2. CASE o \in ToSet(log) \cup parked \cup ToSet(unacked) \cup Held
  <2>1. o \in Operations
    <3>1. ToSet(log) \subseteq Operations /\ ToSet(unacked) \subseteq Operations
      BY <1>1, Queues
    <3> QED
      BY <1>1, <1>2, <3>1 DEF Held, Engine
  <2> QED
    BY <1>2, <2>1 DEF Met, IdsOf, Held
<1>3. ASSUME NEW n \in Connections, o \in SentBy(n) PROVE Met(o.id) /\ o \in Operations
  <2>1. PICK i \in DOMAIN up[n] : up[n][i].kind = "op" /\ o = up[n][i].op
    BY <1>3 DEF SentBy, OpsIn
  <2>2. up[n][i] \in ClientFrames
    BY <1>1, <2>1
  <2>3. i \in OpsAt(n)
    BY <2>1 DEF OpsAt
  <2> QED
    BY <2>1, <2>2, <2>3, ClientFrameFields DEF Met
<1> QED
  BY <1>2, <1>3 DEF Somewhere

\* Operations that go nowhere new differ as they did.
LEMMA OneCopyKept ==
  ASSUME OneCopy, Somewhere' \subseteq Somewhere
  PROVE  OneCopy'
BY DEF OneCopy

\* So do operations whose identifiers are met nowhere.
LEMMA OneCopyFresh ==
  ASSUME Types, OneCopy, NEW new, Somewhere' \subseteq Somewhere \cup new,
         \A o \in new : ~Met(o.id),
         \A o, p \in new : o.id = p.id => o = p
  PROVE  OneCopy'
<1> SUFFICES ASSUME NEW o \in Somewhere', NEW p \in Somewhere', o.id = p.id PROVE o = p
  BY DEF OneCopy
<1>1. \A q \in Somewhere : Met(q.id)
  BY SomewhereMet
<1>2. (o \in Somewhere \/ o \in new) /\ (p \in Somewhere \/ p \in new)
  OBVIOUS
<1> QED
  BY <1>1, <1>2 DEF OneCopy

\* What is under way once frames are taken.
LEMMA SentFewer ==
  ASSUME Types, NEW n \in Connections,
         \/ up' = up
         \/ up[n] # <<>> /\ up' = [up EXCEPT ![n] = Tail(up[n])]
         \/ up' = [up EXCEPT ![n] = <<>>]
  PROVE  \A m \in Connections : SentBy(m)' \subseteq SentBy(m)
<1> SUFFICES ASSUME NEW m \in Connections PROVE OpsIn(up'[m]) \subseteq OpsIn(up[m])
  BY DEF SentBy
<1>1. up \in [Connections -> Seq(ClientFrames)] /\ up[m] \in Seq(ClientFrames)
  BY TypeParts
<1>2. up'[m] = up[m] \/ up'[m] = <<>> \/ (up[m] # <<>> /\ up'[m] = Tail(up[m]))
  <2>1. ASSUME NEW queue, up' = [up EXCEPT ![n] = queue] PROVE up'[m] = IF m = n THEN queue ELSE up[m]
    BY <1>1, <2>1
  <2>2. CASE up' = up
    BY <2>2
  <2>3. CASE up[n] # <<>> /\ up' = [up EXCEPT ![n] = Tail(up[n])]
    <3>1. PICK queue : queue = Tail(up[n]) /\ up' = [up EXCEPT ![n] = queue]
      BY <2>3
    <3> QED
      BY <2>1, <2>3, <3>1
  <2>4. CASE up' = [up EXCEPT ![n] = <<>>]
    <3>1. PICK queue : queue = <<>> /\ up' = [up EXCEPT ![n] = queue]
      BY <2>4
    <3> QED
      BY <2>1, <3>1
  <2> QED
    BY <2>2, <2>3, <2>4
<1> QED
  BY <1>1, <1>2, OpsInIs

\* What the numbers of a frame say stays true of a longer log.
LEMMA SoundKept ==
  ASSUME Types, Types', Extended, NEW floor \in Nat, NEW f \in Frames, Sound(f, floor)
  PROVE  Sound(f, floor)'
<1>1. /\ DOMAIN log = 1..Len(log) /\ Len(log) \in Nat /\ DOMAIN log' = 1..Len(log') /\ Len(log') \in Nat
      /\ \A i \in 1..Len(log) : i \in DOMAIN log /\ i \in DOMAIN log' /\ log'[i] = log[i]
                                /\ (Foreign(i)' <=> Foreign(i))
  BY EntriesStay
<1>2. Len(log) <= Len(log')
  BY DEF Extended
<1>3. /\ f.kind = "op" => f.seq \in DOMAIN log' /\ f.seq > floor /\ f.op = log'[f.seq]
      /\ f.kind = "ack" => f.seq \in DOMAIN log' /\ ~Foreign(f.seq)'
  BY <1>1 DEF Sound
<1>4. f.kind = "snapshot" => f.seq \in floor..Len(log') /\ f.nodes = {log'[i] : i \in 1..f.seq}
  <2> SUFFICES ASSUME f.kind = "snapshot" PROVE f.seq \in floor..Len(log') /\ f.nodes = {log'[i] : i \in 1..f.seq}
    OBVIOUS
  <2>1. f.seq \in floor..Len(log) /\ f.nodes = {log[i] : i \in 1..f.seq}
    BY DEF Sound
  <2>2. \A i \in 1..f.seq : log'[i] = log[i]
    BY <1>1, <2>1
  <2> QED
    BY <1>1, <1>2, <2>1, <2>2
<1>5. f.kind = "chunk" =>
        /\ f.through <= Len(log')
        /\ \A entry \in f.entries : entry.seq \in (floor + 1)..f.through /\ entry.op = log'[entry.seq]
  <2> SUFFICES ASSUME f.kind = "chunk"
               PROVE  /\ f.through <= Len(log')
                      /\ \A entry \in f.entries : entry.seq \in (floor + 1)..f.through /\ entry.op = log'[entry.seq]
    OBVIOUS
  <2>1. /\ f.through \in Nat /\ f.through <= Len(log)
        /\ \A entry \in f.entries : entry.seq \in (floor + 1)..f.through /\ entry.op = log[entry.seq]
    BY FrameFields DEF Sound
  <2> QED
    BY <1>1, <1>2, <2>1
<1>6. f.kind = "end" => f.to <= Len(log')
  BY <1>1, <1>2, FrameFields DEF Sound
<1> QED
  BY <1>3, <1>4, <1>5, <1>6 DEF Sound

\* What stands of a client that does nothing.
LEMMA ClientStands ==
  ASSUME Types, Types', NEW floor \in Nat, Standing(floor), Extended,
         UNCHANGED <<engine, seqs, unacked, typed, conn, gate>>
  PROVE  Dry' /\ Elders' /\ Books' /\ Claims' /\ Recent(floor)' /\ GateCovers(floor)'
<1>1. /\ DOMAIN log = 1..Len(log) /\ Len(log) \in Nat /\ DOMAIN log' = 1..Len(log') /\ Len(log') \in Nat
      /\ \A i \in 1..Len(log) : i \in DOMAIN log /\ i \in DOMAIN log' /\ log'[i] = log[i]
                                /\ (Foreign(i)' <=> Foreign(i))
  BY EntriesStay
<1>2. seqs.applied \in Nat /\ seqs.applied <= Len(log)
  BY TypeParts DEF Seqs, Standing, Books
<1>3. Dry' /\ Elders'
  BY DEF Standing, Dry, Elders, Held
<1>4. Books'
  <2>1. Steady
    BY <1>1 DEF Steady, Held
  <2> QED
    BY <2>1, BooksKept DEF Standing
<1>5. Claims'
  <2> SUFFICES ASSUME NEW j \in 1..seqs.applied, Foreign(j)',
                      log'[j].parent = Root
                      \/ \E k \in 1..(j - 1) : log'[k].id = log'[j].parent /\ log'[k] \in engine.nodes
               PROVE  log'[j] \in engine.nodes
    BY DEF Claims, Claim
  <2>1. j \in 1..Len(log) /\ \A k \in 1..(j - 1) : k \in 1..Len(log)
    BY <1>1, <1>2
  <2>2. log'[j] = log[j] /\ Foreign(j) /\ \A k \in 1..(j - 1) : log'[k] = log[k]
    BY <1>1, <2>1
  <2>3. Claim(j)
    BY DEF Standing, Claims
  <2> QED
    BY <2>2, <2>3 DEF Claim
<1>6. Recent(floor)'
  <2> SUFFICES ASSUME NEW j \in (floor + 1)..seqs.applied, Foreign(j)'
               PROVE  log'[j] \in engine.nodes \/ (engine.replica = conn /\ log'[j] \in engine.pending)
    BY DEF Recent, Late
  <2>1. j \in 1..Len(log)
    BY <1>1, <1>2
  <2>2. log'[j] = log[j] /\ Foreign(j)
    BY <1>1, <2>1
  <2>3. Late(j)
    BY DEF Standing, Floor, Recent
  <2> QED
    BY <2>2, <2>3 DEF Late
<1>7. GateCovers(floor)'
  BY DEF Standing, Floor, GateCovers, Brings, UpTo
<1> QED
  BY <1>3, <1>4, <1>5, <1>6, <1>7

\* Answers and relays make no engine and bring no chunk.
LEMMA LanesStand ==
  ASSUME Types, Types', NEW floor \in Nat, Standing(floor), Extended,
         NEW n, NEW frames \in Seq(Frames), MaySend(n, frames),
         \A f \in ToSet(frames) : f.kind \in {"op", "ack", "reject"} /\ Sound(f, floor)',
         UNCHANGED <<session, open, conn, gate, engine, seqs>>
  PROVE  RenewedOnce' /\ Chained' /\ Sounds(floor)' /\ ControlCovers(floor)'
<1>1. /\ \A f \in ToSet(ops') \cup ToSet(control') : f \in ToSet(ops) \cup ToSet(control) \cup ToSet(frames)
      /\ \A i \in DOMAIN control : i \in DOMAIN control' /\ control'[i] = control[i]
      /\ \A i \in DOMAIN control' :
           i \in DOMAIN control \/ control'[i].kind \in {"op", "ack", "reject"}
  <2>1. CASE Sends(n, frames)
    BY <2>1, SendsIs
  <2>2. CASE UNCHANGED <<ops, control>>
    BY <2>2
  <2> QED
    BY <2>1, <2>2 DEF MaySend
<1>2. control \in Seq(Frames) /\ ops \in Seq(Frames) /\ gate \in Seq(Frames) /\ control' \in Seq(Frames)
  BY TypeParts, TypePartsNext
<1>3. \A i \in DOMAIN control' : Renews(control'[i]) => i \in DOMAIN control /\ control'[i] = control[i]
  BY <1>1 DEF Renews
<1>4. RenewedOnce'
  BY <1>1, <1>3 DEF Standing, RenewedOnce
<1>5. Chained'
  <2> SUFFICES ASSUME NEW i \in DOMAIN control', control'[i].kind \in {"chunk", "end", "have"},
                      engine.replica # conn
               PROVE  \E j \in 1..(i - 1) : Renews(control'[j])
    BY DEF Standing, Chained
  <2>1. i \in DOMAIN control /\ control'[i] = control[i]
    BY <1>1
  <2>2. PICK j \in 1..(i - 1) : Renews(control[j])
    BY <2>1 DEF Standing, Chained
  <2>3. j \in DOMAIN control
    BY <1>2, <2>1
  <2> QED
    BY <1>1, <2>2, <2>3
<1>6. Sounds(floor)'
  <2> SUFFICES ASSUME NEW f \in ToSet(ops) \cup ToSet(control) \cup ToSet(gate) PROVE Sound(f, floor)'
    BY <1>1 DEF Sounds
  <2>1. f \in Frames
    BY <1>2, Queues
  <2>2. Sound(f, floor)
    BY DEF Standing, Floor, Sounds
  <2> QED
    BY <2>1, <2>2, SoundKept
<1>7. ControlCovers(floor)'
  <2> SUFFICES ASSUME NEW i \in DOMAIN control', control'[i].kind \in {"chunk", "end"},
                      NEW s \in (floor + 1)..UpTo(control'[i])
               PROVE  \/ engine.replica = conn /\ s <= seqs.seen
                      \/ \E f \in ToSet(gate) : Brings(f, s)
                      \/ \E j \in 1..i : Brings(control'[j], s)
    BY DEF ControlCovers, UpTo, Brings
  <2>1. i \in DOMAIN control /\ control'[i] = control[i]
    BY <1>1
  <2>2. \/ engine.replica = conn /\ s <= seqs.seen
        \/ \E f \in ToSet(gate) : Brings(f, s)
        \/ \E j \in 1..i : Brings(control[j], s)
    BY <2>1 DEF Standing, Floor, ControlCovers
  <2>3. \A j \in 1..i : control'[j] = control[j]
    BY <1>1, <1>2, <2>1
  <2> QED
    BY <2>2, <2>3
<1> QED
  BY <1>4, <1>5, <1>6, <1>7

\* The server relays and answers.
LEMMA ServerStands ==
  ASSUME IInv, IInv', NEW floor \in Nat, Standing(floor), Extended,
         NEW n, NEW frames \in Seq(Frames), MaySend(n, frames),
         \A f \in ToSet(frames) : f.kind \in {"op", "ack", "reject"} /\ Sound(f, floor)',
         UNCHANGED <<session, conn, open, synced, client>>,
         open /\ session[conn].stage = "open" => up'[conn] = up[conn],
         LogCausal', OneCopy'
  PROVE  Standing(floor)'
<1>1. Types /\ Types'
  BY DEF IInv
<1>2. Dry' /\ Elders' /\ Books' /\ Claims' /\ Recent(floor)' /\ GateCovers(floor)'
  BY <1>1, ClientStands DEF client
<1>3. RenewedOnce' /\ Chained' /\ Sounds(floor)' /\ ControlCovers(floor)'
  BY <1>1, LanesStand DEF client
<1>4. Heard(floor)'
  BY DEF client, Standing, Floor, Heard
<1> QED
  BY <1>2, <1>3, <1>4 DEF Standing, Floor

\* A log that gained an entry keeps the others; one that is the same keeps all.
LEMMA LogExtends ==
  ASSUME Types, log' = log \/ \E op \in Operations : Saves(op)
  PROVE  Extended
<1>1. log \in Seq(Operations) /\ Len(log) \in Nat
  BY TypeParts
<1>2. CASE log' = log
  BY <1>1, <1>2 DEF Extended
<1>3. ASSUME NEW op \in Operations, Saves(op) PROVE Extended
  <2>1. /\ DOMAIN log = 1..Len(log) /\ DOMAIN log' = 1..Len(log) + 1 /\ Len(log') = Len(log) + 1
        /\ \A i \in 1..Len(log) : log'[i] = log[i]
    BY <1>3, GrownLog DEF Saves
  <2> QED
    BY <1>1, <2>1 DEF Extended
<1> QED
  BY <1>2, <1>3

\* Of an entry that is added, the parent was there.
LEMMA CausalGrows ==
  ASSUME Types, LogCausal, NEW op \in Operations, Saves(op), op.parent \in IdsOf(ToSet(log)) \cup {Root}
  PROVE  LogCausal'
<1>1. /\ Len(log) \in Nat
      /\ DOMAIN log = 1..Len(log) /\ DOMAIN log' = 1..Len(log) + 1
      /\ \A i \in 1..Len(log) : log'[i] = log[i]
      /\ log'[Len(log) + 1] = op
  BY GrownLog DEF Saves
<1> SUFFICES ASSUME NEW i \in DOMAIN log', log'[i].parent # Root
             PROVE  \E k \in 1..(i - 1) : log'[k].id = log'[i].parent
  BY DEF LogCausal
<1>2. CASE i \in 1..Len(log)
  <2>1. PICK k \in 1..(i - 1) : log[k].id = log[i].parent
    BY <1>1, <1>2 DEF LogCausal
  <2>2. k \in 1..Len(log)
    BY <1>1, <1>2
  <2> QED
    BY <1>1, <1>2, <2>1, <2>2
<1>3. CASE i \notin 1..Len(log)
  <2>1. i = Len(log) + 1
    BY <1>1, <1>3
  <2>2. op.parent \in IdsOf(ToSet(log))
    BY <1>1, <2>1
  <2>3. PICK k \in DOMAIN log : log[k].id = op.parent
    BY <2>2 DEF IdsOf, ToSet
  <2> QED
    BY <1>1, <2>1, <2>3
<1> QED
  BY <1>2, <1>3

\* The relays of a new entry bear the number after all that HELLO reported.
LEMMA RelaysSound ==
  ASSUME Types, NEW floor \in Nat, Standing(floor), NEW op \in Operations, Saves(op),
         NEW frames, Relays(frames, op)
  PROVE  \A f \in ToSet(frames) : f.kind \in {"op", "ack", "reject"} /\ Sound(f, floor)'
<1>1. /\ Len(log) \in Nat /\ DOMAIN log' = 1..Len(log) + 1 /\ log'[Len(log) + 1] = op
  BY GrownLog DEF Saves
<1>2. floor <= Len(log)
  <2>1. seqs.applied \in Nat
    BY TypeParts DEF Seqs
  <2> QED
    BY <1>1, <2>1 DEF Standing, Floor, Heard, Books
<1> QED
  BY <1>1, <1>2 DEF Relays, Sound

\* An operation of another replica is refused.
LEMMA RejectMismatchStands ==
  ASSUME IInv, IInv', NEW floor \in Nat, Standing(floor), NEW n \in Connections, RejectMismatch(n, 1)
  PROVE  Standing(floor)'
<1>1. Types /\ Talks
  BY DEF IInv
<1> DEFINE op == up[n][1].op
<1>2. /\ up[n] # <<>> /\ op \in Operations /\ Joined(n)
      /\ up' = [up EXCEPT ![n] = Tail(up[n])]
      /\ UNCHANGED <<session, conn, open, synced, client, log, parked>>
      /\ SendOpReject(n, op)
  BY <1>1, TakesIs DEF RejectMismatch
<1>3. PICK f \in Frames : f.kind = "reject" /\ f.op = op /\ Sends(n, <<f>>)
  BY <1>2, RejectIs
<1>4. <<f>> \in Seq(Frames) /\ ToSet(<<f>>) = {f}
  BY DEF ToSet
<1>5. PICK frames \in Seq(Frames) : ToSet(frames) = {f} /\ MaySend(n, frames)
  BY <1>3, <1>4 DEF MaySend
<1>6. \A g \in ToSet(frames) : g.kind \in {"op", "ack", "reject"} /\ Sound(g, floor)'
  BY <1>3, <1>5 DEF Sound
<1>7. Extended
  BY <1>1, <1>2, LogExtends
<1>8. OneCopy' /\ LogCausal'
  <2>1. \A m \in Connections : SentBy(m)' \subseteq SentBy(m)
    BY <1>1, <1>2, SentFewer
  <2>2. Somewhere' \subseteq Somewhere
    BY <1>2, <2>1 DEF Somewhere, Held, client
  <2> QED
    BY <1>2, <2>2, OneCopyKept DEF Standing, LogCausal
<1>9. open /\ session[conn].stage = "open" => up'[conn] = up[conn]
  <2>1. session[n].stage # "open" /\ up \in [Connections -> Seq(ClientFrames)] /\ conn \in 0..MaxConnections
    BY <1>1, <1>2, TypeParts DEF Joined
  <2> QED
    BY <1>2, <2>1
<1> QED
  BY <1>2, <1>5, <1>6, <1>7, <1>8, <1>9, ServerStands

\* What is taken is saved, or parked.
LEMMA AcceptStands ==
  ASSUME IInv, IInv', NEW floor \in Nat, Standing(floor), NEW n \in Connections, AcceptOperation(n, 1)
  PROVE  Standing(floor)'
<1>1. Types /\ Talks
  BY DEF IInv
<1>2. PICK op \in Operations :
        /\ op = up[n][1].op /\ 1 \in LiveAt(n) /\ Joined(n)
        /\ up[n] # <<>> /\ up' = [up EXCEPT ![n] = Tail(up[n])]
        /\ UNCHANGED <<session, conn, open, synced, client>>
        /\ \/ /\ op.parent \in IdsOf(ToSet(log)) \cup {Root} /\ Saves(op)
              /\ \E frames \in Seq(Frames) : MaySend(conn, frames) /\ Relays(frames, op)
           \/ Parks(op) /\ UNCHANGED <<ops, control>>
  BY AcceptIs
<1>3. Extended
  BY <1>1, <1>2, LogExtends DEF Parks
<1>4. open /\ session[conn].stage = "open" => up'[conn] = up[conn]
  <2>1. session[n].stage # "open" /\ up \in [Connections -> Seq(ClientFrames)] /\ conn \in 0..MaxConnections
    BY <1>1, <1>2, TypeParts DEF Joined
  <2> QED
    BY <1>2, <2>1
<1>5. op \in SentBy(n)
  BY <1>2 DEF SentBy, OpsIn, LiveAt, OpsAt
<1>6. OneCopy'
  <2>1. \A m \in Connections : SentBy(m)' \subseteq SentBy(m)
    BY <1>1, <1>2, SentFewer
  <2>2. ToSet(log') \cup parked' = ToSet(log) \cup parked \cup {op}
    BY <1>1, <1>2, GrownLog DEF Saves, Parks
  <2>3. Somewhere' \subseteq Somewhere
    BY <1>2, <1>5, <2>1, <2>2 DEF Somewhere, Held, client
  <2> QED
    BY <2>3, OneCopyKept DEF Standing
<1>7. PICK frames \in Seq(Frames) :
        /\ MaySend(conn, frames)
        /\ \A f \in ToSet(frames) : f.kind \in {"op", "ack", "reject"} /\ Sound(f, floor)'
  <2>1. CASE Saves(op) /\ \E frames \in Seq(Frames) : MaySend(conn, frames) /\ Relays(frames, op)
    <3>1. PICK frames \in Seq(Frames) : MaySend(conn, frames) /\ Relays(frames, op)
      BY <2>1
    <3>2. \A f \in ToSet(frames) : f.kind \in {"op", "ack", "reject"} /\ Sound(f, floor)'
      BY <1>1, <2>1, <3>1, RelaysSound
    <3> QED
      BY <3>1, <3>2
  <2>2. CASE UNCHANGED <<ops, control>>
    <3>1. <<>> \in Seq(Frames) /\ ToSet(<<>>) = {}
      BY NoMembers
    <3> QED
      BY <2>2, <3>1 DEF MaySend
  <2> QED
    BY <1>2, <2>1, <2>2
<1>8. LogCausal'
  <2>1. CASE Saves(op) /\ op.parent \in IdsOf(ToSet(log)) \cup {Root}
    BY <1>1, <2>1, CausalGrows DEF Standing
  <2>2. CASE Parks(op)
    BY <2>2 DEF Standing, LogCausal, Parks
  <2> QED
    BY <1>2, <2>1, <2>2
<1> QED
  BY <1>2, <1>3, <1>4, <1>6, <1>7, <1>8, ServerStands

\* What the others make is new.
LEMMA PeerEditStands ==
  ASSUME IInv, IInv', NEW floor \in Nat, Standing(floor), PeerEdit
  PROVE  Standing(floor)'
<1>1. Types /\ Identity
  BY DEF IInv
<1>2. PICK op \in Operations, frames \in Seq(Frames) :
        /\ Saves(op) /\ op.id = <<MaxEdits + Cardinality(Made) + 1, 0>> /\ IsFiniteSet(Made)
        /\ op.parent \in IdsOf(ToSet(log)) \cup {Root}
        /\ MaySend(conn, frames) /\ Relays(frames, op)
        /\ UNCHANGED <<session, up, conn, open, synced, client>>
  BY PeerEditIs
<1>3. Extended
  BY <1>1, <1>2, LogExtends
<1>4. ~Met(op.id)
  <2> SUFFICES ASSUME Met(op.id) PROVE FALSE
    OBVIOUS
  <2>1. PICK c \in Nat : c = Cardinality(Made)
    BY <1>2, FS_CardinalityType
  <2>2. op.id \in Ids /\ op.id[2] = 0 /\ op.id[1] = MaxEdits + c + 1
    BY <1>2, <2>1, OperationFields
  <2>3. PICK i \in DOMAIN log : log[i].id = op.id
    BY <1>1, <2>2 DEF Identity, Minted, IdsOf, ToSet
  <2>4. log[i].id[1] <= MaxEdits + c
    BY <1>1, <2>1, <2>2, <2>3 DEF Identity, PeersCounted, Made
  <2> QED
    BY <2>1, <2>2, <2>3, <2>4, Bounds
<1>5. OneCopy'
  <2>1. ToSet(log') = ToSet(log) \cup {op} /\ parked' = parked
    BY <1>1, <1>2, GrownLog DEF Saves
  <2>2. \A m \in Connections : SentBy(m)' = SentBy(m)
    BY <1>2 DEF SentBy
  <2>3. Somewhere' \subseteq Somewhere \cup {op}
    BY <1>2, <2>1, <2>2 DEF Somewhere, Held, client
  <2> QED
    BY <1>1, <1>4, <2>3, OneCopyFresh DEF Standing
<1>6. \A f \in ToSet(frames) : f.kind \in {"op", "ack", "reject"} /\ Sound(f, floor)'
  BY <1>1, <1>2, RelaysSound
<1>7. LogCausal'
  BY <1>1, <1>2, CausalGrows DEF Standing
<1> QED
  BY <1>2, <1>3, <1>5, <1>6, <1>7, ServerStands

\* What is acknowledged is an entry of the client's own.
LEMMA CommitStands ==
  ASSUME IInv, IInv', NEW floor \in Nat, Standing(floor), Commit
  PROVE  Standing(floor)'
<1>1. Types
  BY DEF IInv
<1>2. PICK op \in Operations :
        op = log[committed + 1] /\ committed + 1 \in DOMAIN log /\ committed + 1 \in Nat
  BY <1>1, TypeParts DEF Commit
<1>3. PICK ack \in Frames :
        /\ ack = [kind |-> "ack", seq |-> committed + 1, id |-> op.id]
        /\ ack.kind = "ack" /\ ack.seq = committed + 1
  <2>1. op.id \in Ids
    BY OperationFields
  <2>2. [kind |-> "ack", seq |-> committed + 1, id |-> op.id] \in Frames
    BY <1>2, <2>1 DEF Frames
  <2> QED
    BY <2>2
<1>4. UNCHANGED <<log, parked, session, up, conn, open, synced, client>>
  BY DEF Commit
<1>5. PICK frames \in Seq(Frames) :
        /\ MaySend(op.id[2], frames)
        /\ \A f \in ToSet(frames) : f = ack /\ op.id[2] # 0
  <2>1. CASE op.id[2] # 0
    <3>1. MaySend(op.id[2], <<ack>>)
      BY <1>2, <1>3, SendOpsIs DEF Commit, MaySend
    <3>2. <<ack>> \in Seq(Frames) /\ \A f \in ToSet(<<ack>>) : f = ack
      BY <1>3 DEF ToSet
    <3> QED
      BY <2>1, <3>1, <3>2
  <2>2. CASE op.id[2] = 0
    <3>1. UNCHANGED <<ops, control>>
      BY <1>2, <2>2 DEF Commit
    <3>2. <<>> \in Seq(Frames) /\ ToSet(<<>>) = {}
      BY NoMembers
    <3> QED
      BY <3>1, <3>2 DEF MaySend
  <2> QED
    BY <2>1, <2>2
<1>6. \A f \in ToSet(frames) : f.kind \in {"op", "ack", "reject"} /\ Sound(f, floor)'
  <2> SUFFICES ASSUME op.id[2] # 0 PROVE ack.kind \in {"op", "ack", "reject"} /\ Sound(ack, floor)'
    BY <1>5
  <2>1. ~Foreign(ack.seq)' /\ ack.seq \in DOMAIN log'
    BY <1>2, <1>3, <1>4 DEF Foreign
  <2> QED
    BY <1>3, <2>1 DEF Sound
<1>7. Extended
  BY <1>1, <1>4, LogExtends
<1>8. OneCopy' /\ LogCausal'
  BY <1>4 DEF Standing, OneCopy, Somewhere, LogCausal, Held, SentBy, client
<1> QED
  BY <1>4, <1>5, <1>6, <1>7, <1>8, ServerStands

\* The sweep refuses a parked operation.
LEMMA SweepStands ==
  ASSUME IInv, IInv', NEW floor \in Nat, Standing(floor), NEW op \in parked, Sweep(op)
  PROVE  Standing(floor)'
<1>1. Types
  BY DEF IInv
<1>2. op \in Operations
  BY <1>1, TypeParts
<1>3. /\ parked' = parked \ {op}
      /\ SendOpReject(op.id[2], op) \/ UNCHANGED <<ops, control>>
      /\ UNCHANGED <<log, session, up, conn, open, synced, client>>
  BY DEF Sweep
<1>4. PICK frames \in Seq(Frames) :
        MaySend(op.id[2], frames) /\ \A f \in ToSet(frames) : f.kind = "reject"
  <2>1. CASE SendOpReject(op.id[2], op)
    <3>1. PICK f \in Frames : f.kind = "reject" /\ Sends(op.id[2], <<f>>)
      BY <1>2, <2>1, RejectIs
    <3>2. <<f>> \in Seq(Frames) /\ ToSet(<<f>>) = {f}
      BY DEF ToSet
    <3> QED
      BY <3>1, <3>2 DEF MaySend
  <2>2. CASE UNCHANGED <<ops, control>>
    <3>1. <<>> \in Seq(Frames) /\ ToSet(<<>>) = {}
      BY NoMembers
    <3> QED
      BY <2>2, <3>1 DEF MaySend
  <2> QED
    BY <1>3, <2>1, <2>2
<1>5. \A f \in ToSet(frames) : f.kind \in {"op", "ack", "reject"} /\ Sound(f, floor)'
  BY <1>4 DEF Sound
<1>6. Extended
  BY <1>1, <1>3, LogExtends
<1>7. OneCopy' /\ LogCausal'
  <2>1. \A m \in Connections : SentBy(m)' = SentBy(m)
    BY <1>3 DEF SentBy
  <2>2. Somewhere' \subseteq Somewhere
    BY <1>3, <2>1 DEF Somewhere, Held, client
  <2> QED
    BY <1>3, <2>2, OneCopyKept DEF Standing, LogCausal
<1> QED
  BY <1>3, <1>4, <1>5, <1>6, <1>7, ServerStands

\* The frames of a turn of the handshake: they make an engine at most once, before
\* the chunks, and these leave out nothing.
Carries(frames, k, floor) ==
  /\ \A f \in ToSet(frames) : Sound(f, floor)
  /\ k.stage = "catchup" => k.from = floor /\ session[conn].stage = "open"
  /\ \A i, j \in DOMAIN frames : Renews(frames[i]) /\ Renews(frames[j]) => i = j
  /\ \A i \in DOMAIN frames : Renews(frames[i]) =>
       session[conn].stage \in {"open", "catchup"} /\ k.stage \notin {"open", "catchup"}
  /\ \A i \in DOMAIN frames : frames[i].kind \in {"chunk", "end", "have"} =>
       \/ engine.replica = conn
       \/ \E j \in DOMAIN control : Renews(control[j])
       \/ \E j \in 1..(i - 1) : Renews(frames[j])
  /\ \A i \in DOMAIN frames : frames[i].kind \in {"chunk", "end"} =>
       \A s \in (floor + 1)..UpTo(frames[i]) : \E j \in 1..i : Brings(frames[j], s)

\* The handshake moves on.
LEMMA TurnStands ==
  ASSUME Types, Types', NEW floor \in Nat, Standing(floor), NEW n \in Connections, NEW k \in Session,
         NEW frames \in Seq(Frames), session' = [session EXCEPT ![n] = k], SendControl(n, frames),
         UNCHANGED <<log, parked, conn, open, client>>,
         \A m \in Connections : SentBy(m)' \subseteq SentBy(m), n # conn => up'[conn] = up[conn],
         k.stage # "open", Reaches(n) => Carries(frames, k, floor)
  PROVE  Standing(floor)'
<1>1. /\ session \in [Connections -> Session] /\ control \in Seq(Frames) /\ ops \in Seq(Frames)
      /\ conn \in 0..MaxConnections /\ gate \in Seq(Frames)
  BY TypeParts
<1>2. Extended
  BY LogExtends
<1>3. LogCausal' /\ OneCopy'
  <2>1. Somewhere' \subseteq Somewhere
    BY DEF Somewhere, Held, client
  <2> QED
    BY <2>1, OneCopyKept DEF Standing, LogCausal
<1>4. Dry' /\ Elders' /\ Books' /\ Claims' /\ Recent(floor)' /\ GateCovers(floor)'
  BY <1>2, ClientStands DEF client
<1>5. CASE ~Reaches(n)
  <2>1. ops' = ops /\ control' = control /\ (open => session'[conn] = session[conn] /\ up'[conn] = up[conn])
    BY <1>1, <1>5 DEF SendControl, Reaches
  <2>2. RenewedOnce' /\ Chained'
    BY <2>1 DEF Standing, RenewedOnce, Chained, client
  <2>3. Heard(floor)'
    BY <2>1 DEF Standing, Floor, Heard, client
  <2>4. Sounds(floor)'
    BY <2>1 DEF Standing, Floor, Sounds, Sound, Foreign, client
  <2>5. ControlCovers(floor)'
    BY <2>1 DEF Standing, Floor, ControlCovers, Brings, UpTo, client
  <2> QED
    BY <1>3, <1>4, <2>2, <2>3, <2>4, <2>5 DEF Standing, Floor
<1>6. CASE Reaches(n)
  <2>1. /\ n = conn /\ open /\ ops' = ops /\ control' = control \o frames /\ session'[conn] = k
        /\ engine' = engine /\ seqs' = seqs /\ gate' = gate /\ Carries(frames, k, floor)
    BY <1>1, <1>6 DEF SendControl, Reaches, client
  <2>2. /\ Len(control) \in Nat /\ DOMAIN control = 1..Len(control) /\ DOMAIN frames = 1..Len(frames)
        /\ \A i \in DOMAIN control : i \in DOMAIN control' /\ control'[i] = control[i]
        /\ \A i \in DOMAIN frames : Len(control) + i \in DOMAIN control' /\ control'[Len(control) + i] = frames[i]
        /\ \A i \in DOMAIN control' :
             \/ i \in DOMAIN control /\ control'[i] = control[i]
             \/ i - Len(control) \in DOMAIN frames /\ control'[i] = frames[i - Len(control)]
        /\ Len(frames) \in Nat
        /\ \A i \in DOMAIN control' : i \in Nat
    <3>1. control \in Seq(Frames)
      BY <1>1
    <3> QED
      BY <2>1, <3>1, Continued
  <2>3. \A i \in DOMAIN control' : i \notin DOMAIN control =>
          /\ i - Len(control) \in DOMAIN frames /\ control'[i] = frames[i - Len(control)]
    BY <2>2
  <2>4. RenewedOnce'
    <3>1. session[conn].stage \in {"open", "catchup"} =>
            engine.replica # conn /\ \A i \in DOMAIN control : ~Renews(control[i])
      BY <2>1 DEF Standing, RenewedOnce
    <3>2. \A i \in DOMAIN control' : Renews(control'[i]) =>
            IF i \in DOMAIN control THEN Renews(control[i])
            ELSE session[conn].stage \in {"open", "catchup"} /\ k.stage \notin {"open", "catchup"}
      BY <2>1, <2>2, <2>3 DEF Carries
    <3>3. k.stage \in {"open", "catchup"} => session[conn].stage = "open"
      BY <2>1 DEF Carries
    <3>4. (session'[conn].stage \in {"open", "catchup"} \/ \E i \in DOMAIN control' : Renews(control'[i]))
             => engine'.replica # conn
      BY <2>1, <3>1, <3>2, <3>3 DEF Standing, RenewedOnce
    <3>5. session'[conn].stage \in {"open", "catchup"} => \A i \in DOMAIN control' : ~Renews(control'[i])
      BY <2>1, <3>1, <3>2, <3>3
    <3>6. ASSUME NEW i \in DOMAIN control', NEW j \in DOMAIN control',
                 Renews(control'[i]), Renews(control'[j])
          PROVE  i = j
      <4>1. CASE i \in DOMAIN control /\ j \in DOMAIN control
        BY <2>2, <3>6, <4>1 DEF Standing, RenewedOnce
      <4>2. CASE i \notin DOMAIN control /\ j \notin DOMAIN control
        <5>1. i - Len(control) = j - Len(control)
          BY <2>1, <2>3, <3>6, <4>2 DEF Carries
        <5> QED
          BY <2>2, <5>1
      <4> QED
        BY <3>1, <3>2, <3>6, <4>1, <4>2
    <3>7. conn' = conn /\ open' = open
      OBVIOUS
    <3> QED
      BY <3>4, <3>5, <3>6, <3>7 DEF RenewedOnce
  <2>5. Chained'
    <3> SUFFICES ASSUME NEW i \in DOMAIN control', control'[i].kind \in {"chunk", "end", "have"},
                        engine.replica # conn
                 PROVE  \E j \in 1..(i - 1) : Renews(control'[j])
      BY <2>1 DEF Standing, Chained
    <3>1. CASE i \in DOMAIN control
      <4>1. PICK j \in 1..(i - 1) : Renews(control[j])
        BY <2>2, <3>1 DEF Standing, Chained
      <4>2. j \in DOMAIN control
        BY <2>2, <3>1
      <4> QED
        BY <2>2, <4>1, <4>2
    <3>2. CASE i \notin DOMAIN control
      <4>1. i - Len(control) \in DOMAIN frames /\ control'[i] = frames[i - Len(control)]
        BY <2>3, <3>2
      <4>2. CASE \E j \in DOMAIN control : Renews(control[j])
        BY <2>2, <4>1, <4>2
      <4>3. CASE \E j \in 1..(i - Len(control) - 1) : Renews(frames[j])
        <5>1. PICK j \in 1..(i - Len(control) - 1) : Renews(frames[j])
          BY <4>3
        <5>2. j \in DOMAIN frames
          BY <2>2, <4>1
        <5>3. Len(control) + j \in 1..(i - 1) /\ control'[Len(control) + j] = frames[j]
          BY <2>2, <4>1, <5>2
        <5> QED
          BY <5>1, <5>3
      <4> QED
        BY <2>1, <4>1, <4>2, <4>3 DEF Carries
    <3> QED
      BY <3>1, <3>2
  <2>6. Heard(floor)'
    BY <2>1 DEF Standing, Floor, Heard, Carries
  <2>7. Sounds(floor)'
    <3>1. ToSet(control') = ToSet(control) \cup ToSet(frames)
      BY <1>1, <2>1, Joins
    <3>2. \A f : Sound(f, floor)' <=> Sound(f, floor)
      BY DEF Sound, Foreign
    <3> QED
      BY <2>1, <3>1, <3>2 DEF Standing, Floor, Sounds, Carries
  <2>8. ControlCovers(floor)'
    <3> SUFFICES ASSUME NEW i \in DOMAIN control', control'[i].kind \in {"chunk", "end"},
                        NEW s \in (floor + 1)..UpTo(control'[i])
                 PROVE  \/ engine.replica = conn /\ s <= seqs.seen
                        \/ \E f \in ToSet(gate) : Brings(f, s)
                        \/ \E j \in 1..i : Brings(control'[j], s)
      <4>1. conn' = conn /\ engine' = engine /\ seqs' = seqs /\ gate' = gate
        BY <2>1
      <4> QED
        BY <4>1 DEF ControlCovers, UpTo, Brings
    <3>1. CASE i \in DOMAIN control
      <4>1. \/ engine.replica = conn /\ s <= seqs.seen
            \/ \E f \in ToSet(gate) : Brings(f, s)
            \/ \E j \in 1..i : Brings(control[j], s)
        BY <2>2, <3>1 DEF Standing, Floor, ControlCovers
      <4>2. \A j \in 1..i : control'[j] = control[j]
        BY <2>2, <3>1
      <4> QED
        BY <4>1, <4>2
    <3>2. CASE i \notin DOMAIN control
      <4>1. i - Len(control) \in DOMAIN frames /\ control'[i] = frames[i - Len(control)]
        BY <2>3, <3>2
      <4>2. PICK j \in 1..(i - Len(control)) : Brings(frames[j], s)
        BY <2>1, <4>1 DEF Carries
      <4>3. j \in DOMAIN frames
        BY <2>2, <4>1
      <4>4. Len(control) + j \in 1..i /\ control'[Len(control) + j] = frames[j]
        BY <2>2, <4>1, <4>3
      <4> QED
        BY <4>2, <4>4
    <3> QED
      BY <3>1, <3>2
  <2> QED
    BY <1>3, <1>4, <2>4, <2>5, <2>6, <2>7, <2>8 DEF Standing, Floor
<1> QED
  BY <1>5, <1>6

\* A session ends, and says nothing.
LEMMA ClosesStands ==
  ASSUME IInv, IInv', NEW floor \in Nat, Standing(floor), NEW n \in Connections, Closes(n)
  PROVE  Standing(floor)'
<1>1. Types /\ Types' /\ Talks
  BY DEF IInv
<1>2. PICK k \in Session :
        /\ k.stage = "closed" /\ up' = [up EXCEPT ![n] = <<>>]
        /\ session' = [session EXCEPT ![n] = k]
        /\ UNCHANGED <<log, parked, ops, control, conn, open, client>>
  BY <1>1, ClosesIs DEF server
<1>3. session \in [Connections -> Session] /\ up \in [Connections -> Seq(ClientFrames)]
      /\ conn \in 0..MaxConnections
  BY <1>1, TypeParts
<1>4. Extended
  BY <1>1, <1>2, LogExtends
<1>5. LogCausal' /\ OneCopy'
  <2>1. \A m \in Connections : SentBy(m)' \subseteq SentBy(m)
    BY <1>1, <1>2, SentFewer
  <2>2. Somewhere' \subseteq Somewhere
    BY <1>2, <2>1 DEF Somewhere, Held, client
  <2> QED
    BY <1>2, <2>2, OneCopyKept DEF Standing, LogCausal
<1>6. Dry' /\ Elders' /\ Books' /\ Claims' /\ Recent(floor)' /\ GateCovers(floor)'
  BY <1>1, <1>2, <1>4, ClientStands DEF client
<1>7. open => (session'[conn] = session[conn] /\ up'[conn] = up[conn]) \/ session'[conn].stage = "closed"
  <2>1. CASE conn = n
    BY <1>2, <1>3, <2>1
  <2>2. CASE conn # n
    BY <1>2, <1>3, <2>2
  <2> QED
    BY <2>1, <2>2
<1>8. RenewedOnce' /\ Chained' /\ Heard(floor)'
  BY <1>2, <1>7 DEF Standing, Floor, Heard, RenewedOnce, Chained, client
<1>9. Sounds(floor)' /\ ControlCovers(floor)'
  BY <1>2 DEF Standing, Floor, Sounds, Sound, Foreign, ControlCovers, Brings, UpTo, client
<1> QED
  BY <1>5, <1>6, <1>8, <1>9 DEF Standing, Floor

\* The k-th chunk of a range of the log.
ChunkOf(f, from, to, k) ==
  /\ f.kind = "chunk" /\ f.through = Min({from + k * ChunkSize, to})
  /\ f.entries = LoadOperationLogRange(from + (k - 1) * ChunkSize, f.through)

\* The frames are chunks of the log after a number.  A number that is no later than
\* the end of one is in it or in one before, up to the last number of the range.
CoversRange(frames, from, to) ==
  /\ \A i \in DOMAIN frames : frames[i].kind = "chunk" /\ Sound(frames[i], from)
  /\ \A i \in DOMAIN frames : \A s \in (from + 1)..frames[i].through :
       \E j \in 1..i : j \in DOMAIN frames /\ Brings(frames[j], s)
  /\ \A s \in (from + 1)..to : \E j \in DOMAIN frames : Brings(frames[j], s)

\* The chunks of a range are such frames.
LEMMA ChunksBring ==
  ASSUME Types, NEW from \in Nat, NEW to \in Nat, to <= Len(log), NEW frames \in Seq(Frames),
         frames = Chunks(from, to)
  PROVE  CoversRange(frames, from, to)
<1>1. log \in Seq(Operations) /\ Len(log) \in Nat /\ DOMAIN log = 1..Len(log)
  BY TypeParts
<1>2. ChunkSize \in Nat /\ ChunkSize > 0
  BY Bounds
<1>3. PICK m \in Int : m = (to - from + ChunkSize - 1) \div ChunkSize
  BY <1>2
<1>4. DOMAIN frames = 1..m /\ \A k \in 1..m : ChunkOf(frames[k], from, to, k)
  BY <1>3 DEF Chunks, ChunkOf
<1>5. ASSUME NEW k \in Nat, k >= 1, NEW f, ChunkOf(f, from, to, k)
      PROVE  /\ f.through \in Nat /\ f.through <= to /\ f.through <= from + k * ChunkSize
             /\ f.through = to \/ f.through = from + k * ChunkSize
             /\ from + (k - 1) * ChunkSize >= from /\ (k - 1) * ChunkSize \in Nat /\ k * ChunkSize \in Nat
             /\ \A entry \in f.entries : /\ entry.seq \in (from + (k - 1) * ChunkSize + 1)..f.through
                                         /\ entry.op = log[entry.seq]
             /\ \A s \in (from + (k - 1) * ChunkSize + 1)..f.through : Brings(f, s)
  <2>1. PICK a \in Nat, b \in Nat : a = (k - 1) * ChunkSize /\ b = k * ChunkSize
    BY <1>2, <1>5
  <2>2. {from + b, to} \in SUBSET Nat /\ {from + b, to} # {}
    BY <2>1
  <2>3. PICK t \in {from + b, to} : t = Min({from + b, to}) /\ \A y \in {from + b, to} : t <= y
    BY <2>2, MinIs
  <2>4. f.kind = "chunk" /\ f.through = t /\ f.entries = LoadOperationLogRange(from + a, t)
    BY <1>5, <2>1, <2>3 DEF ChunkOf
  <2>5. \A entry \in f.entries : entry.seq \in (from + a + 1)..t /\ entry.op = log[entry.seq]
    BY <2>4 DEF LoadOperationLogRange, Entry
  <2>6. ASSUME NEW s \in (from + a + 1)..t PROVE Brings(f, s)
    <3>1. Entry(s) \in f.entries /\ Entry(s).seq = s
      BY <2>4 DEF LoadOperationLogRange, Entry
    <3> QED
      BY <2>4, <3>1 DEF Brings
  <2>7. /\ f.through \in Nat /\ f.through <= to /\ f.through <= from + b
        /\ f.through = to \/ f.through = from + b
        /\ from + a >= from
    BY <2>1, <2>3, <2>4
  <2>8. /\ \A entry \in f.entries : entry.seq \in (from + a + 1)..f.through /\ entry.op = log[entry.seq]
        /\ \A s \in (from + a + 1)..f.through : Brings(f, s)
    BY <2>4, <2>5, <2>6
  <2> QED
    BY <2>1, <2>7, <2>8
<1>6. ASSUME NEW i \in 1..m PROVE frames[i].kind = "chunk" /\ Sound(frames[i], from)
  <2>1. ChunkOf(frames[i], from, to, i) /\ i \in Nat /\ i >= 1
    BY <1>4
  <2>2. PICK a \in Nat : a = (i - 1) * ChunkSize
    BY <1>5, <2>1
  <2>3. /\ frames[i].through \in Nat /\ frames[i].through <= to
        /\ \A entry \in frames[i].entries : /\ entry.seq \in (from + a + 1)..frames[i].through
                                            /\ entry.op = log[entry.seq]
    <3>1. /\ frames[i].through \in Nat /\ frames[i].through <= to
          /\ \A entry \in frames[i].entries :
               /\ entry.seq \in (from + (i - 1) * ChunkSize + 1)..frames[i].through
               /\ entry.op = log[entry.seq]
      BY <1>5, <2>1
    <3> QED
      BY <2>2, <3>1
  <2>4. /\ frames[i].through <= Len(log)
        /\ \A entry \in frames[i].entries : /\ entry.seq \in (from + 1)..frames[i].through
                                            /\ entry.op = log[entry.seq]
    BY <1>1, <2>2, <2>3
  <2>5. frames[i].kind = "chunk"
    BY <2>1 DEF ChunkOf
  <2> QED
    BY <2>4, <2>5 DEF Sound
<1>7. ASSUME NEW k \in Nat, NEW s \in (from + 1)..to, s <= from + k * ChunkSize
      PROVE  \E j \in Nat : /\ j >= 1 /\ j <= k
                            /\ from + (j - 1) * ChunkSize < s /\ s <= from + j * ChunkSize
  <2> DEFINE T == {j \in Nat : s <= from + j * ChunkSize}
  <2>1. T \in SUBSET Nat /\ k \in T
    BY <1>7
  <2>2. PICK j \in T : \A y \in T : j <= y
    BY <2>1, LeastNatural
  <2>3. j \in Nat /\ s <= from + j * ChunkSize /\ j <= k
    BY <2>1, <2>2
  <2>4. j # 0
    <3>1. ASSUME j = 0 PROVE FALSE
      <4>1. j * ChunkSize = 0
        BY <1>2, <3>1
      <4> QED
        BY <2>3, <4>1
    <3> QED
      BY <3>1
  <2>5. j - 1 \in Nat /\ j - 1 \notin T
    BY <2>1, <2>2, <2>3, <2>4
  <2>6. (j - 1) * ChunkSize \in Nat
    BY <1>2, <2>5
  <2>7. from + (j - 1) * ChunkSize < s
    BY <2>5, <2>6
  <2> QED
    BY <2>3, <2>4, <2>7
<1>8. ASSUME NEW k \in 1..m, NEW s \in (from + 1)..to, s <= from + k * ChunkSize
      PROVE  \E j \in 1..k : j \in DOMAIN frames /\ Brings(frames[j], s)
  <2>1. k \in Nat
    BY <1>3
  <2>2. PICK j \in Nat : /\ j >= 1 /\ j <= k
                         /\ from + (j - 1) * ChunkSize < s /\ s <= from + j * ChunkSize
    BY <1>7, <1>8, <2>1
  <2>3. j \in 1..m /\ j \in 1..k /\ ChunkOf(frames[j], from, to, j)
    BY <1>3, <1>4, <2>2
  <2>4. PICK a \in Nat, b \in Nat : a = (j - 1) * ChunkSize /\ b = j * ChunkSize
    BY <1>5, <2>2, <2>3
  <2>5. /\ frames[j].through \in Nat
        /\ frames[j].through = to \/ frames[j].through = from + b
        /\ \A x \in (from + a + 1)..frames[j].through : Brings(frames[j], x)
    BY <1>5, <2>2, <2>3, <2>4
  <2>6. s \in (from + a + 1)..frames[j].through
    <3>1. from + a < s /\ s <= from + b /\ s \in Int /\ s <= to
      BY <2>2, <2>4
    <3> QED
      <4>1. s >= from + a + 1
        BY <2>4, <3>1
      <4>2. s <= frames[j].through
        BY <2>5, <3>1
      <4> QED
        BY <2>4, <2>5, <3>1, <4>1, <4>2
  <2> QED
    BY <1>4, <2>3, <2>5, <2>6
<1>9. ASSUME NEW i \in 1..m, NEW s \in (from + 1)..frames[i].through
      PROVE  \E j \in 1..i : j \in DOMAIN frames /\ Brings(frames[j], s)
  <2>1. ChunkOf(frames[i], from, to, i) /\ i \in Nat /\ i >= 1
    BY <1>4
  <2>2. PICK b \in Nat : b = i * ChunkSize
    BY <1>5, <2>1
  <2>3. frames[i].through \in Nat /\ frames[i].through <= to /\ frames[i].through <= from + b
    BY <1>5, <2>1, <2>2
  <2>4. s \in (from + 1)..to /\ s <= from + b
    BY <2>3
  <2> QED
    BY <1>8, <2>2, <2>4
<1>10. ASSUME NEW s \in (from + 1)..to PROVE \E j \in 1..m : j \in DOMAIN frames /\ Brings(frames[j], s)
  <2>1. PICK d \in Nat : d = to - from /\ d >= 1
    BY <1>10
  <2>2. m = (d + ChunkSize - 1) \div ChunkSize
    BY <1>3, <2>1
  <2>3. d <= m * ChunkSize
    BY <1>2, <2>1, <2>2
  <2>4. m >= 1
    <3>1. ASSUME m <= 0 PROVE FALSE
      <4>1. m * ChunkSize <= 0
        BY <1>2, <1>3, <3>1
      <4>2. m * ChunkSize \in Int
        BY <1>2, <1>3
      <4> QED
        BY <2>1, <2>3, <4>1, <4>2
    <3> QED
      BY <1>3, <3>1
  <2>5. PICK b \in Int : b = m * ChunkSize
    BY <1>2, <1>3
  <2>6. m \in 1..m /\ s <= from + b
    BY <1>3, <2>1, <2>3, <2>4, <2>5
  <2> QED
    BY <1>8, <2>5, <2>6
<1> QED
  BY <1>4, <1>6, <1>9, <1>10 DEF CoversRange

\* A queue between a first and a last element.
Framed(r, a, q, b) ==
  /\ Len(q) \in Nat /\ DOMAIN q = 1..Len(q) /\ DOMAIN r = 1..(Len(q) + 2)
  /\ r[1] = a /\ r[Len(q) + 2] = b
  /\ \A i \in 2..(Len(q) + 1) : i - 1 \in DOMAIN q /\ r[i] = q[i - 1]

\* It is a queue.
LEMMA Between ==
  ASSUME NEW X, NEW a \in X, NEW q \in Seq(X), NEW b \in X, NEW r, r = <<a>> \o q \o <<b>>
  PROVE  r \in Seq(X) /\ Framed(r, a, q, b)
<1>1. /\ <<a>> \o q \in Seq(X) /\ Len(q) \in Nat /\ DOMAIN q = 1..Len(q)
      /\ Len(<<a>> \o q) = Len(q) + 1
      /\ (<<a>> \o q)[1] = a
      /\ \A i \in 2..(Len(q) + 1) : i - 1 \in DOMAIN q /\ (<<a>> \o q)[i] = q[i - 1]
  OBVIOUS
<1>2. PICK p \in Seq(X) :
        /\ p = <<a>> \o q /\ Len(p) = Len(q) + 1 /\ p[1] = a
        /\ \A i \in 2..(Len(q) + 1) : i - 1 \in DOMAIN q /\ p[i] = q[i - 1]
  BY <1>1
<1>3. /\ r = p \o <<b>> /\ r \in Seq(X) /\ Len(r) = Len(p) + 1
      /\ \A i \in 1..Len(p) : r[i] = p[i]
      /\ r[Len(p) + 1] = b
  BY <1>2
<1>4. DOMAIN r = 1..Len(r)
  BY <1>3
<1> QED
  BY <1>1, <1>2, <1>3, <1>4 DEF Framed

\* The frames of a catch-up are such a turn.
LEMMA CatchupCarries ==
  ASSUME Types, NEW floor \in Nat, Standing(floor), NEW n \in Connections, Reaches(n),
         session[n].stage = "catchup", NEW k, k.stage = "checking",
         NEW frames, frames = <<[kind |-> "begin"]>> \o Chunks(session[n].from, session[n].to)
                              \o <<[kind |-> "end", to |-> session[n].to]>>
  PROVE  frames \in Seq(Frames) /\ Carries(frames, k, floor)
<1>1. /\ n = conn /\ open /\ session[conn].from = floor
  BY DEF Reaches, Standing, Floor, Heard
<1>2. PICK to \in Nat : to = session[n].to /\ to <= Len(log)
  <2>1. session[n] \in Session /\ session[n].to <= Len(log)
    BY TypeParts
  <2> QED
    BY <2>1 DEF Session
<1>3. PICK chunks \in Seq(Frames) : chunks = Chunks(floor, to)
  BY <1>2, ChunksIs
<1>4. /\ \A i \in DOMAIN chunks : chunks[i].kind = "chunk" /\ Sound(chunks[i], floor)
      /\ \A i \in DOMAIN chunks : \A s \in (floor + 1)..chunks[i].through :
           \E j \in 1..i : j \in DOMAIN chunks /\ Brings(chunks[j], s)
      /\ \A s \in (floor + 1)..to : \E j \in DOMAIN chunks : Brings(chunks[j], s)
  <2>1. CoversRange(chunks, floor, to)
    BY <1>2, <1>3, ChunksBring
  <2> QED
    BY <2>1 DEF CoversRange
<1>5. PICK begin \in Frames : begin = [kind |-> "begin"] /\ begin.kind = "begin"
  BY DEF Frames
<1>6. PICK end \in Frames : end = [kind |-> "end", to |-> to] /\ end.kind = "end" /\ end.to = to
  <2>1. [kind |-> "end", to |-> to] \in Frames
    BY DEF Frames
  <2> QED
    BY <2>1
<1>7. PICK m \in Nat :
        /\ m = Len(chunks) /\ frames \in Seq(Frames) /\ DOMAIN chunks = 1..m /\ DOMAIN frames = 1..(m + 2)
        /\ frames[1] = begin /\ frames[m + 2] = end
        /\ \A i \in 2..(m + 1) : i - 1 \in DOMAIN chunks /\ frames[i] = chunks[i - 1]
  <2>1. frames = <<begin>> \o chunks \o <<end>>
    BY <1>1, <1>2, <1>3, <1>5, <1>6
  <2>2. /\ frames \in Seq(Frames) /\ Len(chunks) \in Nat /\ DOMAIN chunks = 1..Len(chunks)
        /\ DOMAIN frames = 1..(Len(chunks) + 2)
        /\ frames[1] = begin /\ frames[Len(chunks) + 2] = end
        /\ \A i \in 2..(Len(chunks) + 1) : i - 1 \in DOMAIN chunks /\ frames[i] = chunks[i - 1]
    <3>1. frames \in Seq(Frames) /\ Framed(frames, begin, chunks, end)
      BY <2>1, Between
    <3> QED
      BY <3>1 DEF Framed
  <2> QED
    BY <2>2
<1>8. \A i \in DOMAIN frames :
        \/ i = 1 /\ frames[i] = begin
        \/ i \in 2..(m + 1) /\ i - 1 \in DOMAIN chunks /\ frames[i] = chunks[i - 1]
        \/ i = m + 2 /\ frames[i] = end
  BY <1>7
<1>9. \A j \in DOMAIN chunks : j + 1 \in DOMAIN frames /\ frames[j + 1] = chunks[j] /\ j + 1 \in 2..(m + 1)
  BY <1>7
<1>10. \A f \in ToSet(frames) : Sound(f, floor)
  <2> SUFFICES ASSUME NEW i \in DOMAIN frames PROVE Sound(frames[i], floor)
    BY DEF ToSet
  <2>1. Sound(begin, floor)
    BY <1>5 DEF Sound
  <2>2. Sound(end, floor)
    BY <1>2, <1>6 DEF Sound
  <2> QED
    BY <1>4, <1>8, <2>1, <2>2
<1>11. \A i \in DOMAIN frames : Renews(frames[i]) => i = 1
  <2> SUFFICES ASSUME NEW i \in DOMAIN frames, i # 1 PROVE ~Renews(frames[i])
    OBVIOUS
  <2>1. frames[i].kind \in {"chunk", "end"}
    BY <1>4, <1>6, <1>8
  <2> QED
    BY <2>1 DEF Renews
<1>12. ASSUME NEW i \in DOMAIN frames, frames[i].kind \in {"chunk", "end", "have"}
       PROVE  \E j \in 1..(i - 1) : Renews(frames[j])
  <2>1. i # 1 /\ i \in Nat /\ i >= 2
    <3>1. i # 1
      BY <1>5, <1>8, <1>12
    <3>2. i \in Nat /\ i >= 1
      BY <1>7
    <3> QED
      BY <3>1, <3>2
  <2>2. Renews(frames[1])
    BY <1>5, <1>7 DEF Renews
  <2> QED
    <3>1. 1 \in 1..(i - 1)
      BY <2>1
    <3> QED
      BY <2>2, <3>1
<1>13. ASSUME NEW i \in DOMAIN frames, frames[i].kind \in {"chunk", "end"}, NEW s \in (floor + 1)..UpTo(frames[i])
       PROVE  \E j \in 1..i : Brings(frames[j], s)
  <2>1. CASE i \in 2..(m + 1)
    <3>1. i - 1 \in DOMAIN chunks /\ frames[i] = chunks[i - 1]
      BY <1>7, <2>1
    <3>2. s \in (floor + 1)..chunks[i - 1].through
      BY <1>4, <1>13, <3>1 DEF UpTo
    <3>3. PICK j \in 1..(i - 1) : j \in DOMAIN chunks /\ Brings(chunks[j], s)
      BY <1>4, <3>1, <3>2
    <3>4. frames[j + 1] = chunks[j]
      BY <1>9, <3>3
    <3>5. j + 1 \in 1..i
      BY <2>1, <3>3
    <3> QED
      BY <3>3, <3>4, <3>5
  <2>2. CASE i = m + 2
    <3>1. s \in (floor + 1)..to
      BY <1>6, <1>7, <1>13, <2>2 DEF UpTo
    <3>2. PICK j \in DOMAIN chunks : Brings(chunks[j], s)
      BY <1>4, <3>1
    <3>3. j + 1 \in 1..i /\ Brings(frames[j + 1], s)
      BY <1>9, <2>2, <3>2
    <3> QED
      BY <3>3
  <2> QED
    BY <1>5, <1>8, <1>13, <2>1, <2>2
<1>14. \A i, j \in DOMAIN frames : Renews(frames[i]) /\ Renews(frames[j]) => i = j
  BY <1>11
<1>15. session[conn].stage \in {"open", "catchup"} /\ k.stage \notin {"open", "catchup"}
  BY <1>1
<1> QED
  BY <1>7, <1>10, <1>12, <1>13, <1>14, <1>15 DEF Carries

\* The catch-up is sent.
LEMMA SendCatchupStands ==
  ASSUME IInv, IInv', NEW floor \in Nat, Standing(floor), NEW n \in Connections, SendCatchup(n)
  PROVE  Standing(floor)'
<1>1. Types /\ Types'
  BY DEF IInv
<1>2. PICK k \in Session : k = [session[n] EXCEPT !.stage = "checking"] /\ k.stage = "checking"
  <2>1. session[n] \in Session
    BY <1>1, TypeParts
  <2>2. [session[n] EXCEPT !.stage = "checking"] \in Session
        /\ [session[n] EXCEPT !.stage = "checking"].stage = "checking"
    BY <2>1 DEF Session
  <2> QED
    BY <2>2
<1>3. PICK frames : frames = <<[kind |-> "begin"]>> \o Chunks(session[n].from, session[n].to)
                             \o <<[kind |-> "end", to |-> session[n].to]>>
  OBVIOUS
<1>4. session[n].stage = "catchup" /\ session' = [session EXCEPT ![n] = k] /\ SendControl(n, frames)
      /\ UNCHANGED <<log, parked, up, conn, open, client>>
  BY <1>2, <1>3 DEF SendCatchup, server
<1>5. frames \in Seq(Frames) /\ (Reaches(n) => Carries(frames, k, floor))
  <2>1. CASE Reaches(n)
    BY <1>1, <1>2, <1>3, <1>4, <2>1, CatchupCarries
  <2>2. CASE ~Reaches(n)
    <3>1. session[n] \in Session /\ session[n].to <= Len(log)
      BY <1>1, TypeParts
    <3>2. PICK chunks \in Seq(Frames) : chunks = Chunks(session[n].from, session[n].to)
      BY <1>1, <3>1, ChunksIs DEF Session
    <3>3. PICK begin \in Frames : begin = [kind |-> "begin"]
      BY DEF Frames
    <3>4. PICK end \in Frames : end = [kind |-> "end", to |-> session[n].to]
      BY <3>1 DEF Frames, Session
    <3>5. frames = <<begin>> \o chunks \o <<end>>
      BY <1>3, <3>2, <3>3, <3>4
    <3>6. frames \in Seq(Frames)
      BY <3>5, Between
    <3> QED
      BY <2>2, <3>6
  <2> QED
    BY <2>1, <2>2
<1>6. \A m \in Connections : SentBy(m)' \subseteq SentBy(m)
  BY <1>4 DEF SentBy
<1> QED
  BY <1>1, <1>2, <1>4, <1>5, <1>6, TurnStands

\* ALREADY_HAVE follows the frame that made the engine.
LEMMA SendAlreadyHaveStands ==
  ASSUME IInv, IInv', NEW floor \in Nat, Standing(floor), NEW n \in Connections, SendAlreadyHave(n)
  PROVE  Standing(floor)'
<1>1. Types /\ Types' /\ Renewals
  BY DEF IInv
<1>2. PICK k \in Session, have \in Frames :
        /\ session[n].stage = "checking" /\ k.stage = "joined"
        /\ session' = [session EXCEPT ![n] = k] /\ have.kind = "have" /\ SendControl(n, <<have>>)
        /\ UNCHANGED <<log, parked, up, conn, open, client>>
  BY <1>1, SendAlreadyHaveIs DEF server
<1>3. PICK frames \in Seq(Frames) :
        frames = <<have>> /\ ToSet(frames) = {have} /\ DOMAIN frames = {1} /\ frames[1] = have
  <2>1. <<have>> \in Seq(Frames) /\ ToSet(<<have>>) = {have} /\ DOMAIN <<have>> = {1} /\ <<have>>[1] = have
    BY DEF ToSet
  <2> QED
    BY <2>1
<1>4. ~Renews(have) /\ Sound(have, floor)
  BY <1>2 DEF Renews, Sound
<1>5. Reaches(n) => Carries(frames, k, floor)
  <2> SUFFICES ASSUME Reaches(n) PROVE Carries(frames, k, floor)
    OBVIOUS
  <2>1. engine.replica = conn \/ \E j \in DOMAIN control : Renews(control[j])
    BY <1>1, <1>2 DEF Renewals, Reaches
  <2> QED
    BY <1>2, <1>3, <1>4, <2>1 DEF Carries
<1>6. \A m \in Connections : SentBy(m)' \subseteq SentBy(m)
  BY <1>2 DEF SentBy
<1> QED
  BY <1>1, <1>2, <1>3, <1>5, <1>6, TurnStands

\* The client is admitted: what it is sent is the log up to a number that is no less
\* than the one it reported, or it is told of what follows.
LEMMA AdmitStands ==
  ASSUME IInv, IInv', NEW floor \in Nat, Standing(floor), NEW n \in Connections, Admit(n)
  PROVE  Standing(floor)'
<1>1. Types /\ Types' /\ Talks
  BY DEF IInv
<1>2. PICK k \in Session, w \in Frames : Admitted(n, k, w)
  BY <1>1, AdmitIs
<1>3. /\ up[n] # <<>> /\ session[n].stage = "open"
      /\ up' = [up EXCEPT ![n] = Tail(up[n])]
      /\ session' = [session EXCEPT ![n] = k]
      /\ k.stage \in {"catchup", "checking"} /\ k.from = up[n][1].seq
      /\ w.kind = "welcome"
      /\ \/ k.stage = "catchup" /\ ~Renews(w) /\ SendControl(n, <<w>>)
         \/ k.stage = "checking" /\ w.mode = "current" /\ SendControl(n, <<w>>)
         \/ /\ k.stage = "checking" /\ ~Renews(w)
            /\ \E s \in Frames : /\ s.kind = "snapshot" /\ s.seq = Len(log) /\ s.nodes = ToSet(log)
                                 /\ SendControl(n, <<w>> \o <<s>>)
      /\ UNCHANGED <<log, parked, conn, open, client>>
  BY <1>2 DEF Admitted, server
<1>4. /\ log \in Seq(Operations) /\ Len(log) \in Nat /\ DOMAIN log = 1..Len(log) /\ seqs.applied \in Nat
      /\ up \in [Connections -> Seq(ClientFrames)] /\ conn \in 0..MaxConnections
  BY <1>1, TypeParts DEF Seqs
<1>5. Reaches(n) => k.from = floor /\ session[conn].stage = "open"
  BY <1>3 DEF Reaches, Standing, Floor, Heard
<1>6. Sound(w, floor)
  BY <1>3 DEF Sound
<1>7. PICK frames \in Seq(Frames) : SendControl(n, frames) /\ (Reaches(n) => Carries(frames, k, floor))
  <2>1. ASSUME SendControl(n, <<w>>), Renews(w) => k.stage = "checking"
        PROVE  \E frames \in Seq(Frames) :
                 SendControl(n, frames) /\ (Reaches(n) => Carries(frames, k, floor))
    <3>1. PICK frames \in Seq(Frames) :
            frames = <<w>> /\ ToSet(frames) = {w} /\ DOMAIN frames = {1} /\ frames[1] = w
      <4>1. <<w>> \in Seq(Frames) /\ ToSet(<<w>>) = {w} /\ DOMAIN <<w>> = {1} /\ <<w>>[1] = w
        BY DEF ToSet
      <4> QED
        BY <4>1
    <3>2. Reaches(n) => Carries(frames, k, floor)
      BY <1>3, <1>5, <1>6, <2>1, <3>1 DEF Carries
    <3> QED
      BY <2>1, <3>1, <3>2
  <2>2. ASSUME k.stage = "checking", ~Renews(w), NEW s \in Frames, s.kind = "snapshot", s.seq = Len(log),
               s.nodes = ToSet(log), SendControl(n, <<w>> \o <<s>>)
        PROVE  \E frames \in Seq(Frames) :
                 SendControl(n, frames) /\ (Reaches(n) => Carries(frames, k, floor))
    <3>1. PICK frames \in Seq(Frames) :
            /\ frames = <<w>> \o <<s>> /\ ToSet(frames) = {w, s} /\ DOMAIN frames = {1, 2}
            /\ frames[1] = w /\ frames[2] = s
      <4>1. /\ <<w>> \in Seq(Frames) /\ Len(<<w>>) = 1 /\ <<w>>[1] = w
            /\ <<s>> \in Seq(Frames) /\ Len(<<s>>) = 1 /\ <<s>>[1] = s
        OBVIOUS
      <4>2. PICK p \in Seq(Frames), q \in Seq(Frames) :
              p = <<w>> /\ q = <<s>> /\ Len(p) = 1 /\ Len(q) = 1 /\ p[1] = w /\ q[1] = s
        BY <4>1
      <4>3. PICK r \in Seq(Frames) : r = <<w>> \o <<s>> /\ Len(r) = 2 /\ r[1] = w /\ r[2] = s
        <5>1. /\ p \o q \in Seq(Frames) /\ Len(p \o q) = 2
              /\ (p \o q)[1] = p[1] /\ (p \o q)[2] = q[1]
          BY <4>2
        <5> QED
          BY <4>2, <5>1
      <4>4. DOMAIN r = {1, 2}
        BY <4>3
      <4>5. ToSet(r) = {w, s}
        BY <4>3, <4>4 DEF ToSet
      <4> QED
        BY <4>3, <4>4, <4>5
    <3>2. Sound(s, floor)
      <4>1. floor <= Len(log)
        BY <1>4 DEF Standing, Floor, Heard, Books
      <4>2. ToSet(log) = {log[i] : i \in 1..Len(log)}
        BY <1>4 DEF ToSet
      <4> QED
        BY <1>4, <2>2, <4>1, <4>2 DEF Sound
    <3>3. Reaches(n) => Carries(frames, k, floor)
      <4>1. \A i \in DOMAIN frames : /\ Renews(frames[i]) => i = 2
                                     /\ frames[i].kind \notin {"chunk", "end", "have"}
        BY <1>3, <2>2, <3>1
      <4>2. \A f \in ToSet(frames) : Sound(f, floor)
        BY <1>6, <3>1, <3>2
      <4> QED
        BY <1>5, <2>2, <4>1, <4>2 DEF Carries
    <3> QED
      BY <2>2, <3>1, <3>3
  <2>3. Renews(w) <=> w.mode = "current"
    BY <1>3 DEF Renews
  <2> QED
    BY <1>3, <2>1, <2>2, <2>3
<1>8. \A m \in Connections : SentBy(m)' \subseteq SentBy(m)
  BY <1>1, <1>3, SentFewer
<1>9. n # conn => up'[conn] = up[conn]
  BY <1>3, <1>4
<1> QED
  BY <1>1, <1>3, <1>7, <1>8, <1>9, TurnStands

\* The steps of the server.
LEMMA HandshakeStands ==
  ASSUME IInv, IInv', NEW floor \in Nat, Standing(floor), NEW n \in Connections, Handshake(n)
  PROVE  Standing(floor)'
BY AdmitStands, SendCatchupStands, SendAlreadyHaveStands, ClosesStands DEF Handshake, Closes

-----------------------------------------------------------------------------
(* What the client claims: connections *)

\* The engine is given what is in the log, and the queue gets no longer.
LEMMA EldersKept ==
  ASSUME Types, Identity, LogCausal, Elders, Held' \subseteq Held \cup ToSet(log),
         ToSet(unacked') \subseteq ToSet(unacked), typed' = typed, conn' \in Nat, conn <= conn'
  PROVE  Elders'
<1>1. log \in Seq(Operations) /\ unacked \in Seq(Operations) /\ conn \in Nat /\ engine \in Engine
      /\ ToSet(log) \subseteq Operations /\ ToSet(unacked) \subseteq Operations
  <2>1. log \in Seq(Operations) /\ unacked \in Seq(Operations) /\ conn \in Nat /\ engine \in Engine
    BY TypeParts, Bounds
  <2> QED
    BY <2>1, Queues
<1>2. ASSUME NEW o \in Held \cup ToSet(log), o.parent[2] # 0
      PROVE  /\ o.parent[1] \in 1..typed /\ o.parent[2] <= conn /\ o.parent[2] \in Nat
             /\ \A q \in ToSet(unacked) : o.parent[1] = q.id[1] => o.parent[2] <= q.id[2]
  <2>1. o.parent \in Ids
    <3>1. o \in Operations
      BY <1>1 DEF Held, Engine
    <3> QED
      BY <1>2, <3>1, OperationFields DEF Root
  <2>2. o.parent[2] \in Nat
    BY <2>1, IdFields, Bounds
  <2>3. CASE o \in Held
    BY <1>2, <2>2, <2>3 DEF Elders
  <2>4. CASE o \in ToSet(log)
    <3>1. PICK i \in DOMAIN log : o = log[i]
      BY <2>4 DEF ToSet
    <3>2. o.parent # Root
      BY <1>2 DEF Root
    <3>3. PICK k \in 1..(i - 1) : log[k].id = o.parent
      BY <3>1, <3>2 DEF LogCausal
    <3>4. k \in DOMAIN log
      BY <1>1, <3>3
    <3>5. Met(o.parent)
      BY <3>3, <3>4 DEF Met, IdsOf, ToSet
    <3> QED
      BY <1>2, <2>1, <2>2, <3>5 DEF Identity, Minted, Newest
  <2> QED
    BY <2>3, <2>4
<1> QED
  BY <1>1, <1>2 DEF Elders

\* The client is as it was, and the frames to the server are as few as they were.
LEMMA StillClient ==
  ASSUME Types, NEW floor \in Nat, Standing(floor),
         UNCHANGED <<log, parked, engine, unacked, typed>>, conn' \in Nat, conn <= conn', Identity,
         \A m \in Connections : SentBy(m)' \subseteq SentBy(m)
  PROVE  LogCausal' /\ OneCopy' /\ Dry' /\ Elders'
<1>1. LogCausal' /\ Dry'
  BY DEF Standing, LogCausal, Dry
<1>2. Elders'
  BY EldersKept DEF Standing, Held
<1>3. Somewhere' \subseteq Somewhere
  BY DEF Somewhere, Held
<1> QED
  BY <1>1, <1>2, <1>3, OneCopyKept DEF Standing

\* A connection without frames to the client tells it nothing.
LEMMA EmptyLanes ==
  ASSUME ops' = <<>>, control' = <<>>, NEW floor \in Nat,
         gate' = <<>> \/ (gate' = gate /\ \A f \in ToSet(gate) : Sound(f, floor)')
  PROVE  Sounds(floor)' /\ ControlCovers(floor)' /\ \A i \in DOMAIN control' : FALSE
<1>1. ToSet(ops') = {} /\ ToSet(control') = {} /\ DOMAIN control' = {}
  BY NoMembers
<1>2. gate' = <<>> => ToSet(gate') = {}
  BY NoMembers
<1> QED
  BY <1>1, <1>2 DEF Sounds, ControlCovers

\* A new connection reports the number that is claimed.
LEMMA OpenSocketStands ==
  ASSUME IInv, IInv', NEW floor \in Nat, Standing(floor), OpenSocket
  PROVE  Standing(seqs.applied)'
<1>1. Types /\ Types' /\ Talks /\ Successions /\ Carried /\ Identity
  BY DEF IInv
<1>2. conn \in 0..MaxConnections /\ engine \in Engine /\ seqs.applied \in Nat
      /\ up \in [Connections -> Seq(ClientFrames)]
  BY <1>1, TypeParts DEF Seqs
<1>3. /\ ops' = <<>> /\ control' = <<>> /\ gate' = <<>> /\ conn' = conn + 1 /\ open'
      /\ conn + 1 \in Connections /\ session' = session /\ seqs' = seqs
      /\ UNCHANGED <<log, parked, engine, unacked, typed>>
      /\ up' = [up EXCEPT ![conn + 1] = <<[kind |-> "hello", seq |-> seqs.applied,
                                          unacked |-> IdsOf(ToSet(unacked)), resident |-> HasEngine]>>]
  BY <1>1, <1>2, Bounds DEF OpenSocket, Carried, server, Connections
<1>4. ASSUME NEW m \in Connections PROVE SentBy(m)' \subseteq SentBy(m)
  <2>1. CASE m = conn + 1
    <3>1. PICK hello : hello = [kind |-> "hello", seq |-> seqs.applied,
                                unacked |-> IdsOf(ToSet(unacked)), resident |-> HasEngine]
      OBVIOUS
    <3>2. up'[m] = <<hello>> /\ hello.kind = "hello"
      BY <1>2, <1>3, <2>1, <3>1
    <3>3. OpsIn(up'[m]) = {}
      BY <3>2 DEF OpsIn
    <3> QED
      BY <3>3 DEF SentBy
  <2>2. CASE m # conn + 1
    BY <1>2, <1>3, <2>2 DEF SentBy
  <2> QED
    BY <2>1, <2>2
<1>5. LogCausal' /\ OneCopy' /\ Dry' /\ Elders'
  BY <1>1, <1>2, <1>3, <1>4, StillClient
<1>6. Books' /\ Claims'
  BY <1>3 DEF Standing, Books, Claims, Claim, Foreign, Held
<1>7. session'[conn'].stage = "open" /\ up'[conn'][1].seq = seqs.applied
  <2>1. session[conn + 1] = NewSession
    BY <1>1, <1>2, <1>3 DEF Talks
  <2>2. up'[conn'] = <<[kind |-> "hello", seq |-> seqs.applied,
                        unacked |-> IdsOf(ToSet(unacked)), resident |-> HasEngine]>>
    BY <1>2, <1>3
  <2> QED
    BY <1>3, <2>1, <2>2 DEF NewSession
<1>8. Sounds(seqs.applied)' /\ ControlCovers(seqs.applied)' /\ \A i \in DOMAIN control' : FALSE
  <2>1. PICK number \in Nat : number = seqs.applied /\ number = seqs'.applied
    BY <1>2, <1>3
  <2>2. Sounds(number)' /\ ControlCovers(number)' /\ \A i \in DOMAIN control' : FALSE
    BY <1>3, <2>1, EmptyLanes
  <2> QED
    BY <2>1, <2>2
<1>9. engine'.replica # conn'
  BY <1>1, <1>2, <1>3 DEF Successions, Engine
<1>10. DOMAIN gate' = {}
  BY <1>3
<1>11. RenewedOnce' /\ Chained'
  BY <1>3, <1>8, <1>9 DEF RenewedOnce, Chained
<1>12. Heard(seqs.applied)' /\ GateCovers(seqs.applied)' /\ Recent(seqs.applied)'
  BY <1>2, <1>3, <1>7, <1>10 DEF Heard, GateCovers, Recent
<1> QED
  BY <1>5, <1>6, <1>8, <1>11, <1>12 DEF Standing, Floor

\* The connection breaks: what waits on the gate will run.
LEMMA DropStands ==
  ASSUME IInv, IInv', NEW floor \in Nat, Standing(floor), Drop
  PROVE  Standing(floor)'
<1>1. Types /\ Types' /\ Identity
  BY DEF IInv
<1>2. /\ ops' = <<>> /\ control' = <<>> /\ ~open'
      /\ UNCHANGED <<log, parked, session, up, conn, engine, unacked, typed, seqs, gate>>
  BY <1>1, TypePartsNext DEF Drop, LoseConnection, server, client
<1>3. conn \in Nat
  BY <1>1, TypeParts, Bounds
<1>4. \A m \in Connections : SentBy(m)' \subseteq SentBy(m)
  BY <1>2 DEF SentBy
<1>5. LogCausal' /\ OneCopy' /\ Dry' /\ Elders'
  BY <1>1, <1>2, <1>3, <1>4, StillClient
<1>6. Books' /\ Claims' /\ Recent(floor)' /\ GateCovers(floor)'
  BY <1>2 DEF Standing, Books, Claims, Claim, Foreign, Held, Floor, Recent, Late, GateCovers
<1>7. Sounds(floor)' /\ ControlCovers(floor)' /\ \A i \in DOMAIN control' : FALSE
  <2>1. \A f \in ToSet(gate) : Sound(f, floor)'
    BY <1>2 DEF Standing, Floor, Sounds, Sound, Foreign
  <2> QED
    BY <1>2, <2>1, EmptyLanes
<1>8. RenewedOnce' /\ Chained'
  BY <1>2, <1>7 DEF Standing, RenewedOnce, Chained
<1>9. Heard(floor)'
  BY <1>2 DEF Standing, Floor, Heard
<1> QED
  BY <1>5, <1>6, <1>7, <1>8, <1>9 DEF Standing, Floor

\* The page closes and opens again: nothing is claimed.
LEMMA ReloadStands ==
  ASSUME IInv, IInv', NEW floor \in Nat, Standing(floor), Reload
  PROVE  Standing(0)'
<1>1. Types /\ Types' /\ Identity
  BY DEF IInv
<1>2. /\ ops' = <<>> /\ control' = <<>> /\ ~open' /\ gate' = <<>>
      /\ engine' = NoEngine /\ seqs' = ResetSeqs(0) /\ unacked' = LoadUnacked
      /\ RowsMayLag /\ UNCHANGED <<log, parked, session, up, conn, typed>>
  BY <1>1, TypePartsNext DEF Reload, LoseConnection, server, LoadUnacked
<1>3. /\ engine'.nodes = {} /\ engine'.pending = {} /\ Held' = {}
      /\ seqs'.applied = 0 /\ seqs'.seen = 0 /\ seqs'.confirmed = {} /\ seqs'.livePending = {}
      /\ seqs'.catchupPending = {}
  BY <1>2 DEF NoEngine, ResetSeqs, Held
<1>4. ToSet(unacked') \subseteq ToSet(unacked)
  BY <1>2, LoadedIs
<1>5. LogCausal'
  BY <1>2 DEF Standing, LogCausal
<1>6. OneCopy'
  <2>1. Somewhere' \subseteq Somewhere
    BY <1>2, <1>3, <1>4 DEF Somewhere, SentBy
  <2> QED
    BY <2>1, OneCopyKept DEF Standing
<1>7. Dry'
  <2>1. Greatest(Resolved({}, {}), {}, {})
    BY ResolvedIs
  <2>2. Resolved({}, {}) = {}
    BY <2>1 DEF Greatest
  <2> QED
    BY <1>3, <2>2 DEF Dry
<1>8. Elders'
  BY <1>3 DEF Elders
<1>9. Len(log') \in Nat
  BY <1>1, TypePartsNext
<1>10. Books' /\ Claims' /\ Recent(0)' /\ Heard(0)'
  BY <1>2, <1>3, <1>9 DEF Books, Claims, Recent, Heard
<1>11. Sounds(0)' /\ ControlCovers(0)' /\ \A i \in DOMAIN control' : FALSE
  BY <1>2, EmptyLanes
<1>12. DOMAIN gate' = {}
  BY <1>2
<1>13. GateCovers(0)' /\ RenewedOnce' /\ Chained'
  BY <1>2, <1>11, <1>12 DEF GateCovers, RenewedOnce, Chained
<1> QED
  BY <1>5, <1>6, <1>7, <1>8, <1>10, <1>11, <1>13 DEF Standing, Floor

-----------------------------------------------------------------------------
(* What the client claims: frames *)

\* A frame of the handshake that waits for its turn.
Waits(f) == f.kind \in {"chunk", "end", "have"}

\* A frame makes the engine of the connection, and waits on the gate if it must.
Handles(f) ==
  /\ Consumed(f)
  /\ engine'.replica = IF Renews(f) THEN conn ELSE engine.replica
  /\ gate' = IF Waits(f) THEN Append(gate, f) ELSE gate
  /\ ~Renews(f) => seqs.seen <= seqs'.seen

\* A lane from which a frame was taken.
LEMMA LaneIs ==
  ASSUME Types, NEW f \in Frames, Consumed(f)
  PROVE  \/ control' = control /\ f.kind \in {"op", "ack", "reject"}
         \/ /\ f = control[1] /\ 1 \in DOMAIN control
            /\ \A i \in DOMAIN control' : i \in Nat /\ i >= 1 /\ i + 1 \in DOMAIN control /\ control'[i] = control[i + 1]
            /\ \A i \in DOMAIN control : i \in Nat /\ i >= 1 /\ (i > 1 => i - 1 \in DOMAIN control' /\ control'[i - 1] = control[i])
<1>1. control \in Seq(Frames)
  BY TypeParts
<1>2. CASE control # <<>> /\ f = control[1] /\ control' = Tail(control)
  BY <1>1, <1>2
<1> QED
  BY <1>2 DEF Consumed

\* One engine is made on a connection, and a catch-up follows it.
LEMMA HandlesRenewed ==
  ASSUME IInv, NEW floor \in Nat, Standing(floor), NEW f \in Frames, Handles(f)
  PROVE  RenewedOnce' /\ Chained'
<1>1. Types /\ control \in Seq(Frames) /\ gate \in Seq(Frames) /\ engine \in Engine
  BY TypeParts DEF IInv
<1>2. RenewedOnce /\ Chained
  BY DEF Standing
<1>3. /\ open /\ open' = open /\ conn' = conn /\ session' = session
      /\ engine'.replica = IF Renews(f) THEN conn ELSE engine.replica
      /\ gate' = IF Waits(f) THEN Append(gate, f) ELSE gate
  BY DEF Handles, Consumed, Aside
<1>4. /\ Renews(f) => f.kind \notin {"op", "ack", "reject"}
      /\ Waits(f) => ~Renews(f) /\ f.kind \notin {"op", "ack", "reject"}
  BY DEF Renews, Waits
<1>5. CASE control' = control /\ f.kind \in {"op", "ack", "reject"}
  <2>1. gate' = gate /\ engine'.replica = engine.replica
    BY <1>3, <1>4, <1>5
  <2> QED
    BY <1>2, <1>3, <1>5, <2>1 DEF RenewedOnce, Chained
<1>6. CASE /\ f = control[1] /\ 1 \in DOMAIN control
           /\ \A i \in DOMAIN control' : i \in Nat /\ i >= 1 /\ i + 1 \in DOMAIN control /\ control'[i] = control[i + 1]
           /\ \A i \in DOMAIN control : i \in Nat /\ i >= 1 /\ (i > 1 => i - 1 \in DOMAIN control' /\ control'[i - 1] = control[i])
  <2>1. RenewedOnce'
    <3>1. CASE Renews(f)
      <4>1. session[conn].stage \notin {"open", "catchup"}
        BY <1>2, <1>3, <1>6, <3>1 DEF RenewedOnce
      <4>2. \A i \in DOMAIN control' : ~Renews(control'[i])
        <5> SUFFICES ASSUME NEW i \in DOMAIN control', Renews(control'[i]) PROVE FALSE
          OBVIOUS
        <5>1. i + 1 \in DOMAIN control /\ Renews(control[i + 1]) /\ i + 1 # 1
          BY <1>6
        <5> QED
          BY <1>2, <1>6, <3>1, <5>1 DEF RenewedOnce
      <4> QED
        BY <1>3, <4>1, <4>2 DEF RenewedOnce
    <3>2. CASE ~Renews(f)
      <4>1. \A i \in DOMAIN control' : Renews(control'[i]) => i + 1 \in DOMAIN control /\ Renews(control[i + 1])
        BY <1>6
      <4>2. \A i, j \in DOMAIN control' : Renews(control'[i]) /\ Renews(control'[j]) => i = j
        <5> SUFFICES ASSUME NEW i \in DOMAIN control', NEW j \in DOMAIN control',
                            Renews(control'[i]), Renews(control'[j])
                     PROVE  i = j
          OBVIOUS
        <5>1. i + 1 = j + 1
          BY <1>2, <4>1 DEF RenewedOnce
        <5> QED
          BY <1>6, <5>1
      <4> QED
        BY <1>2, <1>3, <3>2, <4>1, <4>2 DEF RenewedOnce
    <3> QED
      BY <3>1, <3>2
  <2>2. ASSUME NEW i \in DOMAIN control', Waits(control'[i])
        PROVE  engine'.replica = conn \/ \E j \in 1..(i - 1) : Renews(control'[j])
    <3>1. i + 1 \in DOMAIN control /\ Waits(control[i + 1]) /\ i \in Nat
      BY <1>6, <2>2
    <3>2. engine.replica = conn \/ \E j \in 1..i : Renews(control[j])
      BY <1>2, <3>1 DEF Chained, Waits
    <3>3. CASE engine.replica = conn
      BY <1>3, <3>3
    <3>4. ASSUME NEW j \in 1..i, Renews(control[j])
          PROVE  engine'.replica = conn \/ \E l \in 1..(i - 1) : Renews(control'[l])
      <4>1. CASE j = 1
        BY <1>3, <1>6, <3>4, <4>1
      <4>2. CASE j # 1
        <5>1. j \in DOMAIN control /\ j > 1
          BY <1>1, <3>1, <4>2
        <5>2. Renews(control'[j - 1]) /\ j - 1 \in 1..(i - 1)
          BY <1>6, <3>1, <3>4, <5>1
        <5> QED
          BY <5>2
      <4> QED
        BY <4>1, <4>2
    <3> QED
      BY <3>2, <3>3, <3>4
  <2>3. gate' # <<>> => engine'.replica = conn
    <3>1. CASE Waits(f)
      <4>1. engine.replica = conn
        BY <1>2, <1>6, <3>1 DEF Chained, Waits
      <4> QED
        BY <1>3, <4>1
    <3>2. CASE ~Waits(f)
      BY <1>2, <1>3, <3>2 DEF Chained
    <3> QED
      BY <3>1, <3>2
  <2> QED
    BY <1>3, <2>1, <2>2, <2>3 DEF Chained, Waits
<1> QED
  BY <1>1, <1>5, <1>6, LaneIs DEF Handles

\* No chunk is lost on the way to the gate.
LEMMA HandlesCovers ==
  ASSUME IInv, IInv', NEW floor \in Nat, Standing(floor), NEW f \in Frames, Handles(f)
  PROVE  Sounds(floor)' /\ ControlCovers(floor)' /\ GateCovers(floor)'
<1>1. Types /\ control \in Seq(Frames) /\ gate \in Seq(Frames) /\ engine \in Engine
  BY TypeParts DEF IInv
<1>2. /\ RenewedOnce /\ Chained /\ Sounds(floor) /\ ControlCovers(floor) /\ GateCovers(floor)
      /\ \A i \in DOMAIN gate : i \in Nat
  BY <1>1 DEF Standing, Floor
<1>3. /\ open /\ conn' = conn /\ session' = session /\ log' = log
      /\ engine'.replica = IF Renews(f) THEN conn ELSE engine.replica
      /\ gate' = IF Waits(f) THEN Append(gate, f) ELSE gate
      /\ f \in ToSet(ops) \cup ToSet(control)
      /\ ToSet(ops') \subseteq ToSet(ops) /\ ToSet(control') \subseteq ToSet(control)
  BY DEF Handles, Consumed, Aside
<1>4. /\ Renews(f) => f.kind \notin {"op", "ack", "reject"}
      /\ Waits(f) => ~Renews(f) /\ f.kind \notin {"op", "ack", "reject"}
  BY DEF Renews, Waits
<1>5. /\ \A i \in DOMAIN gate : i \in DOMAIN gate' /\ gate'[i] = gate[i]
      /\ \A i \in DOMAIN gate' : \/ i \in DOMAIN gate /\ gate'[i] = gate[i]
                                 \/ Waits(f) /\ i = Len(gate) + 1 /\ gate'[i] = f
      /\ Waits(f) => Len(gate) + 1 \in DOMAIN gate' /\ gate'[Len(gate) + 1] = f
      /\ ToSet(gate') \subseteq ToSet(gate) \cup {f} /\ ToSet(gate) \subseteq ToSet(gate')
      /\ (Waits(f) => f \in ToSet(gate')) /\ Len(gate) \in Nat /\ DOMAIN gate = 1..Len(gate)
  <2>1. CASE Waits(f)
    <3>1. gate' = Append(gate, f)
      BY <1>3, <2>1
    <3>2. ToSet(gate') = ToSet(gate) \cup {f}
      BY <1>1, <3>1, Queues
    <3> QED
      BY <1>1, <2>1, <3>1, <3>2
  <2>2. CASE ~Waits(f)
    BY <1>1, <1>3, <2>2
  <2> QED
    BY <2>1, <2>2
<1>6. Sounds(floor)'
  <2>1. \A g : Sound(g, floor) => Sound(g, floor)'
    BY <1>3 DEF Sound, Foreign
  <2> QED
    BY <1>2, <1>3, <1>5, <2>1 DEF Sounds
<1>7. engine.replica = conn => engine'.replica = conn /\ seqs.seen <= seqs'.seen
  <2>1. Renews(f) => engine.replica # conn
    BY <1>1, <1>2, <1>3, <1>4, LaneIs DEF RenewedOnce, Handles
  <2> QED
    BY <1>3, <2>1 DEF Handles
<1>8. seqs.seen \in Nat /\ seqs'.seen \in Nat
  BY TypeParts, TypePartsNext DEF IInv, Seqs
<1>9. \A s \in Int : engine.replica = conn /\ s <= seqs.seen => engine'.replica = conn /\ s <= seqs'.seen
  BY <1>7, <1>8
<1>10. ASSUME NEW i \in DOMAIN control', control'[i].kind \in {"chunk", "end"},
              NEW s \in (floor + 1)..UpTo(control'[i])
       PROVE  \/ engine'.replica = conn /\ s <= seqs'.seen
              \/ \E g \in ToSet(gate') : Brings(g, s)
              \/ \E j \in 1..i : Brings(control'[j], s)
  <2>1. CASE control' = control /\ f.kind \in {"op", "ack", "reject"}
    <3>1. \/ engine.replica = conn /\ s <= seqs.seen
          \/ \E g \in ToSet(gate) : Brings(g, s)
          \/ \E j \in 1..i : Brings(control[j], s)
      BY <1>2, <1>10, <2>1 DEF ControlCovers
    <3> QED
      BY <1>5, <1>9, <2>1, <3>1
  <2>2. CASE /\ f = control[1] /\ 1 \in DOMAIN control
             /\ \A k \in DOMAIN control' : k \in Nat /\ k >= 1 /\ k + 1 \in DOMAIN control /\ control'[k] = control[k + 1]
             /\ \A k \in DOMAIN control : k \in Nat /\ k >= 1 /\ (k > 1 => k - 1 \in DOMAIN control' /\ control'[k - 1] = control[k])
    <3>1. i + 1 \in DOMAIN control /\ control'[i] = control[i + 1] /\ i \in Nat
      BY <2>2
    <3>2. \/ engine.replica = conn /\ s <= seqs.seen
          \/ \E g \in ToSet(gate) : Brings(g, s)
          \/ \E j \in 1..(i + 1) : Brings(control[j], s)
      BY <1>2, <1>10, <3>1 DEF ControlCovers
    <3>3. ASSUME NEW j \in 1..(i + 1), Brings(control[j], s)
          PROVE  (\E g \in ToSet(gate') : Brings(g, s)) \/ \E l \in 1..i : Brings(control'[l], s)
      <4>1. CASE j = 1
        <5>1. Waits(f)
          BY <2>2, <3>3, <4>1 DEF Waits, Brings
        <5> QED
          BY <1>5, <2>2, <3>3, <4>1, <5>1
      <4>2. CASE j # 1
        <5>1. j \in DOMAIN control /\ j > 1
          BY <1>1, <3>1, <4>2
        <5>2. control'[j - 1] = control[j] /\ j - 1 \in 1..i
          BY <2>2, <3>1, <5>1
        <5> QED
          BY <3>3, <5>2
      <4> QED
        BY <4>1, <4>2
    <3> QED
      BY <1>5, <1>9, <3>2, <3>3
  <2> QED
    BY <1>1, <2>1, <2>2, LaneIs DEF Handles
<1>11. ASSUME NEW i \in DOMAIN gate', gate'[i].kind \in {"chunk", "end"},
              NEW s \in (floor + 1)..UpTo(gate'[i])
       PROVE  s <= seqs'.seen \/ \E j \in 1..i : Brings(gate'[j], s)
  <2>1. CASE i \in DOMAIN gate /\ gate'[i] = gate[i]
    <3>1. s <= seqs.seen \/ \E j \in 1..i : Brings(gate[j], s)
      BY <1>2, <1>11, <2>1 DEF GateCovers
    <3>2. engine.replica = conn
      BY <1>1, <1>2, <2>1 DEF Chained
    <3>3. \A j \in 1..i : gate'[j] = gate[j]
      BY <1>5, <2>1
    <3> QED
      BY <1>9, <3>1, <3>2, <3>3
  <2>2. CASE Waits(f) /\ i = Len(gate) + 1 /\ gate'[i] = f
    <3>1. f = control[1] /\ 1 \in DOMAIN control
      BY <1>1, <1>4, <2>2, LaneIs DEF Handles
    <3>2. \/ engine.replica = conn /\ s <= seqs.seen
          \/ \E g \in ToSet(gate) : Brings(g, s)
          \/ \E j \in 1..1 : Brings(control[j], s)
      BY <1>2, <1>11, <2>2, <3>1 DEF ControlCovers
    <3>3. ASSUME NEW g \in ToSet(gate), Brings(g, s) PROVE \E j \in 1..i : Brings(gate'[j], s)
      <4>1. PICK j \in DOMAIN gate : g = gate[j]
        BY DEF ToSet
      <4>2. j \in 1..i /\ gate'[j] = g
        BY <1>5, <2>2, <4>1
      <4> QED
        BY <3>3, <4>2
    <3>4. ASSUME Brings(f, s) PROVE \E j \in 1..i : Brings(gate'[j], s)
      <4>1. i \in 1..i
        BY <1>5, <2>2
      <4> QED
        BY <2>2, <3>4, <4>1
    <3> QED
      BY <1>9, <3>1, <3>2, <3>3, <3>4
  <2> QED
    BY <1>5, <2>1, <2>2
<1> QED
  BY <1>3, <1>6, <1>10, <1>11 DEF ControlCovers, GateCovers

\* What is left to say when a frame is handled is what becomes of the engine and of
\* the record.
LEMMA HandlesStands ==
  ASSUME IInv, IInv', NEW floor \in Nat, Standing(floor), NEW f \in Frames, Handles(f),
         Held' \subseteq Held \cup ToSet(log), ToSet(unacked') \subseteq ToSet(unacked),
         Dry', Books', Claims', Recent(floor)', floor <= seqs'.applied
  PROVE  Standing(floor)'
<1>1. Types /\ Identity
  BY DEF IInv
<1>2. UNCHANGED <<log, parked, session, up, conn, typed, open>> /\ conn \in Nat
  BY <1>1, TypeParts, Bounds DEF Handles, Consumed, Aside
<1>3. LogCausal' /\ Elders'
  <2>1. LogCausal'
    BY <1>2 DEF Standing, LogCausal
  <2>2. Elders'
    BY <1>1, <1>2, EldersKept DEF Standing
  <2> QED
    BY <2>1, <2>2
<1>4. OneCopy'
  <2>1. \A m \in Connections : SentBy(m)' = SentBy(m)
    BY <1>2 DEF SentBy
  <2>2. Somewhere' \subseteq Somewhere
    BY <1>2, <2>1 DEF Somewhere
  <2> QED
    BY <2>2, OneCopyKept DEF Standing
<1>5. Heard(floor)'
  BY <1>2 DEF Standing, Floor, Heard
<1> QED
  BY <1>3, <1>4, <1>5, HandlesRenewed, HandlesCovers DEF Standing, Floor

\* Nothing that is claimed, and nothing it is claimed of, changes.
LEMMA SameRecord ==
  ASSUME NEW floor \in Nat, Standing(floor), UNCHANGED <<log, engine, seqs, conn>>
  PROVE  Dry' /\ Books' /\ Claims' /\ Recent(floor)' /\ Held' = Held /\ floor <= seqs'.applied
<1>1. Dry' /\ Held' = Held /\ Books'
  BY DEF Standing, Dry, Held, Books, Foreign
<1>2. Claims' /\ Recent(floor)' /\ floor <= seqs'.applied
  BY DEF Standing, Claims, Claim, Foreign, Floor, Recent, Late, Heard
<1> QED
  BY <1>1, <1>2

\* A new engine has what it is given of what is claimed.
LEMMA SeededClaims ==
  ASSUME IInv, NEW floor \in Nat, Standing(floor), NEW base \in SUBSET Operations,
         engine' = Seeded(conn, base), UNCHANGED <<log, conn>>,
         seqs' = ResetSeqs(seqs'.applied), seqs'.applied \in Nat, seqs'.applied <= Len(log),
         \A j \in (floor + 1)..seqs'.applied : Foreign(j) => log[j] \in base,
         \A j \in 1..seqs'.applied : Foreign(j)
           /\ (log[j].parent = Root \/ \E k \in 1..(j - 1) : log[k].id = log[j].parent /\ log[k] \in base)
             => log[j] \in base
  PROVE  Dry' /\ Books' /\ Claims' /\ Recent(floor)' /\ Held' = base /\ engine'.replica = conn
<1>1. conn \in 0..MaxConnections /\ log \in Seq(Operations)
  BY TypeParts DEF IInv
<1>2. PICK e \in Engine : e.replica = conn /\ e.nodes = {} /\ e.pending = {} /\ engine' = ApplyAll(e, base)
  <2>1. [NoEngine EXCEPT !.replica = conn] \in Engine
    BY <1>1 DEF NoEngine, Engine
  <2>2. /\ [NoEngine EXCEPT !.replica = conn].replica = conn /\ [NoEngine EXCEPT !.replica = conn].nodes = {}
        /\ [NoEngine EXCEPT !.replica = conn].pending = {}
    BY DEF NoEngine
  <2> QED
    BY <2>1, <2>2 DEF Seeded
<1>3. engine'.replica = conn /\ Held' = base
  BY <1>2, ApplyAllIs DEF Held, Engine
<1>4. Dry'
  BY <1>2, ApplyDry DEF Dry
<1>5. Books'
  <2>1. /\ seqs'.seen = seqs'.applied /\ seqs'.confirmed = {} /\ seqs'.livePending = {}
        /\ seqs'.catchupPending = {}
    BY DEF ResetSeqs
  <2> QED
    BY <2>1 DEF Books
<1>6. Recent(floor)'
  BY <1>3 DEF Recent, Late, Foreign, Held
<1>7. Claims'
  <2> SUFFICES ASSUME NEW j \in 1..seqs'.applied, Foreign(j),
                      log[j].parent = Root \/ \E k \in 1..(j - 1) : log[k].id = log[j].parent /\ log[k] \in engine'.nodes
               PROVE  log[j] \in engine'.nodes
    BY DEF Claims, Claim, Foreign
  <2>1. PICK N, P : N = engine'.nodes /\ P = engine'.pending /\ Resolved(N, P) = {}
    BY <1>4 DEF Dry
  <2>2. log[j] \in base
    BY <1>3 DEF Held
  <2>3. log[j].parent \in IdsOf(N) \cup {Root}
    BY <2>1 DEF IdsOf
  <2>4. log[j] \notin P
    BY <2>1, <2>3, DryWaits
  <2> QED
    BY <1>3, <2>1, <2>2, <2>4 DEF Held
<1> QED
  BY <1>3, <1>4, <1>5, <1>6, <1>7

\* An engine made from the clean base has what the one before it had of the others.
LEMMA RebuildClaims ==
  ASSUME IInv, NEW floor \in Nat, Standing(floor), Rebuild, UNCHANGED <<log, conn>>,
         engine.replica # conn
  PROVE  /\ Dry' /\ Books' /\ Claims' /\ Recent(floor)' /\ Held' \subseteq Held
         /\ engine'.replica = conn /\ floor <= seqs'.applied
<1>1. engine \in Engine /\ seqs.applied \in Nat /\ unacked \in Seq(Operations) /\ log \in Seq(Operations)
      /\ DOMAIN log = 1..Len(log) /\ Len(log) \in Nat
  BY TypeParts DEF IInv, Seqs
<1>2. PICK base \in SUBSET Operations :
        /\ base = CleanCatchupBase(engine.nodes, unacked) /\ base \subseteq engine.nodes
        /\ \A o \in engine.nodes : o.id[2] = 0 => o \in base
  <2>1. \A o \in ToSet(unacked) : o.id[2] # 0
    BY DEF IInv, Identity, Descent, Descends
  <2>2. \A o \in engine.nodes : o.id[2] = 0 => o.id \notin IdsOf(ToSet(unacked))
    BY <2>1 DEF IdsOf
  <2>3. engine.nodes \in SUBSET Operations
    BY <1>1 DEF Engine
  <2>4. PICK base : base = {o \in engine.nodes : o.id \notin IdsOf(ToSet(unacked))}
    OBVIOUS
  <2>5. base = CleanCatchupBase(engine.nodes, unacked)
    BY <2>4 DEF CleanCatchupBase
  <2>6. base \in SUBSET Operations /\ base \subseteq engine.nodes /\ \A o \in engine.nodes : o.id[2] = 0 => o \in base
    BY <2>2, <2>3, <2>4
  <2> QED
    BY <2>5, <2>6
<1>3. engine' = Seeded(conn, base) /\ seqs' = ResetSeqs(seqs.applied) /\ seqs'.applied = seqs.applied
  BY <1>2 DEF Rebuild, ResetSeqs
<1>4. seqs.applied <= Len(log) /\ floor <= seqs.applied
  BY DEF Standing, Books, Floor, Heard
<1>5. \A j \in (floor + 1)..seqs.applied : Foreign(j) => log[j] \in base
  BY <1>2 DEF Standing, Floor, Recent, Late, Foreign
<1>6. \A j \in 1..seqs.applied : Foreign(j)
        /\ (log[j].parent = Root \/ \E k \in 1..(j - 1) : log[k].id = log[j].parent /\ log[k] \in base)
          => log[j] \in base
  <2> SUFFICES ASSUME NEW j \in 1..seqs.applied, Foreign(j),
                      log[j].parent = Root \/ \E k \in 1..(j - 1) : log[k].id = log[j].parent /\ log[k] \in base
               PROVE  log[j] \in base
    OBVIOUS
  <2>1. log[j] \in engine.nodes
    BY <1>2 DEF Standing, Claims, Claim
  <2> QED
    BY <1>2, <2>1 DEF Foreign
<1>7. Dry' /\ Books' /\ Claims' /\ Recent(floor)' /\ Held' = base /\ engine'.replica = conn
  BY <1>1, <1>3, <1>4, <1>5, <1>6, SeededClaims
<1> QED
  BY <1>2, <1>3, <1>4, <1>7 DEF Held

\* The engine of a connection is made when it has none yet.
LEMMA RenewsFirst ==
  ASSUME IInv, NEW floor \in Nat, Standing(floor), NEW f \in Frames, Consumed(f), Renews(f)
  PROVE  engine.replica # conn
<1>1. f = control[1] /\ 1 \in DOMAIN control /\ open
  BY LaneIs DEF IInv, Consumed, Renews
<1> QED
  BY <1>1 DEF Standing, RenewedOnce

\* WELCOME.
LEMMA WelcomeStands ==
  ASSUME IInv, IInv', NEW floor \in Nat, Standing(floor), ReceiveWelcome
  PROVE  Standing(floor)'
<1>1. PICK f \in Frames : f = Frame /\ f.kind = "welcome" /\ Consumed(f)
  BY ReceivesIs DEF ReceiveWelcome, IInv
<1>2. UNCHANGED <<log, conn, unacked, gate>> /\ ~Waits(f) /\ (Renews(f) <=> f.mode = "current")
  BY <1>1 DEF ReceiveWelcome, Consumed, Aside, Waits, Renews
<1>3. CASE Renews(f)
  <2>1. Rebuild
    BY <1>1, <1>2, <1>3 DEF ReceiveWelcome
  <2>2. engine.replica # conn
    BY <1>1, <1>3, RenewsFirst
  <2>3. /\ Dry' /\ Books' /\ Claims' /\ Recent(floor)' /\ Held' \subseteq Held
        /\ engine'.replica = conn /\ floor <= seqs'.applied
    BY <1>2, <2>1, <2>2, RebuildClaims
  <2>4. Handles(f)
    BY <1>1, <1>2, <1>3, <2>3 DEF Handles
  <2> QED
    BY <1>2, <2>3, <2>4, HandlesStands
<1>4. CASE ~Renews(f)
  <2>1. UNCHANGED <<engine, seqs>>
    BY <1>1, <1>2, <1>4 DEF ReceiveWelcome
  <2>2. Dry' /\ Books' /\ Claims' /\ Recent(floor)' /\ Held' = Held /\ floor <= seqs'.applied
    BY <1>2, <2>1, SameRecord
  <2>3. Handles(f)
    <3>1. seqs.seen \in Nat
      BY TypeParts DEF IInv, Seqs
    <3> QED
      BY <1>1, <1>2, <1>4, <2>1, <3>1 DEF Handles
  <2> QED
    BY <1>2, <2>2, <2>3, HandlesStands
<1> QED
  BY <1>3, <1>4

\* A catch-up begins.
LEMMA BeginStands ==
  ASSUME IInv, IInv', NEW floor \in Nat, Standing(floor), ReceiveBegin
  PROVE  Standing(floor)'
<1>1. PICK f \in Frames : f = Frame /\ f.kind = "begin" /\ Consumed(f)
  BY ReceivesIs DEF ReceiveBegin, IInv
<1>2. UNCHANGED <<log, conn, unacked, gate>> /\ ~Waits(f) /\ Renews(f) /\ Rebuild
  BY <1>1 DEF ReceiveBegin, Consumed, Aside, Waits, Renews
<1>3. engine.replica # conn
  BY <1>1, <1>2, RenewsFirst
<1>4. /\ Dry' /\ Books' /\ Claims' /\ Recent(floor)' /\ Held' \subseteq Held
      /\ engine'.replica = conn /\ floor <= seqs'.applied
  BY <1>2, <1>3, RebuildClaims
<1>5. Handles(f)
  BY <1>1, <1>2, <1>4 DEF Handles
<1> QED
  BY <1>2, <1>4, <1>5, HandlesStands

\* A snapshot is the log up to its number.
LEMMA SnapshotStands ==
  ASSUME IInv, IInv', NEW floor \in Nat, Standing(floor), ReceiveSnapshot
  PROVE  Standing(floor)'
<1>1. PICK f \in Frames : f = Frame /\ f.kind = "snapshot" /\ Consumed(f)
  BY ReceivesIs DEF ReceiveSnapshot, IInv
<1>2. /\ UNCHANGED <<log, conn, unacked, gate>> /\ ~Waits(f) /\ Renews(f)
      /\ engine' = Seeded(conn, f.nodes) /\ seqs' = ResetSeqs(f.seq)
  BY <1>1 DEF ReceiveSnapshot, Consumed, Aside, Waits, Renews
<1>3. f.seq \in floor..Len(log) /\ f.nodes = {log[i] : i \in 1..f.seq}
  BY <1>1 DEF Consumed, Standing, Floor, Sounds, Sound
<1>4. seqs'.applied = f.seq /\ f.seq \in Nat /\ f.seq <= Len(log) /\ floor <= f.seq /\ f.nodes \in SUBSET Operations
  <2>1. f.seq \in Nat /\ f.nodes \in SUBSET Operations
    BY <1>1, FrameFields
  <2>2. Len(log) \in Nat
    BY TypeParts DEF IInv
  <2> QED
    BY <1>2, <1>3, <2>1, <2>2 DEF ResetSeqs
<1>5. \A j \in 1..f.seq : log[j] \in f.nodes
  BY <1>3
<1>6. Dry' /\ Books' /\ Claims' /\ Recent(floor)' /\ Held' = f.nodes /\ engine'.replica = conn
  BY <1>2, <1>4, <1>5, SeededClaims
<1>7. f.nodes \subseteq ToSet(log)
  <2>1. DOMAIN log = 1..Len(log) /\ Len(log) \in Nat
    BY TypeParts DEF IInv
  <2> QED
    BY <1>3, <1>4, <2>1 DEF ToSet
<1>8. Handles(f)
  BY <1>1, <1>2, <1>6 DEF Handles
<1> QED
  BY <1>2, <1>4, <1>6, <1>7, <1>8, HandlesStands

\* A chunk, the end of a catch-up and ALREADY_HAVE wait.
LEMMA ChainedStands ==
  ASSUME IInv, IInv', NEW floor \in Nat, Standing(floor), ReceiveChained
  PROVE  Standing(floor)'
<1>1. PICK kind \in {"chunk", "end", "have"} : Receives(kind)
  BY DEF ReceiveChained
<1>2. PICK f \in Frames : f = Frame /\ f.kind = kind /\ Consumed(f)
  BY <1>1, ReceivesIs DEF IInv
<1>3. UNCHANGED <<log, conn, unacked, engine, seqs>> /\ gate' = Append(gate, f) /\ Waits(f) /\ ~Renews(f)
  BY <1>1, <1>2 DEF ReceiveChained, Consumed, Aside, Waits, Renews
<1>4. Dry' /\ Books' /\ Claims' /\ Recent(floor)' /\ Held' = Held /\ floor <= seqs'.applied
  BY <1>3, SameRecord
<1>5. Handles(f)
  <2>1. seqs.seen \in Nat
    BY TypeParts DEF IInv, Seqs
  <2> QED
    BY <1>2, <1>3, <2>1 DEF Handles
<1> QED
  BY <1>3, <1>4, <1>5, HandlesStands

\* An acknowledgement confirms an entry of the client's own.
LEMMA AckStands ==
  ASSUME IInv, IInv', NEW floor \in Nat, Standing(floor), ReceiveAck
  PROVE  Standing(floor)'
<1>1. PICK f \in Frames : f = Frame /\ f.kind = "ack" /\ Consumed(f)
  BY ReceivesIs DEF ReceiveAck, IInv
<1>2. PICK q : /\ q = [seqs EXCEPT !.confirmed = @ \cup {f.seq}]
               /\ seqs' = AdvanceLiveSeqCeiling(q, engine)
  BY <1>1 DEF ReceiveAck
<1>3. /\ UNCHANGED <<log, conn, engine, gate>> /\ ~Waits(f) /\ ~Renews(f)
      /\ ToSet(unacked') \subseteq ToSet(unacked)
  <2>1. unacked' = Without(unacked, f.id) /\ unacked \in Seq(Operations)
    BY <1>1, TypeParts DEF ReceiveAck, IInv
  <2>2. PICK S : unacked' = Dropped(unacked, S)
    BY <2>1 DEF Without
  <2>3. ToSet(Dropped(unacked, S)) = ToSet(unacked) \ S
    BY <2>1, DroppedIs
  <2>4. ToSet(unacked') \subseteq ToSet(unacked)
    BY <2>2, <2>3
  <2> QED
    BY <1>1, <2>4 DEF ReceiveAck, Consumed, Aside, Waits, Renews
<1>4. f.seq \in DOMAIN log /\ ~Foreign(f.seq) /\ f.seq \in Nat
  BY <1>1, FrameFields DEF Consumed, Standing, Floor, Sounds, Sound
<1>5. /\ q \in Seqs /\ q.confirmed = seqs.confirmed \cup {f.seq} /\ q.livePending = seqs.livePending
      /\ q.applied = seqs.applied /\ q.seen = seqs.seen /\ q.catchupPending = seqs.catchupPending
      /\ IsFiniteSet(q.confirmed) /\ IsFiniteSet(q.livePending)
  <2>1. seqs \in Seqs /\ IsFiniteSet(seqs.confirmed) /\ IsFiniteSet(seqs.livePending)
    BY TypeParts DEF IInv
  <2>2. IsFiniteSet(seqs.confirmed \cup {f.seq})
    BY <2>1, FS_AddElement
  <2> QED
    BY <1>2, <1>4, <2>1, <2>2 DEF Seqs
<1>6. Dry' /\ Steady /\ Books
  BY <1>3 DEF Standing, Dry, Steady, Held
<1>7. /\ \A n \in q.confirmed : n \in DOMAIN log /\ (Foreign(n) => log[n] \in engine'.nodes)
      /\ \A p \in q.livePending : p.seq \in DOMAIN log /\ p.op = log[p.seq]
                                  /\ (Foreign(p.seq) => p.op \in Held')
  BY <1>3, <1>4, <1>5, <1>6 DEF Books, Held
<1>8. /\ \A j \in 1..seqs.applied : Claim(j)'
      /\ \A j \in (floor + 1)..seqs.applied : Late(j)'
  BY <1>3 DEF Standing, Floor, Claims, Claim, Recent, Late, Foreign
<1>9. Books' /\ Claims' /\ Recent(floor)' /\ seqs.applied <= seqs'.applied /\ seqs'.seen = seqs.seen
  <2>1. seqs' = AdvanceLiveSeqCeiling(q, engine') /\ log' = log /\ Types /\ Types'
    BY <1>2, <1>3 DEF IInv
  <2> QED
    BY <1>5, <1>6, <1>7, <1>8, <2>1, LiveCeiling
<1>10. seqs.seen \in Nat /\ seqs.applied \in Nat /\ seqs'.applied \in Nat /\ floor <= seqs.applied
  BY TypeParts, TypePartsNext DEF IInv, Seqs, Standing, Floor, Heard
<1>11. Handles(f)
  BY <1>1, <1>3, <1>9, <1>10 DEF Handles
<1>12. Held' = Held /\ floor <= seqs'.applied
  BY <1>3, <1>9, <1>10 DEF Held
<1> QED
  BY <1>3, <1>6, <1>9, <1>11, <1>12, HandlesStands

\* An operation of the log is confirmed, or noted until it is integrated.
LEMMA OperationStands ==
  ASSUME IInv, IInv', NEW floor \in Nat, Standing(floor), ReceiveOp
  PROVE  Standing(floor)'
<1>1. PICK f \in Frames : f = Frame /\ f.kind = "op" /\ Consumed(f)
  BY ReceivesIs DEF ReceiveOp, IInv
<1>2. UNCHANGED <<log, conn, gate, unacked>> /\ ~Waits(f) /\ ~Renews(f)
  BY <1>1 DEF ReceiveOp, Consumed, Aside, Waits, Renews
<1>3. CASE ~HasEngine
  <2>1. UNCHANGED <<engine, seqs>>
    BY <1>3 DEF ReceiveOp
  <2>2. Dry' /\ Books' /\ Claims' /\ Recent(floor)' /\ Held' = Held /\ floor <= seqs'.applied
    BY <1>2, <2>1, SameRecord
  <2>3. Handles(f)
    <3>1. seqs.seen \in Nat
      BY TypeParts DEF IInv, Seqs
    <3> QED
      BY <1>1, <1>2, <2>1, <3>1 DEF Handles
  <2> QED
    BY <1>2, <2>2, <2>3, HandlesStands
<1>4. CASE HasEngine
  <2>1. f.seq \in DOMAIN log /\ f.seq > floor /\ f.op = log[f.seq] /\ f.seq \in Nat /\ f.op \in Operations
    BY <1>1, FrameFields DEF Consumed, Standing, Floor, Sounds, Sound
  <2>2. PICK entry \in Numbered : entry = [seq |-> f.seq, op |-> f.op] /\ entry.seq = f.seq /\ entry.op = f.op
    <3>1. [seq |-> f.seq, op |-> f.op] \in Numbered
      BY <2>1 DEF Numbered
    <3> QED
      BY <3>1
  <2>3. PICK q : /\ q = IF f.op \in engine'.pending THEN [seqs EXCEPT !.livePending = @ \cup {entry}]
                        ELSE [seqs EXCEPT !.confirmed = @ \cup {f.seq}]
                 /\ seqs' = AdvanceLiveSeqCeiling(q, engine')
                 /\ engine' = ApplyAll(engine, {f.op})
    BY <1>1, <1>4, <2>2 DEF ReceiveOp
  <2>4. /\ q \in Seqs /\ q.applied = seqs.applied /\ q.seen = seqs.seen
        /\ q.catchupPending = seqs.catchupPending
        /\ IsFiniteSet(q.confirmed) /\ IsFiniteSet(q.livePending)
        /\ \A n \in q.confirmed : n \in seqs.confirmed \/ (n = f.seq /\ f.op \notin engine'.pending)
        /\ \A p \in q.livePending : p \in seqs.livePending \/ p = entry
    <3>1. seqs \in Seqs /\ IsFiniteSet(seqs.confirmed) /\ IsFiniteSet(seqs.livePending)
      BY TypeParts DEF IInv
    <3>2. IsFiniteSet(seqs.confirmed \cup {f.seq}) /\ IsFiniteSet(seqs.livePending \cup {entry})
      BY <3>1, FS_AddElement
    <3>3. CASE f.op \in engine'.pending
      <4>1. q = [seqs EXCEPT !.livePending = seqs.livePending \cup {entry}]
        BY <2>3, <3>3
      <4> QED
        BY <3>1, <3>2, <4>1 DEF Seqs
    <3>4. CASE f.op \notin engine'.pending
      <4>1. q = [seqs EXCEPT !.confirmed = seqs.confirmed \cup {f.seq}]
        BY <2>3, <3>4
      <4> QED
        BY <2>1, <3>1, <3>2, <3>4, <4>1 DEF Seqs
    <3> QED
      BY <3>3, <3>4
  <2>5. /\ Dry' /\ engine.nodes \subseteq engine'.nodes /\ Held' = Held \cup {f.op}
        /\ engine'.replica = engine.replica
        /\ \A j \in 1..seqs.applied : Claim(j)'
        /\ \A j \in (floor + 1)..seqs.applied : Late(j)'
    <3>1. Types /\ LoggedOnce /\ LogCausal /\ OneCopy /\ Dry /\ Claims /\ Recent(floor)
          /\ seqs.applied <= Len(log)
      BY DEF IInv, Identity, Standing, Floor, Books
    <3>2. {f.op} \in SUBSET Operations /\ \A o \in {f.op} : \E m \in DOMAIN log : m > floor /\ o = log[m]
      BY <2>1
    <3> QED
      BY <1>2, <2>3, <3>1, <3>2, ArrivalClaims
  <2>6. Steady /\ Books
    BY <2>5 DEF Steady, Standing
  <2>7. /\ \A n \in q.confirmed : n \in DOMAIN log /\ (Foreign(n) => log[n] \in engine'.nodes)
        /\ \A p \in q.livePending : p.seq \in DOMAIN log /\ p.op = log[p.seq]
                                    /\ (Foreign(p.seq) => p.op \in Held')
    BY <2>1, <2>2, <2>4, <2>5, <2>6 DEF Books, Held
  <2>8. Books' /\ Claims' /\ Recent(floor)' /\ seqs.applied <= seqs'.applied /\ seqs'.seen = seqs.seen
    <3>1. log' = log /\ Types /\ Types' /\ seqs' = AdvanceLiveSeqCeiling(q, engine')
      BY <1>2, <2>3 DEF IInv
    <3> QED
      BY <2>4, <2>5, <2>6, <2>7, <3>1, LiveCeiling
  <2>9. seqs.seen \in Nat /\ seqs.applied \in Nat /\ seqs'.applied \in Nat /\ floor <= seqs.applied
    BY TypeParts, TypePartsNext DEF IInv, Seqs, Standing, Floor, Heard
  <2>10. Handles(f)
    BY <1>1, <1>2, <2>5, <2>8, <2>9 DEF Handles
  <2>11. Held' \subseteq Held \cup ToSet(log) /\ floor <= seqs'.applied
    BY <2>1, <2>5, <2>8, <2>9 DEF ToSet
  <2> QED
    BY <1>2, <2>5, <2>8, <2>10, <2>11, HandlesStands
<1> QED
  BY <1>3, <1>4

\* A rejection takes an operation of the client's own out of the engine, if nothing
\* hangs under it.
LEMMA RejectStands ==
  ASSUME IInv, IInv', NEW floor \in Nat, Standing(floor), ReceiveReject
  PROVE  Standing(floor)'
<1>1. PICK f \in Frames : f = Frame /\ f.kind = "reject" /\ Consumed(f)
  BY ReceivesIs DEF ReceiveReject, IInv
<1>2. /\ UNCHANGED <<log, conn, gate, seqs>> /\ ~Waits(f) /\ ~Renews(f)
      /\ engine' = Reverted(engine, f.op) /\ unacked' = Without(unacked, f.op.id)
  BY <1>1 DEF ReceiveReject, Consumed, Aside, Waits, Renews
<1>3. ToSet(unacked') \subseteq ToSet(unacked)
  <2>1. unacked \in Seq(Operations)
    BY TypeParts DEF IInv
  <2>2. PICK S : unacked' = Dropped(unacked, S)
    BY <1>2 DEF Without
  <2>3. ToSet(Dropped(unacked, S)) = ToSet(unacked) \ S
    BY <2>1, DroppedIs
  <2> QED
    BY <2>2, <2>3
<1>4. f.op.id[2] # 0
  <2>1. f.op \in Operations
    BY <1>1, FrameFields
  <2>2. f.op.id[1] \in 1..typed
    BY <1>1 DEF IInv, Fates, Answers, Answerable, Consumed
  <2>3. f.op.id[1] <= MaxEdits
    <3>1. typed \in 0..MaxEdits
      BY TypeParts DEF IInv
    <3> QED
      BY <2>2, <3>1, Bounds
  <2> QED
    BY <2>1, <2>3, OperationFields, IdFields, Bounds
<1>5. /\ engine'.nodes \subseteq engine.nodes /\ engine'.pending = engine.pending
      /\ engine'.replica = engine.replica
      /\ \A o \in engine.nodes : o.id[2] = 0 => o \in engine'.nodes
  <2>1. engine \in Engine
    BY TypeParts DEF IInv
  <2>2. CASE \E o \in engine.nodes : o.parent = f.op.id
    BY <1>2, <2>2 DEF Reverted
  <2>3. CASE ~\E o \in engine.nodes : o.parent = f.op.id
    <3>1. engine' = [engine EXCEPT !.nodes = engine.nodes \ {f.op}]
      BY <1>2, <2>3 DEF Reverted
    <3> QED
      BY <1>4, <2>1, <3>1 DEF Engine
  <2> QED
    BY <2>2, <2>3
<1>6. Dry'
  <2>1. PICK N, P, M : N = engine.nodes /\ P = engine.pending /\ M = engine'.nodes /\ M \subseteq N
                       /\ engine'.pending = P
    BY <1>5
  <2>2. PICK R : R = Resolved(M, P)
    OBVIOUS
  <2>3. R \subseteq P /\ \A o \in R : o.parent \in IdsOf(M \cup R) \cup {Root}
    <3>1. Greatest(R, M, P)
      BY <2>2, ResolvedIs
    <3> QED
      BY <3>1 DEF Greatest
  <2>4. IdsOf(M \cup R) \subseteq IdsOf(N \cup R)
    BY <2>1 DEF IdsOf
  <2>5. R \subseteq Resolved(N, P)
    <3>1. Greatest(Resolved(N, P), N, P)
      BY ResolvedIs
    <3>2. R \in SUBSET P /\ \A o \in R : o.parent \in IdsOf(N \cup R) \cup {Root}
      BY <2>3, <2>4
    <3> QED
      BY <3>1, <3>2 DEF Greatest
  <2>6. Resolved(N, P) = {} /\ N \cap P = {}
    BY <2>1 DEF Standing, Dry
  <2> QED
    BY <2>1, <2>2, <2>5, <2>6 DEF Dry
<1>7. Held' \subseteq Held
  BY <1>5 DEF Held
<1>8. Steady /\ Extended
  <2>1. log \in Seq(Operations) /\ Len(log) \in Nat
    BY TypeParts DEF IInv
  <2> QED
    BY <1>2, <1>5, <2>1 DEF Steady, Extended, Foreign, Held
<1>9. Books'
  BY <1>2, <1>8, BooksKept DEF Standing, IInv
<1>10. Claims'
  <2> SUFFICES ASSUME NEW j \in 1..seqs.applied, Foreign(j),
                      log[j].parent = Root \/ \E k \in 1..(j - 1) : log[k].id = log[j].parent /\ log[k] \in engine'.nodes
               PROVE  log[j] \in engine'.nodes
    BY <1>2 DEF Claims, Claim, Foreign
  <2>1. log[j] \in engine.nodes
    BY <1>5 DEF Standing, Claims, Claim
  <2> QED
    BY <1>5, <2>1 DEF Foreign
<1>11. Recent(floor)' /\ floor <= seqs'.applied
  BY <1>2, <1>5 DEF Standing, Floor, Heard, Recent, Late, Foreign
<1>12. Handles(f)
  <2>1. seqs.seen \in Nat
    BY TypeParts DEF IInv, Seqs
  <2> QED
    BY <1>1, <1>2, <1>5, <2>1 DEF Handles
<1> QED
  BY <1>3, <1>6, <1>7, <1>9, <1>10, <1>11, <1>12, HandlesStands

\* What is received.
LEMMA ReceiveStands ==
  ASSUME IInv, IInv', NEW floor \in Nat, Standing(floor), Receive
  PROVE  Standing(floor)'
BY WelcomeStands, SnapshotStands, BeginStands, ChainedStands, AckStands, RejectStands, OperationStands
   DEF Receive

-----------------------------------------------------------------------------
(* What the client claims: callbacks *)

\* The first of the gate was run, or gave way to a macrotask.
RanFirst ==
  \E d \in {0, 1} :
    /\ \A i \in DOMAIN gate' : i \in Nat /\
         \/ gate'[i].kind = "yield"
         \/ i + d \in DOMAIN gate /\ gate'[i] = gate[i + d]
    /\ \A j \in DOMAIN gate : j \in Nat /\ (j # 1 => j - d \in DOMAIN gate' /\ gate'[j - d] = gate[j])

\* That is what a gate without its first is, and one that begins with a macrotask.
LEMMA RanFirstWhen ==
  ASSUME Types, gate # <<>>,
         \/ gate' = Tail(gate)
         \/ gate' = <<[kind |-> "yield"]>> \o Tail(gate)
  PROVE  RanFirst
<1>1. gate \in Seq(Frames) /\ Tail(gate) \in Seq(Frames) /\ Len(gate) \in Nat /\ Len(gate) >= 1
      /\ DOMAIN gate = 1..Len(gate) /\ DOMAIN Tail(gate) = 1..(Len(gate) - 1)
      /\ \A i \in 1..(Len(gate) - 1) : Tail(gate)[i] = gate[i + 1]
  BY TypeParts
<1>2. CASE gate' = Tail(gate)
  <2>1. \A i \in DOMAIN gate' : i \in Nat /\ i + 1 \in DOMAIN gate /\ gate'[i] = gate[i + 1]
    BY <1>1, <1>2
  <2>2. \A j \in DOMAIN gate : j \in Nat /\ (j # 1 => j - 1 \in DOMAIN gate' /\ gate'[j - 1] = gate[j])
    <3> SUFFICES ASSUME NEW j \in DOMAIN gate
                 PROVE  j \in Nat /\ (j # 1 => j - 1 \in DOMAIN gate' /\ gate'[j - 1] = gate[j])
      OBVIOUS
    <3>1. j \in Nat /\ j >= 1 /\ (j # 1 => j - 1 \in 1..(Len(gate) - 1))
      BY <1>1
    <3> QED
      BY <1>1, <1>2, <3>1
  <2> QED
    BY <2>1, <2>2 DEF RanFirst
<1>3. CASE gate' = <<[kind |-> "yield"]>> \o Tail(gate)
  <2>1. PICK yield \in Frames : yield = [kind |-> "yield"] /\ yield.kind = "yield"
    BY DEF Frames
  <2>2. PICK rest \in Seq(Frames) : rest = Tail(gate) /\ Len(rest) = Len(gate) - 1
                                    /\ \A i \in 1..Len(rest) : rest[i] = gate[i + 1]
    <3>1. Len(Tail(gate)) = Len(gate) - 1
      BY <1>1
    <3> QED
      BY <1>1, <3>1
  <2>3. /\ gate' = <<yield>> \o rest
        /\ DOMAIN gate' = 1..Len(gate) /\ gate'[1] = yield
        /\ \A i \in 2..Len(gate) : gate'[i] = rest[i - 1]
    BY <1>1, <1>3, <2>1, <2>2
  <2>4. \A i \in 2..Len(gate) : gate'[i] = gate[i]
    <3> SUFFICES ASSUME NEW i \in 2..Len(gate) PROVE gate'[i] = gate[i]
      OBVIOUS
    <3>1. i - 1 \in 1..Len(rest) /\ (i - 1) + 1 = i
      BY <1>1, <2>2
    <3>2. rest[i - 1] = gate[(i - 1) + 1]
      BY <2>2, <3>1
    <3> QED
      BY <2>3, <3>1, <3>2
  <2>5. \A i \in DOMAIN gate' : i \in Nat /\ (gate'[i].kind = "yield" \/ (i + 0 \in DOMAIN gate /\ gate'[i] = gate[i + 0]))
    <3> SUFFICES ASSUME NEW i \in 1..Len(gate)
                 PROVE  gate'[i].kind = "yield" \/ (i + 0 \in DOMAIN gate /\ gate'[i] = gate[i + 0])
      BY <2>3
    <3>1. (i = 1 \/ i \in 2..Len(gate)) /\ i + 0 = i /\ i \in DOMAIN gate
      BY <1>1
    <3> QED
      BY <2>1, <2>3, <2>4, <3>1
  <2>6. \A j \in DOMAIN gate : j \in Nat /\ (j # 1 => j - 0 \in DOMAIN gate' /\ gate'[j - 0] = gate[j])
    <3> SUFFICES ASSUME NEW j \in DOMAIN gate
                 PROVE  j \in Nat /\ (j # 1 => j - 0 \in DOMAIN gate' /\ gate'[j - 0] = gate[j])
      OBVIOUS
    <3>1. j \in 1..Len(gate) /\ j \in Nat /\ j - 0 = j /\ (j # 1 => j \in 2..Len(gate))
      BY <1>1
    <3> QED
      BY <2>3, <2>4, <3>1
  <2> QED
    BY <2>5, <2>6 DEF RanFirst
<1> QED
  BY <1>2, <1>3

\* Nothing of the log is passed over when a callback has run.
LEMMA RanCovers ==
  ASSUME Types, Types', NEW floor \in Nat, Sounds(floor), GateCovers(floor), ControlCovers(floor),
         gate # <<>>, RanFirst, engine.replica = conn, engine'.replica = engine.replica,
         UNCHANGED <<log, ops, control, conn>>,
         seqs.seen <= seqs'.seen, \A s \in Int : Brings(gate[1], s) => s <= seqs'.seen
  PROVE  Sounds(floor)' /\ GateCovers(floor)' /\ ControlCovers(floor)'
<1>1. gate \in Seq(Frames) /\ seqs.seen \in Nat /\ seqs'.seen \in Nat
  BY TypeParts, TypePartsNext DEF Seqs
<1>2. PICK d \in {0, 1} :
        /\ \A i \in DOMAIN gate' : i \in Nat /\
             \/ gate'[i].kind = "yield"
             \/ i + d \in DOMAIN gate /\ gate'[i] = gate[i + d]
        /\ \A j \in DOMAIN gate : j \in Nat /\ (j # 1 => j - d \in DOMAIN gate' /\ gate'[j - d] = gate[j])
  BY DEF RanFirst
<1>3. Sounds(floor)'
  <2>1. \A g : Sound(g, floor) => Sound(g, floor)'
    BY DEF Sound, Foreign
  <2>2. \A g \in ToSet(gate') : g.kind = "yield" \/ g \in ToSet(gate)
    BY <1>2 DEF ToSet
  <2>3. \A g : g.kind = "yield" => Sound(g, floor)'
    BY DEF Sound
  <2> QED
    BY <2>1, <2>2, <2>3 DEF Sounds
<1>4. ControlCovers(floor)'
  <2> SUFFICES ASSUME NEW i \in DOMAIN control, control[i].kind \in {"chunk", "end"},
                      NEW s \in (floor + 1)..UpTo(control[i])
               PROVE  \/ s <= seqs'.seen
                      \/ \E g \in ToSet(gate') : Brings(g, s)
                      \/ \E j \in 1..i : Brings(control[j], s)
    BY DEF ControlCovers
  <2>1. \/ s <= seqs.seen
        \/ \E g \in ToSet(gate) : Brings(g, s)
        \/ \E j \in 1..i : Brings(control[j], s)
    BY DEF ControlCovers
  <2>2. ASSUME NEW g \in ToSet(gate), Brings(g, s)
        PROVE  s <= seqs'.seen \/ \E h \in ToSet(gate') : Brings(h, s)
    <3>1. PICK j \in DOMAIN gate : g = gate[j]
      BY DEF ToSet
    <3>2. CASE j = 1
      BY <2>2, <3>1, <3>2
    <3>3. CASE j # 1
      <4>1. j - d \in DOMAIN gate' /\ gate'[j - d] = g
        BY <1>2, <3>1, <3>3
      <4>2. g \in ToSet(gate')
        BY <4>1 DEF ToSet
      <4> QED
        BY <2>2, <4>2
    <3> QED
      BY <3>2, <3>3
  <2> QED
    BY <1>1, <2>1, <2>2
<1>5. GateCovers(floor)'
  <2> SUFFICES ASSUME NEW i \in DOMAIN gate', gate'[i].kind \in {"chunk", "end"},
                      NEW s \in (floor + 1)..UpTo(gate'[i])
               PROVE  s <= seqs'.seen \/ \E j \in 1..i : Brings(gate'[j], s)
    BY DEF GateCovers
  <2>1. i + d \in DOMAIN gate /\ gate'[i] = gate[i + d] /\ i \in Nat
    BY <1>2
  <2>2. s <= seqs.seen \/ \E j \in 1..(i + d) : Brings(gate[j], s)
    BY <2>1 DEF GateCovers
  <2>3. ASSUME NEW j \in 1..(i + d), Brings(gate[j], s)
        PROVE  s <= seqs'.seen \/ \E l \in 1..i : Brings(gate'[l], s)
    <3>1. CASE j = 1
      BY <2>3, <3>1
    <3>2. CASE j # 1
      <4>1. j \in DOMAIN gate
        <5>1. DOMAIN gate = 1..Len(gate) /\ Len(gate) \in Nat
          BY <1>1
        <5> QED
          BY <2>1, <5>1
      <4>2. gate'[j - d] = gate[j] /\ j - d \in 1..i
        <5>1. j - d >= 1
          BY <2>1, <3>2
        <5> QED
          BY <1>2, <2>1, <3>2, <4>1, <5>1
      <4> QED
        BY <2>3, <4>2
    <3> QED
      BY <3>1, <3>2
  <2> QED
    BY <1>1, <2>2, <2>3
<1> QED
  BY <1>3, <1>4, <1>5

\* What is left to say when a callback has run.
LEMMA RunStands ==
  ASSUME IInv, IInv', NEW floor \in Nat, Standing(floor), gate # <<>>, RanFirst,
         UNCHANGED <<log, parked, session, up, ops, control, conn, open, unacked, typed>>,
         engine'.replica = engine.replica, Held' \subseteq Held \cup ToSet(log),
         seqs.seen <= seqs'.seen, \A s \in Int : Brings(gate[1], s) => s <= seqs'.seen,
         Dry', Books', Claims', Recent(floor)', floor <= seqs'.applied
  PROVE  Standing(floor)'
<1>1. Types /\ Identity /\ conn \in Nat /\ gate \in Seq(Frames) /\ seqs.seen \in Nat /\ seqs'.seen \in Nat
  BY TypeParts, TypePartsNext, Bounds DEF IInv, Seqs
<1>2. LogCausal' /\ Elders'
  <2>1. LogCausal'
    BY DEF Standing, LogCausal
  <2>2. Elders'
    BY <1>1, EldersKept DEF Standing
  <2> QED
    BY <2>1, <2>2
<1>3. OneCopy'
  <2>1. \A m \in Connections : SentBy(m)' = SentBy(m)
    BY DEF SentBy
  <2>2. Somewhere' \subseteq Somewhere
    BY <2>1 DEF Somewhere
  <2> QED
    BY <2>2, OneCopyKept DEF Standing
<1>4. engine.replica = conn
  BY DEF Standing, Chained
<1>5. RenewedOnce' /\ Chained' /\ Heard(floor)'
  BY <1>4 DEF Standing, RenewedOnce, Chained, Floor, Heard
<1>6. Sounds(floor)' /\ GateCovers(floor)' /\ ControlCovers(floor)'
  BY <1>1, <1>4, RanCovers DEF IInv, Standing, Floor
<1> QED
  BY <1>2, <1>3, <1>5, <1>6 DEF Standing, Floor

\* The page does other work first.
LEMMA RunYieldStands ==
  ASSUME IInv, IInv', NEW floor \in Nat, Standing(floor), RunYield
  PROVE  Standing(floor)'
<1>1. /\ UNCHANGED <<log, parked, session, up, ops, control, conn, open, unacked, typed, engine, seqs>>
      /\ gate # <<>> /\ gate' = Tail(gate) /\ gate[1].kind = "yield"
  BY DEF RunYield, server, network
<1>2. Dry' /\ Books' /\ Claims' /\ Recent(floor)' /\ Held' = Held /\ floor <= seqs'.applied
  BY <1>1, SameRecord
<1>3. RanFirst
  BY <1>1, RanFirstWhen DEF IInv
<1>4. seqs.seen <= seqs'.seen /\ \A s : ~Brings(gate[1], s)
  <2>1. seqs.seen \in Nat
    BY TypeParts DEF IInv, Seqs
  <2> QED
    BY <1>1, <2>1 DEF Brings
<1> QED
  BY <1>1, <1>2, <1>3, <1>4, RunStands

\* The greater of two numbers.
LEMMA Greater ==
  ASSUME NEW a \in Nat, NEW b \in Nat, NEW m, m = Max({a, b})
  PROVE  m \in Nat /\ a <= m /\ b <= m /\ (m = a \/ m = b)
<1>1. {a, b} \in SUBSET Int /\ IsFiniteSet({a, b}) /\ {a, b} # {}
  <2>1. IsFiniteSet({a, b})
    <3>1. IsFiniteSet({a}) /\ {a, b} = {a} \cup {b}
      BY FS_Singleton
    <3> QED
      BY <3>1, FS_AddElement
  <2> QED
    BY <2>1
<1>2. m \in {a, b} /\ \A x \in {a, b} : x <= m
  BY <1>1, MaxIs
<1> QED
  BY <1>2

\* What was seen and is not integrated yet is noted, when a catch-up brings what
\* follows.
LEMMA SeenMore ==
  ASSUME IInv, NEW floor \in Nat, Standing(floor), gate # <<>>, gate[1].kind \in {"chunk", "end"},
         NEW noted, seqs.catchupPending \subseteq noted,
         engine.nodes \subseteq engine'.nodes, Held \subseteq Held',
         \A i \in Int : Brings(gate[1], i) => [seq |-> i, op |-> log[i]] \in noted /\ log[i] \in Held',
         NEW i \in Nat \ {0}, i <= seqs.seen \/ i <= UpTo(gate[1]), Foreign(i)
  PROVE  \/ i <= seqs.applied
         \/ log[i] \in engine'.nodes
         \/ log[i] \in engine'.pending /\ [seq |-> i, op |-> log[i]] \in noted
<1>1. seqs.seen \in Nat /\ seqs.applied \in Nat /\ gate \in Seq(Frames)
  BY TypeParts DEF IInv, Seqs
<1>2. Books /\ GateCovers(floor) /\ floor <= seqs.applied
  BY DEF Standing, Floor, Heard
<1>3. CASE i <= seqs.seen
  <2>1. i \in 1..seqs.seen
    BY <1>1, <1>3
  <2>2. \/ i <= seqs.applied
        \/ log[i] \in engine.nodes
        \/ log[i] \in engine.pending /\ [seq |-> i, op |-> log[i]] \in seqs.catchupPending
    BY <1>2, <2>1 DEF Books
  <2> QED
    BY <2>2 DEF Held
<1>4. CASE i > seqs.seen /\ i <= floor
  BY <1>1, <1>2, <1>4
<1>5. CASE i > seqs.seen /\ i > floor
  <2>1. UpTo(gate[1]) \in Nat /\ 1 \in DOMAIN gate
    <3>1. gate[1] \in Frames /\ 1 \in DOMAIN gate
      BY <1>1
    <3> QED
      BY <3>1, FrameFields DEF UpTo
  <2>2. i \in (floor + 1)..UpTo(gate[1])
    BY <1>1, <1>5, <2>1
  <2>3. i <= seqs.seen \/ \E j \in 1..1 : Brings(gate[j], i)
    BY <1>2, <2>1, <2>2 DEF GateCovers
  <2>4. Brings(gate[1], i)
    BY <1>1, <1>5, <2>3
  <2> QED
    BY <2>4 DEF Held
<1> QED
  BY <1>1, <1>3, <1>4, <1>5

\* The operations of a chunk are applied.
LEMMA RunChunkStands ==
  ASSUME IInv, IInv', NEW floor \in Nat, Standing(floor), RunChunk
  PROVE  Standing(floor)'
<1>1. Types /\ Types' /\ gate # <<>>
  BY DEF IInv, RunChunk
<1>2. PICK f \in Frames : f = gate[1] /\ f.kind = "chunk" /\ f \in ToSet(gate)
  BY <1>1, GateIs DEF IInv, RunChunk
<1>3. /\ f.through \in Nat /\ f.entries \in SUBSET Numbered /\ f.through <= Len(log)
      /\ \A entry \in f.entries : entry.seq \in (floor + 1)..f.through /\ entry.op = log[entry.seq]
  BY <1>2, FrameFields DEF Standing, Floor, Sounds, Sound
<1>4. /\ log \in Seq(Operations) /\ DOMAIN log = 1..Len(log) /\ Len(log) \in Nat
      /\ seqs \in Seqs /\ seqs.seen \in Nat /\ seqs.applied \in Nat /\ seqs'.applied \in Nat
  <2>1. log \in Seq(Operations) /\ seqs \in Seqs /\ seqs' \in Seqs
    BY <1>1, TypeParts, TypePartsNext
  <2>2. \A q \in Seqs : q.seen \in Nat /\ q.applied \in Nat
    BY DEF Seqs
  <2> QED
    BY <2>1, <2>2
<1>5. UNCHANGED <<log, parked, session, up, ops, control, conn, open, unacked, typed>>
  BY DEF RunChunk, server, network
<1>6. PICK new \in SUBSET Operations : new = {entry.op : entry \in f.entries}
  <2>1. {entry.op : entry \in f.entries} \in SUBSET Operations
    BY <1>3 DEF Numbered
  <2> QED
    BY <2>1
<1>7. PICK seen \in Nat : /\ seen = Max({seqs.seen, f.through}) /\ seqs.seen <= seen /\ f.through <= seen
                          /\ (seen = seqs.seen \/ seen = f.through)
  BY <1>3, <1>4, Greater
<1>8. PICK q \in Seqs :
        /\ q = [seqs EXCEPT !.catchupPending = @ \cup f.entries, !.seen = seen]
        /\ q.catchupPending = seqs.catchupPending \cup f.entries /\ q.seen = seen
        /\ q.applied = seqs.applied /\ q.confirmed = seqs.confirmed /\ q.livePending = seqs.livePending
  <2>1. PICK q : q = [seqs EXCEPT !.catchupPending = @ \cup f.entries, !.seen = seen]
    OBVIOUS
  <2>2. /\ q \in Seqs /\ q.catchupPending = seqs.catchupPending \cup f.entries /\ q.seen = seen
        /\ q.applied = seqs.applied /\ q.confirmed = seqs.confirmed /\ q.livePending = seqs.livePending
    BY <1>3, <1>4, <2>1 DEF Seqs
  <2> QED
    BY <2>1, <2>2
<1>9. engine' = ApplyAll(engine, new) /\ seqs' = RecomputeCatchupSeqCeiling(q, engine')
  BY <1>2, <1>6, <1>7, <1>8 DEF RunChunk
<1>10. Books /\ LogCausal /\ OneCopy /\ Dry /\ Claims /\ Recent(floor) /\ LoggedOnce
       /\ seqs.applied <= Len(log) /\ seqs.seen <= Len(log) /\ floor <= seqs.applied
  BY DEF Standing, Floor, Books, Heard, IInv, Identity
<1>11. \A o \in new : \E m \in DOMAIN log : m > floor /\ o = log[m]
  BY <1>3, <1>4, <1>6
<1>12. /\ Dry' /\ engine.nodes \subseteq engine'.nodes /\ Held' = Held \cup new
       /\ engine'.replica = engine.replica
       /\ \A j \in 1..seqs.applied : Claim(j)'
       /\ \A j \in (floor + 1)..seqs.applied : Late(j)'
  BY <1>1, <1>5, <1>9, <1>10, <1>11, ArrivalClaims
<1>13. Steady
  BY <1>12 DEF Steady
<1>14. q.seen <= Len(log) /\ \A p \in q.catchupPending : p.seq \in 1..q.seen /\ p.op = log[p.seq]
  <2>1. q.seen <= Len(log)
    BY <1>3, <1>7, <1>8, <1>10
  <2>2. ASSUME NEW p \in f.entries PROVE p.seq \in 1..q.seen /\ p.op = log[p.seq]
    <3>1. p.seq \in (floor + 1)..f.through /\ p.op = log[p.seq]
      BY <1>3
    <3> QED
      BY <1>3, <1>7, <1>8, <3>1
  <2>3. ASSUME NEW p \in seqs.catchupPending PROVE p.seq \in 1..q.seen /\ p.op = log[p.seq]
    <3>1. p.seq \in 1..seqs.seen /\ p.op = log[p.seq]
      BY <1>10 DEF Books
    <3> QED
      BY <1>4, <1>7, <1>8, <3>1
  <2> QED
    BY <1>8, <2>1, <2>2, <2>3
<1>15. \A i \in Int : Brings(f, i) => [seq |-> i, op |-> log[i]] \in q.catchupPending /\ log[i] \in Held' /\ i <= f.through
  <2> SUFFICES ASSUME NEW i \in Int, Brings(f, i)
               PROVE  [seq |-> i, op |-> log[i]] \in q.catchupPending /\ log[i] \in Held' /\ i <= f.through
    OBVIOUS
  <2>1. PICK entry \in f.entries : entry.seq = i
    BY DEF Brings
  <2>2. entry.op = log[i] /\ i <= f.through /\ entry = [seq |-> i, op |-> log[i]]
    BY <1>3, <2>1 DEF Numbered
  <2>3. log[i] \in new
    BY <1>6, <2>1, <2>2
  <2> QED
    BY <1>8, <1>12, <2>1, <2>2, <2>3
<1>16. ASSUME NEW i \in 1..q.seen, Foreign(i)
       PROVE  \/ i <= seqs.applied
              \/ log[i] \in engine'.nodes
              \/ log[i] \in engine'.pending /\ [seq |-> i, op |-> log[i]] \in q.catchupPending
  <2>1. i \in Nat \ {0} /\ (i <= seqs.seen \/ i <= UpTo(gate[1]))
    BY <1>2, <1>7, <1>8 DEF UpTo
  <2>2. seqs.catchupPending \subseteq q.catchupPending /\ Held \subseteq Held'
    BY <1>8, <1>12
  <2>3. \A k \in Int : Brings(gate[1], k) => [seq |-> k, op |-> log[k]] \in q.catchupPending /\ log[k] \in Held'
    BY <1>2, <1>15
  <2> QED
    BY <1>1, <1>2, <1>12, <1>16, <2>1, <2>2, <2>3, SeenMore
<1>17. Books' /\ Claims' /\ Recent(floor)' /\ seqs.applied <= seqs'.applied /\ seqs'.seen = q.seen
  <2>1. \A i \in 1..q.seen : Foreign(i) =>
          \/ i <= seqs.applied
          \/ log[i] \in engine'.nodes
          \/ log[i] \in engine'.pending /\ [seq |-> i, op |-> log[i]] \in q.catchupPending
    BY <1>16
  <2> QED
    BY <1>1, <1>5, <1>8, <1>9, <1>10, <1>12, <1>13, <1>14, <2>1, CatchupCeiling
<1>18. RanFirst
  BY <1>1, RanFirstWhen DEF RunChunk
<1>19. Held' \subseteq Held \cup ToSet(log)
  BY <1>11, <1>12 DEF ToSet
<1>20. seqs.seen <= seqs'.seen /\ floor <= seqs'.applied /\ \A s \in Int : Brings(gate[1], s) => s <= seqs'.seen
  <2>1. seqs.seen <= seqs'.seen /\ f.through <= seqs'.seen /\ seqs'.seen \in Nat
    BY <1>7, <1>8, <1>17
  <2>2. floor <= seqs'.applied
    BY <1>4, <1>10, <1>17
  <2>3. ASSUME NEW s \in Int, Brings(gate[1], s) PROVE s <= seqs'.seen
    <3>1. s <= f.through
      BY <1>2, <1>15, <2>3
    <3> QED
      BY <1>3, <2>1, <3>1
  <2> QED
    BY <2>1, <2>2, <2>3
<1> QED
  BY <1>1, <1>5, <1>12, <1>17, <1>18, <1>19, <1>20, RunStands

\* The catch-up ends.
LEMMA RunEndStands ==
  ASSUME IInv, IInv', NEW floor \in Nat, Standing(floor), RunEnd
  PROVE  Standing(floor)'
<1>1. Types /\ Types' /\ gate # <<>>
  BY DEF IInv, RunEnd
<1>2. PICK f \in Frames : f = gate[1] /\ f.kind = "end" /\ f \in ToSet(gate)
  BY <1>1, GateIs DEF IInv, RunEnd
<1>3. f.to \in Nat /\ f.to <= Len(log)
  BY <1>2, FrameFields DEF Standing, Floor, Sounds, Sound
<1>4. /\ log \in Seq(Operations) /\ DOMAIN log = 1..Len(log) /\ Len(log) \in Nat
      /\ seqs \in Seqs /\ seqs.seen \in Nat /\ seqs.applied \in Nat /\ seqs'.applied \in Nat
  <2>1. log \in Seq(Operations) /\ seqs \in Seqs /\ seqs' \in Seqs
    BY <1>1, TypeParts, TypePartsNext
  <2>2. \A q \in Seqs : q.seen \in Nat /\ q.applied \in Nat
    BY DEF Seqs
  <2> QED
    BY <2>1, <2>2
<1>5. UNCHANGED <<log, parked, session, up, ops, control, conn, open, unacked, typed, engine>>
  BY DEF RunEnd, server, network
<1>6. PICK seen \in Nat : /\ seen = Max({seqs.seen, f.to}) /\ seqs.seen <= seen
                          /\ (seen = seqs.seen \/ seen = f.to)
  BY <1>3, <1>4, Greater
<1>7. PICK q \in Seqs :
        /\ q = [seqs EXCEPT !.seen = seen]
        /\ q.catchupPending = seqs.catchupPending /\ q.seen = seen
        /\ q.applied = seqs.applied /\ q.confirmed = seqs.confirmed /\ q.livePending = seqs.livePending
  <2>1. PICK q : q = [seqs EXCEPT !.seen = seen]
    OBVIOUS
  <2>2. /\ q \in Seqs /\ q.catchupPending = seqs.catchupPending /\ q.seen = seen
        /\ q.applied = seqs.applied /\ q.confirmed = seqs.confirmed /\ q.livePending = seqs.livePending
    BY <1>4, <2>1 DEF Seqs
  <2> QED
    BY <2>1, <2>2
<1>8. seqs' = RecomputeCatchupSeqCeiling(q, engine')
  BY <1>2, <1>5, <1>6, <1>7 DEF RunEnd
<1>9. Books /\ Dry /\ seqs.applied <= Len(log) /\ seqs.seen <= Len(log) /\ floor <= seqs.applied
  BY DEF Standing, Floor, Books, Heard
<1>10. /\ Dry' /\ Held' = Held /\ Steady
       /\ \A j \in 1..seqs.applied : Claim(j)'
       /\ \A j \in (floor + 1)..seqs.applied : Late(j)'
  BY <1>5 DEF Standing, Floor, Dry, Held, Steady, Claims, Claim, Recent, Late, Foreign
<1>11. q.seen <= Len(log) /\ \A p \in q.catchupPending : p.seq \in 1..q.seen /\ p.op = log[p.seq]
  <2>1. q.seen <= Len(log)
    BY <1>3, <1>6, <1>7, <1>9
  <2>2. ASSUME NEW p \in q.catchupPending PROVE p.seq \in 1..q.seen /\ p.op = log[p.seq]
    <3>1. p.seq \in 1..seqs.seen /\ p.op = log[p.seq]
      BY <1>7, <1>9 DEF Books
    <3> QED
      BY <1>4, <1>6, <1>7, <3>1
  <2> QED
    BY <2>1, <2>2
<1>12. \A i \in Int : ~Brings(gate[1], i)
  BY <1>2 DEF Brings
<1>13. ASSUME NEW i \in 1..q.seen, Foreign(i)
       PROVE  \/ i <= seqs.applied
              \/ log[i] \in engine'.nodes
              \/ log[i] \in engine'.pending /\ [seq |-> i, op |-> log[i]] \in q.catchupPending
  <2>1. i \in Nat \ {0} /\ (i <= seqs.seen \/ i <= UpTo(gate[1]))
    BY <1>2, <1>6, <1>7 DEF UpTo
  <2>2. seqs.catchupPending \subseteq q.catchupPending /\ Held \subseteq Held' /\ engine.nodes \subseteq engine'.nodes
    BY <1>5, <1>7, <1>10
  <2> QED
    BY <1>1, <1>2, <1>12, <1>13, <2>1, <2>2, SeenMore
<1>14. Books' /\ Claims' /\ Recent(floor)' /\ seqs.applied <= seqs'.applied /\ seqs'.seen = q.seen
  <2>1. \A i \in 1..q.seen : Foreign(i) =>
          \/ i <= seqs.applied
          \/ log[i] \in engine'.nodes
          \/ log[i] \in engine'.pending /\ [seq |-> i, op |-> log[i]] \in q.catchupPending
    BY <1>13
  <2> QED
    BY <1>1, <1>5, <1>7, <1>8, <1>9, <1>10, <1>11, <2>1, CatchupCeiling
<1>15. RanFirst
  BY <1>1, RanFirstWhen DEF RunEnd
<1>16. seqs.seen <= seqs'.seen /\ floor <= seqs'.applied
  BY <1>4, <1>6, <1>7, <1>9, <1>14
<1> QED
  BY <1>1, <1>5, <1>10, <1>12, <1>14, <1>15, <1>16, RunStands

-----------------------------------------------------------------------------
(* What the client claims: minting *)

\* What is new brings nothing that waited into the tree.
LEMMA NewBringsNothing ==
  ASSUME Types, Dry, NEW new \in SUBSET Operations,
         \A o \in new : ~Met(o.id), \A o \in engine.pending : o.parent \notin IdsOf(new),
         engine' = ApplyAll(engine, new)
  PROVE  /\ Dry' /\ Held' = Held \cup new /\ engine'.replica = engine.replica
         /\ engine.nodes \subseteq engine'.nodes /\ engine'.nodes \subseteq engine.nodes \cup new
<1>1. engine \in Engine
  BY TypeParts
<1>2. /\ engine.nodes \subseteq engine'.nodes /\ Held' = Held \cup new /\ engine'.replica = engine.replica
  BY <1>1, ApplyAllIs DEF Held, Engine
<1>3. Dry'
  BY <1>1, ApplyDry DEF Dry
<1>4. \A o \in engine'.nodes \ engine.nodes : o \in engine.pending \cup new /\ o.parent \in IdsOf(engine'.nodes) \cup {Root}
  BY <1>1, ApplyDry
<1> DEFINE X == engine'.nodes \ (engine.nodes \cup new)
<1>5. X \in SUBSET engine.pending
  BY <1>4
<1>6. ASSUME NEW x \in X PROVE x.parent \in IdsOf(engine.nodes \cup X) \cup {Root}
  <2>1. x.parent \in IdsOf(engine'.nodes) \cup {Root} /\ x.parent \notin IdsOf(new)
    BY <1>4, <1>5
  <2>2. \A y \in engine'.nodes : y \in engine.nodes \cup X \/ y \in new
    OBVIOUS
  <2> HIDE DEF X
  <2> QED
    BY <2>1, <2>2 DEF IdsOf
<1> HIDE DEF X
<1>7. X \subseteq Resolved(engine.nodes, engine.pending)
  <2>1. Greatest(Resolved(engine.nodes, engine.pending), engine.nodes, engine.pending)
    BY ResolvedIs
  <2> QED
    BY <1>5, <1>6, <2>1 DEF Greatest
<1>8. X = {}
  BY <1>7 DEF Dry
<1>9. engine'.nodes \subseteq engine.nodes \cup new
  BY <1>8 DEF X
<1> QED
  BY <1>2, <1>3, <1>9

\* What an operation of the engine hangs under is not what is minted.
LEMMA NothingHangsUnder ==
  ASSUME IInv, Elders, NEW rest \in Seq(Operations), NEW new \in Seq(Operations), MintsAnew(rest, new),
         NEW o \in Held, NEW q \in ToSet(new)
  PROVE  o.parent # q.id
<1> SUFFICES ASSUME o.parent = q.id PROVE FALSE
  OBVIOUS
<1>1. engine \in Engine /\ unacked \in Seq(Operations) /\ typed \in Nat
  BY TypeParts, Bounds DEF IInv
<1>2. q \in Operations /\ q.id \in Ids /\ q.id[1] \in Nat /\ q.id[2] \in Nat
  <2>1. q \in Operations
    BY Queues
  <2> QED
    BY <2>1, OperationFields, IdFields, Bounds
<1>3. Fresh(q) /\ (q.id[1] > typed \/ \E p \in ToSet(unacked) : p.id[1] = q.id[1])
  BY DEF MintsAnew, Mints
<1>4. /\ q.id[1] \in 1..typed
      /\ \A p \in ToSet(unacked) : q.id[1] = p.id[1] => q.id[2] <= p.id[2]
  BY <1>3 DEF Elders, Fresh
<1>5. PICK p \in ToSet(unacked) : p.id[1] = q.id[1]
  BY <1>1, <1>2, <1>3, <1>4
<1>6. p.id \in Ids /\ Met(p.id) /\ p.id[2] \in Nat
  <2>1. p \in Operations
    BY <1>1, Queues
  <2> QED
    BY <2>1, OperationFields, IdFields, Bounds DEF Met, IdsOf
<1>7. p.id[2] < q.id[2]
  BY <1>3, <1>5, <1>6 DEF Fresh
<1> QED
  BY <1>2, <1>4, <1>5, <1>6, <1>7

\* What the engine has hangs under nothing later than what is queued.
LEMMA MintElders ==
  ASSUME IInv, IInv', Elders, NEW rest \in Seq(Operations), NEW new \in Seq(Operations), MintsAnew(rest, new),
         Held' = Held \cup ToSet(new)
  PROVE  Elders'
<1>1. /\ engine \in Engine /\ unacked \in Seq(Operations) /\ typed \in Nat /\ typed' \in Nat /\ typed <= typed'
      /\ conn \in Nat /\ conn' = conn /\ engine.nodes \subseteq engine'.nodes
  <2>1. engine \in Engine /\ unacked \in Seq(Operations) /\ typed \in Nat /\ conn \in Nat
    BY TypeParts, Bounds DEF IInv
  <2>2. typed' \in Nat /\ typed <= typed' /\ conn' = conn
    BY DEF MintsAnew, Mints
  <2>3. engine.nodes \subseteq engine'.nodes
    <3>1. ToSet(new) \in SUBSET Operations
      BY Queues
    <3> QED
      BY <2>1, <3>1, ApplyAllIs DEF MintsAnew, Engine
  <2> QED
    BY <2>1, <2>2, <2>3
<1>2. ToSet(unacked') = ToSet(rest) \cup ToSet(new) /\ ToSet(rest) \subseteq ToSet(unacked)
  BY Joins DEF MintsAnew, Mints
<1>3. ASSUME NEW o \in ToSet(new), o.parent[2] # 0
      PROVE  /\ o.parent[1] \in 1..typed' /\ o.parent[2] <= conn'
             /\ \A q \in ToSet(unacked') : o.parent[1] = q.id[1] => o.parent[2] <= q.id[2]
  <2>1. o \in Operations /\ o.parent # Root /\ o.parent \in Ids
    <3>1. o \in Operations
      BY Queues
    <3> QED
      BY <1>3, <3>1, OperationFields DEF Root
  <2>2. o.parent \in IdsOf(engine.nodes) \cup IdsOf(ToSet(new))
    BY <2>1 DEF MintsAnew, Mints
  <2>3. Met(o.parent)'
    BY <1>1, <1>2, <2>2 DEF Met, IdsOf
  <2> QED
    BY <1>3, <2>1, <2>3 DEF IInv, Identity, Minted, Newest
<1>4. ASSUME NEW o \in Held, o.parent[2] # 0
      PROVE  /\ o.parent[1] \in 1..typed' /\ o.parent[2] <= conn'
             /\ \A q \in ToSet(unacked') : o.parent[1] = q.id[1] => o.parent[2] <= q.id[2]
  <2>1. /\ o.parent[1] \in 1..typed /\ o.parent[2] <= conn
        /\ \A q \in ToSet(unacked) : o.parent[1] = q.id[1] => o.parent[2] <= q.id[2]
    BY <1>4 DEF Elders
  <2>2. ASSUME NEW q \in ToSet(new), o.parent[1] = q.id[1] PROVE o.parent[2] <= q.id[2]
    <3>1. engine.replica = conn \/ q.id[1] > typed
      BY DEF MintsAnew
    <3>2. Fresh(q)
      BY DEF MintsAnew, Mints
    <3> QED
      BY <1>1, <2>1, <2>2, <3>1, <3>2 DEF Fresh
  <2> QED
    BY <1>1, <1>2, <2>1, <2>2
<1> QED
  BY <1>3, <1>4 DEF Elders

\* What is minted is under way once it is sent, and HELLO is where it was.
LEMMA MintSent ==
  ASSUME Types, Types', Talks, NEW rest \in Seq(Operations), NEW new \in Seq(Operations), Mints(rest, new),
         open => conn \in Connections
  PROVE  /\ \A m \in Connections : SentBy(m)' \subseteq SentBy(m) \cup ToSet(new)
         /\ open /\ session[conn].stage = "open" => up'[conn][1] = up[conn][1]
<1>1. up \in [Connections -> Seq(ClientFrames)] /\ conn \in Nat
  BY TypeParts, Bounds
<1>2. CASE ~open
  BY <1>2 DEF Mints, SentBy
<1>3. CASE open
  <2>1. PICK frames \in Seq(ClientFrames) :
          /\ DOMAIN frames = DOMAIN new
          /\ \A i \in DOMAIN new : frames[i].kind = "op" /\ frames[i].op = new[i]
          /\ up' = [up EXCEPT ![conn] = up[conn] \o frames]
    BY <1>3 DEF Mints
  <2>2. conn \in Connections /\ up[conn] \in Seq(ClientFrames) /\ up'[conn] = up[conn] \o frames
    BY <1>1, <1>3, <2>1
  <2>3. OpsIn(frames) \subseteq ToSet(new)
    BY <2>1 DEF OpsIn, ToSet
  <2>4. OpsIn(up'[conn]) = OpsIn(up[conn]) \cup OpsIn(frames)
    BY <2>2, OpsInIs
  <2>5. \A m \in Connections : m # conn => up'[m] = up[m]
    BY <1>1, <2>1
  <2>6. \A m \in Connections : SentBy(m)' \subseteq SentBy(m) \cup ToSet(new)
    BY <2>3, <2>4, <2>5 DEF SentBy
  <2>7. ASSUME session[conn].stage = "open" PROVE up'[conn][1] = up[conn][1]
    <3>1. up[conn] # <<>>
      BY <1>1, <2>2, <2>7 DEF Talks
    <3> QED
      BY <2>2, <3>1
  <2> QED
    BY <2>6, <2>7
<1> QED
  BY <1>2, <1>3

\* What of the client's claims stands once operations are minted.
LEMMA MintStands ==
  ASSUME IInv, IInv', NEW floor \in Nat, Standing(floor),
         NEW rest \in Seq(Operations), NEW new \in Seq(Operations), MintsAnew(rest, new),
         seqs' = seqs, gate' # <<>> => gate # <<>>
  PROVE  /\ LogCausal' /\ OneCopy' /\ Dry' /\ Elders' /\ RenewedOnce' /\ Chained' /\ Books' /\ Claims'
         /\ Recent(floor)' /\ Heard(floor)' /\ engine'.replica = engine.replica
<1>1. Types /\ Types' /\ Talks /\ Successions /\ seqs.applied \in Nat /\ DOMAIN log = 1..Len(log) /\ Len(log) \in Nat
  <2>1. Types /\ Types' /\ Talks /\ Successions
    BY DEF IInv
  <2>2. seqs \in Seqs /\ log \in Seq(Operations)
    BY <2>1, TypeParts
  <2> QED
    BY <2>1, <2>2 DEF Seqs
<1>2. Mints(rest, new) /\ engine' = ApplyAll(engine, ToSet(new))
  BY DEF MintsAnew
<1>3. /\ UNCHANGED <<log, parked, session, conn, open, ops, control, rejected, helloUnacked>>
      /\ unacked' = rest \o new /\ ToSet(rest) \subseteq ToSet(unacked)
  BY <1>2 DEF Mints
<1>4. LogCausal /\ OneCopy /\ Dry /\ Elders /\ RenewedOnce /\ Chained /\ Books /\ Claims /\ Recent(floor) /\ Heard(floor)
      /\ seqs.applied <= Len(log)
  BY DEF Standing, Floor, Books
<1>5. PICK N \in SUBSET Operations : N = ToSet(new) /\ \A o \in N : ~Met(o.id) /\ o.id[2] # 0
  <2>1. ToSet(new) \in SUBSET Operations
    BY Queues
  <2>2. ASSUME NEW o \in ToSet(new), Met(o.id) PROVE FALSE
    <3>1. Fresh(o)
      BY <1>2 DEF Mints
    <3>2. o.id \in Ids /\ o.id[2] \in Nat
      BY <2>1, OperationFields, IdFields, Bounds
    <3>3. o.id[2] < o.id[2]
      BY <2>2, <3>1, <3>2 DEF Fresh
    <3> QED
      BY <3>2, <3>3
  <2>3. \A o \in ToSet(new) : o.id[2] # 0
    BY <1>2 DEF Mints, Fresh
  <2> QED
    BY <2>1, <2>2, <2>3
<1>6. \A o \in engine.pending : o.parent \notin IdsOf(N)
  <2>1. \A o \in Held, q \in N : o.parent # q.id
    BY <1>4, <1>5, NothingHangsUnder
  <2> QED
    BY <2>1 DEF IdsOf, Held
<1>7. /\ Dry' /\ Held' = Held \cup N /\ engine'.replica = engine.replica
      /\ engine.nodes \subseteq engine'.nodes /\ engine'.nodes \subseteq engine.nodes \cup N
  BY <1>1, <1>2, <1>4, <1>5, <1>6, NewBringsNothing
<1>8. Elders'
  BY <1>4, <1>5, <1>7, MintElders
<1>9. LogCausal'
  BY <1>3, <1>4 DEF LogCausal
<1>10. open => conn \in Connections
  <2>1. conn \in 0..MaxConnections
    BY <1>1, TypeParts
  <2> QED
    BY <1>1, <2>1, Bounds DEF Successions, Connections
<1>11. /\ \A m \in Connections : SentBy(m)' \subseteq SentBy(m) \cup N
       /\ open /\ session[conn].stage = "open" => up'[conn][1] = up[conn][1]
  BY <1>1, <1>2, <1>5, <1>10, MintSent
<1>12. OneCopy'
  <2>1. ToSet(unacked') \subseteq ToSet(unacked) \cup N
    BY <1>3, <1>5, Joins
  <2>2. Somewhere' \subseteq Somewhere \cup N
    BY <1>3, <1>7, <1>11, <2>1 DEF Somewhere
  <2>3. ASSUME NEW o \in N, NEW p \in N, o.id = p.id PROVE o = p
    <3>1. PICK i \in DOMAIN new, j \in DOMAIN new : o = new[i] /\ p = new[j]
      BY <1>5 DEF ToSet
    <3>2. i # j => new[i].id[1] # new[j].id[1]
      BY <1>2 DEF Mints
    <3> QED
      BY <2>3, <3>1, <3>2
  <2> QED
    BY <1>1, <1>4, <1>5, <2>2, <2>3, OneCopyFresh
<1>13. RenewedOnce' /\ Chained'
  BY <1>3, <1>4, <1>7 DEF RenewedOnce, Chained
<1>14. Heard(floor)'
  BY <1>3, <1>4, <1>11 DEF Heard
<1>15. \A i \in DOMAIN log : log[i] \notin N
  BY <1>5 DEF Met, IdsOf, ToSet
<1>16. Books'
  <2>1. Extended /\ Steady
    BY <1>3, <1>7 DEF Extended, Steady
  <2> QED
    BY <1>1, <1>4, <2>1, BooksKept
<1>17. Recent(floor)'
  BY <1>3, <1>4, <1>7 DEF Recent, Late, Foreign, Held
<1>18. Claims'
  <2> SUFFICES ASSUME NEW j \in 1..seqs.applied, Foreign(j),
                      log[j].parent = Root \/ \E k \in 1..(j - 1) : log[k].id = log[j].parent /\ log[k] \in engine'.nodes
               PROVE  log[j] \in engine'.nodes
    BY <1>3 DEF Claims, Claim, Foreign
  <2>1. \A k \in 1..(j - 1) : k \in DOMAIN log
    BY <1>1, <1>4
  <2>2. \A k \in 1..(j - 1) : log[k] \in engine'.nodes => log[k] \in engine.nodes
    BY <1>7, <1>15, <2>1
  <2>3. Claim(j)
    BY <1>4 DEF Claims
  <2> QED
    BY <1>7, <2>2, <2>3 DEF Claim
<1> QED
  BY <1>7, <1>8, <1>9, <1>12, <1>13, <1>14, <1>16, <1>17, <1>18

\* The user types.
LEMMA TypeStands ==
  ASSUME IInv, IInv', NEW floor \in Nat, Standing(floor), Type
  PROVE  Standing(floor)'
<1>1. UNCHANGED <<log, ops, control, conn, seqs, gate>>
  BY DEF Type, server
<1>2. PICK rest \in Seq(Operations), new \in Seq(Operations) : MintsAnew(rest, new)
  BY TypeMints DEF Anew
<1>3. /\ LogCausal' /\ OneCopy' /\ Dry' /\ Elders' /\ RenewedOnce' /\ Chained' /\ Books' /\ Claims'
      /\ Recent(floor)' /\ Heard(floor)' /\ engine'.replica = engine.replica
  BY <1>1, <1>2, MintStands
<1>4. Sounds(floor)' /\ GateCovers(floor)' /\ ControlCovers(floor)'
  <2>1. \A g : Sound(g, floor) => Sound(g, floor)'
    BY <1>1 DEF Sound, Foreign
  <2>2. Sounds(floor)'
    BY <1>1, <2>1 DEF Standing, Floor, Sounds
  <2> QED
    BY <1>1, <1>3, <2>2 DEF Standing, Floor, GateCovers, ControlCovers
<1> QED
  BY <1>3, <1>4 DEF Standing, Floor

\* ALREADY_HAVE is handled.
LEMMA FinishStands ==
  ASSUME IInv, IInv', NEW floor \in Nat, Standing(floor), FinishHandshake
  PROVE  Standing(floor)'
<1>1. /\ UNCHANGED <<log, ops, control, conn, seqs>>
      /\ gate # <<>> /\ gate' = Tail(gate) /\ gate[1].kind = "have"
  BY DEF FinishHandshake, server
<1>2. PICK rest \in Seq(Operations), new \in Seq(Operations) : MintsAnew(rest, new)
  BY FinishMints DEF Anew
<1>3. /\ LogCausal' /\ OneCopy' /\ Dry' /\ Elders' /\ RenewedOnce' /\ Chained' /\ Books' /\ Claims'
      /\ Recent(floor)' /\ Heard(floor)' /\ engine'.replica = engine.replica
  BY <1>1, <1>2, MintStands
<1>4. RanFirst
  BY <1>1, RanFirstWhen DEF IInv
<1>5. engine.replica = conn
  BY <1>1 DEF Standing, Chained
<1>6. seqs.seen \in Nat
  BY TypeParts DEF IInv, Seqs
<1>7. seqs.seen <= seqs'.seen /\ \A s \in Int : Brings(gate[1], s) => s <= seqs'.seen
  BY <1>1, <1>6 DEF Brings
<1>8. Sounds(floor)' /\ GateCovers(floor)' /\ ControlCovers(floor)'
  BY <1>1, <1>3, <1>4, <1>5, <1>7, RanCovers DEF IInv, Standing, Floor
<1> QED
  BY <1>3, <1>8 DEF Standing, Floor

-----------------------------------------------------------------------------
(* What the client claims is honest *)

\* Nothing is claimed yet.
LEMMA InitStands ==
  ASSUME Init
  PROVE  Standing(0)
<1>1. /\ log = <<>> /\ parked = {} /\ session = [n \in Connections |-> NewSession]
      /\ up = [n \in Connections |-> <<>>] /\ ops = <<>> /\ control = <<>> /\ gate = <<>> /\ ~open
      /\ engine.nodes = {} /\ engine.pending = {} /\ unacked = <<>>
      /\ seqs.applied = 0 /\ seqs.seen = 0 /\ seqs.confirmed = {} /\ seqs.livePending = {} /\ seqs.catchupPending = {}
  BY DEF Init, NoEngine, ResetSeqs
<1>2. Len(log) = 0 /\ DOMAIN log = {} /\ DOMAIN control = {} /\ DOMAIN gate = {}
      /\ ToSet(log) = {} /\ ToSet(unacked) = {} /\ ToSet(ops) = {} /\ ToSet(control) = {} /\ ToSet(gate) = {}
      /\ Held = {}
  BY <1>1, NoMembers DEF Held
<1>3. \A n \in Connections : SentBy(n) = {}
  BY <1>1 DEF SentBy, OpsIn
<1>4. LogCausal /\ OneCopy
  BY <1>1, <1>2, <1>3 DEF LogCausal, OneCopy, Somewhere
<1>5. Dry
  <2>1. Resolved(engine.nodes, engine.pending) \subseteq engine.pending
    BY DEF Resolved
  <2> QED
    BY <1>1, <2>1 DEF Dry
<1>6. Elders /\ RenewedOnce /\ Chained
  BY <1>1, <1>2 DEF Elders, RenewedOnce, Chained
<1>7. Books /\ Claims
  BY <1>1, <1>2 DEF Books, Claims
<1>8. Floor(0)
  <2>1. Sounds(0)
    BY <1>2 DEF Sounds
  <2>2. Heard(0) /\ Recent(0)
    BY <1>1 DEF Heard, Recent
  <2>3. GateCovers(0) /\ ControlCovers(0)
    BY <1>2 DEF GateCovers, ControlCovers
  <2> QED
    BY <2>1, <2>2, <2>3 DEF Floor
<1> QED
  BY <1>4, <1>5, <1>6, <1>7, <1>8 DEF Standing

\* A step that touches nothing of it.
LEMMA StillStands ==
  ASSUME NEW floor \in Nat, Standing(floor),
         UNCHANGED <<log, parked, session, up, ops, control, gate, conn, open, engine, unacked, seqs, typed>>
  PROVE  Standing(floor)'
<1>1. LogCausal' /\ OneCopy' /\ Dry' /\ Elders' /\ RenewedOnce' /\ Chained'
  BY DEF Standing, LogCausal, OneCopy, Somewhere, SentBy, Held, Dry, Elders, RenewedOnce, Chained
<1>2. Dry' /\ Books' /\ Claims' /\ Recent(floor)'
  BY SameRecord
<1>3. Heard(floor)' /\ GateCovers(floor)' /\ ControlCovers(floor)'
  BY DEF Standing, Floor, Heard, GateCovers, ControlCovers
<1>4. Sounds(floor)'
  <2>1. \A g : Sound(g, floor) => Sound(g, floor)'
    BY DEF Sound, Foreign
  <2> QED
    BY <2>1 DEF Standing, Floor, Sounds
<1> QED
  BY <1>1, <1>2, <1>3, <1>4 DEF Standing, Floor

\* Every step keeps it, from the number that the next HELLO reports.
LEMMA NextStands ==
  ASSUME IInv, IInv', Claiming, [Next]_vars
  PROVE  Claiming'
<1>1. PICK floor \in Nat : Standing(floor)
  BY DEF Claiming
<1>2. seqs'.applied \in Nat /\ 0 \in Nat
  BY TypePartsNext DEF IInv, Seqs
<1>3. ASSUME NEW n \in Connections, Handshake(n) \/ Take(n) PROVE Standing(floor)'
  BY <1>1, <1>3, HandshakeStands, TakesOne, RejectMismatchStands, AcceptStands DEF IInv
<1>4. CASE PeerEdit \/ Commit
  BY <1>1, <1>4, PeerEditStands, CommitStands DEF Claiming
<1>5. ASSUME NEW op \in parked, Sweep(op) PROVE Standing(floor)'
  BY <1>1, <1>5, SweepStands
<1>6. CASE OpenSocket
  <2>1. Standing(seqs.applied)'
    BY <1>1, <1>6, OpenSocketStands
  <2> QED
    BY <1>2, <2>1 DEF Claiming
<1>7. CASE Drop
  BY <1>1, <1>7, DropStands DEF Claiming
<1>8. CASE Reload
  BY <1>1, <1>2, <1>8, ReloadStands DEF Claiming
<1>9. CASE Receive
  BY <1>1, <1>9, ReceiveStands DEF Claiming
<1>10. CASE Run
  BY <1>1, <1>10, RunYieldStands, RunChunkStands, RunEndStands, FinishStands DEF Run, Claiming
<1>11. CASE Type
  BY <1>1, <1>11, TypeStands DEF Claiming
<1>12. CASE Flush \/ CommitRows \/ LoseRows \/ UNCHANGED vars
  <2>1. UNCHANGED <<log, parked, session, up, ops, control, gate, conn, open, engine, unacked, seqs, typed>>
    BY <1>12 DEF Flush, CommitRows, LoseRows, EndTransaction, vars, server, network, client
  <2> QED
    BY <1>1, <2>1, StillStands DEF Claiming
<1> QED
  BY <1>1, <1>3, <1>4, <1>5, <1>6, <1>7, <1>8, <1>9, <1>10, <1>11, <1>12 DEF Next, Claiming

\* Of the log up to the number it reports the client misses only operations of its
\* own and what hangs below them: no snapshot, catch-up or live operation, in
\* whatever order and over however many connections they come, lets it report a
\* number below which it misses another entry (syncClient.ts:
\* advanceLiveSeqCeiling, recomputeCatchupSeqCeiling).
THEOREM ForeignCeilingHonestAlways == Spec /\ Orderly => []ForeignCeilingHonest
<1> DEFINE Inv == IInv /\ Claiming
<1>1. Init /\ Orderly => Inv
  <2> SUFFICES ASSUME Init, Orderly PROVE Inv
    OBVIOUS
  <2>1. IInv
    BY InitInv
  <2>2. Standing(0) /\ 0 \in Nat
    BY InitStands
  <2> QED
    BY <2>1, <2>2 DEF Claiming
<1>2. Inv /\ [Next]_vars => Inv'
  BY NextStep, NextStands
<1>3. Inv => ForeignCeilingHonest
  BY ClaimsHonest DEF Claiming, Standing, IInv, Identity
<1> QED
  BY <1>1, <1>2, <1>3, PTL DEF Spec

-----------------------------------------------------------------------------
(* The durable queue holds what memory holds *)

\* The row of an operation is stored, or to be put, and not to be removed later.
Survives(o) ==
  \/ UnackedRow(o) \in unstored
  \/ \E i \in DOMAIN flushing :
       /\ UnackedRow(o) \in flushing[i].put
       /\ \A j \in DOMAIN flushing : i <= j => o.id \notin flushing[j].removed
  \/ UnackedRow(o) \in stored /\ \A j \in DOMAIN flushing : o.id \notin flushing[j].removed

\* Rows survive of the queued operations, and are noted of the rejected ones.
Mirrored ==
  \A o \in Operations : /\ Survives(o) <=> o \in ToSet(unacked)
                        /\ RejectedRow(o) \in Noted <=> o \in rejected

\* As long as a page may still read the rows and every transaction commits.
RowsKept == PageMayClose /\ "lost_rows" \notin faults => Mirrored

\* Transactions begin: the first takes the rows that wait, and new ones wait.
Begins(transactions, waiting, new) ==
  \/ transactions = <<>> /\ waiting = unstored \cup new
  \/ /\ transactions # <<>> /\ waiting = new
     /\ \A k \in DOMAIN transactions : transactions[k].put = IF k = 1 THEN unstored ELSE {}

\* What they leave of the rows in the end.
LEMMA RowsBegun ==
  ASSUME Types, NEW transactions \in Seq(Transactions), NEW waiting, NEW new,
         Begins(transactions, waiting, new), WriteRows(transactions, waiting), PageMayClose
  PROVE  /\ Noted' = Noted \cup new
         /\ \A o : Survives(o)' <=>
              \/ UnackedRow(o) \in new
              \/ Survives(o) /\ \A k \in DOMAIN transactions : o.id \notin transactions[k].removed
<1>1. flushing \in Seq(Transactions)
  BY TypeParts
<1>2. stored' = stored /\ unstored' = waiting /\ flushing' = flushing \o transactions
  BY DEF WriteRows
<1>3. PICK a \in Nat, b \in Nat :
        /\ DOMAIN flushing = 1..a /\ DOMAIN transactions = 1..b /\ DOMAIN flushing' = 1..(a + b)
        /\ \A i \in 1..a : flushing'[i] = flushing[i]
        /\ \A k \in 1..b : flushing'[a + k] = transactions[k]
  <2>1. /\ Len(flushing) \in Nat /\ Len(transactions) \in Nat
        /\ DOMAIN flushing = 1..Len(flushing) /\ DOMAIN transactions = 1..Len(transactions)
        /\ DOMAIN flushing' = 1..(Len(flushing) + Len(transactions))
        /\ \A i \in 1..Len(flushing) : flushing'[i] = flushing[i]
        /\ \A k \in 1..Len(transactions) : flushing'[Len(flushing) + k] = transactions[k]
    BY <1>1, <1>2
  <2> QED
    BY <2>1
<1>4. \A j \in 1..(a + b) : j \in 1..a \/ \E k \in 1..b : j = a + k
  <2> SUFFICES ASSUME NEW j \in 1..(a + b), j \notin 1..a PROVE \E k \in 1..b : j = a + k
    OBVIOUS
  <2>1. j - a \in 1..b /\ j = a + (j - a)
    OBVIOUS
  <2> QED
    BY <2>1
<1>5. Noted' = Noted \cup new
  <2>1. ToSet(flushing') = ToSet(flushing) \cup ToSet(transactions)
    BY <1>1, <1>2, Joins
  <2>2. CASE transactions = <<>> /\ waiting = unstored \cup new
    BY <1>2, <2>1, <2>2, NoMembers DEF Noted
  <2>3. CASE /\ transactions # <<>> /\ waiting = new
             /\ \A k \in DOMAIN transactions : transactions[k].put = IF k = 1 THEN unstored ELSE {}
    <3>1. 1 \in DOMAIN transactions
      BY <2>3
    <3>2. UNION {t.put : t \in ToSet(transactions)} = unstored
      BY <2>3, <3>1 DEF ToSet
    <3> QED
      BY <1>2, <2>1, <2>3, <3>2 DEF Noted
  <2> QED
    BY <2>2, <2>3 DEF Begins
<1>6. ASSUME NEW o
      PROVE  Survives(o)' <=>
               \/ UnackedRow(o) \in new
               \/ Survives(o) /\ \A k \in DOMAIN transactions : o.id \notin transactions[k].removed
  <2>1. (\A j \in 1..(a + b) : o.id \notin flushing'[j].removed) <=>
          /\ \A j \in 1..a : o.id \notin flushing[j].removed
          /\ \A k \in 1..b : o.id \notin transactions[k].removed
    <3>1. \A i \in 1..a : i \in 1..(a + b)
      OBVIOUS
    <3>2. \A k \in 1..b : a + k \in 1..(a + b)
      OBVIOUS
    <3> QED
      BY <1>3, <1>4, <3>1, <3>2
  <2>2. ASSUME NEW i \in 1..a
        PROVE  (\A j \in 1..(a + b) : i <= j => o.id \notin flushing'[j].removed) <=>
                 /\ \A j \in 1..a : i <= j => o.id \notin flushing[j].removed
                 /\ \A k \in 1..b : o.id \notin transactions[k].removed
    <3>1. \A j \in 1..a : j \in 1..(a + b)
      OBVIOUS
    <3>2. \A k \in 1..b : a + k \in 1..(a + b) /\ i <= a + k
      OBVIOUS
    <3> QED
      BY <1>3, <1>4, <3>1, <3>2
  <2>3. CASE transactions = <<>> /\ waiting = unstored \cup new
    <3>1. DOMAIN transactions = {}
      BY <2>3
    <3>2. b = 0 /\ DOMAIN flushing' = DOMAIN flushing
      BY <1>3, <3>1
    <3>3. \A i \in DOMAIN flushing : flushing'[i] = flushing[i]
      BY <1>3
    <3> QED
      BY <1>2, <2>3, <3>1, <3>2, <3>3 DEF Survives
  <2>4. CASE /\ transactions # <<>> /\ waiting = new
             /\ \A k \in DOMAIN transactions : transactions[k].put = IF k = 1 THEN unstored ELSE {}
    <3>1. 1 \in 1..b
      BY <1>3, <2>4
    <3>2. a + 1 \in 1..(a + b)
      BY <3>1
    <3>3. (\A j \in 1..(a + b) : a + 1 <= j => o.id \notin flushing'[j].removed) <=>
            \A k \in 1..b : o.id \notin transactions[k].removed
      <4>1. \A k \in 1..b : a + k \in 1..(a + b) /\ a + 1 <= a + k
        OBVIOUS
      <4>2. \A j \in 1..a : ~(a + 1 <= j)
        OBVIOUS
      <4> QED
        BY <1>3, <1>4, <4>1, <4>2
    <3>4. (\E i \in 1..(a + b) :
             /\ UnackedRow(o) \in flushing'[i].put
             /\ \A j \in 1..(a + b) : i <= j => o.id \notin flushing'[j].removed) <=>
            /\ \A k \in 1..b : o.id \notin transactions[k].removed
            /\ \/ UnackedRow(o) \in unstored
               \/ \E i \in 1..a : /\ UnackedRow(o) \in flushing[i].put
                                  /\ \A j \in 1..a : i <= j => o.id \notin flushing[j].removed
      <4>1. flushing'[a + 1].put = unstored
        BY <1>3, <2>4, <3>1
      <4>2. \A k \in 1..b : k # 1 => flushing'[a + k].put = {}
        BY <1>3, <2>4
      <4>3. \A i \in 1..a : i \in 1..(a + b) /\ flushing'[i].put = flushing[i].put
        BY <1>3
      <4> DEFINE Puts(i) == /\ UnackedRow(o) \in flushing'[i].put
                            /\ \A j \in 1..(a + b) : i <= j => o.id \notin flushing'[j].removed
                 Remains(i)  == /\ UnackedRow(o) \in flushing[i].put
                            /\ \A j \in 1..a : i <= j => o.id \notin flushing[j].removed
                 free    == \A k \in 1..b : o.id \notin transactions[k].removed
      <4>4. \A i \in 1..a : Puts(i) <=> Remains(i) /\ free
        BY <2>2, <4>3
      <4>5. \A k \in 1..b : k # 1 => ~Puts(a + k)
        BY <4>2
      <4>6. Puts(a + 1) <=> UnackedRow(o) \in unstored /\ free
        BY <3>3, <4>1
      <4>7. (\E i \in 1..(a + b) : Puts(i)) <=> (\E i \in 1..a : Remains(i) /\ free) \/ Puts(a + 1)
        <5> HIDE DEF Puts, Remains, free
        <5> QED
          BY <1>4, <3>2, <4>3, <4>4, <4>5
      <4> QED
        BY <4>6, <4>7
    <3>5. Survives(o)' <=>
            \/ UnackedRow(o) \in new
            \/ \E i \in 1..(a + b) :
                 /\ UnackedRow(o) \in flushing'[i].put
                 /\ \A j \in 1..(a + b) : i <= j => o.id \notin flushing'[j].removed
            \/ UnackedRow(o) \in stored /\ \A j \in 1..(a + b) : o.id \notin flushing'[j].removed
      BY <1>2, <1>3, <2>4 DEF Survives
    <3>6. Survives(o) <=>
            \/ UnackedRow(o) \in unstored
            \/ \E i \in 1..a : /\ UnackedRow(o) \in flushing[i].put
                               /\ \A j \in 1..a : i <= j => o.id \notin flushing[j].removed
            \/ UnackedRow(o) \in stored /\ \A j \in 1..a : o.id \notin flushing[j].removed
      BY <1>3 DEF Survives
    <3> QED
      BY <1>3, <2>1, <3>4, <3>5, <3>6
  <2> QED
    BY <2>3, <2>4 DEF Begins
<1> QED
  BY <1>5, <1>6

\* A transaction that commits leaves what it was to leave.
LEMMA CommitMirrors ==
  ASSUME Types, CommitRows
  PROVE  Noted' \subseteq Noted
         /\ (\A o : RejectedRow(o) \in Noted => RejectedRow(o) \in Noted')
         /\ \A o : Survives(o)' <=> Survives(o)
<1>1. flushing \in Seq(Transactions) /\ flushing # <<>>
  BY TypeParts DEF CommitRows, EndTransaction
<1>2. stored' = Written(flushing[1]) /\ unstored' = unstored /\ flushing' = Tail(flushing)
  BY <1>1 DEF CommitRows, EndTransaction
<1>3. PICK a \in Nat : /\ DOMAIN flushing = 1..(a + 1) /\ DOMAIN flushing' = 1..a
                       /\ \A i \in 1..a : flushing'[i] = flushing[i + 1]
  <2>1. /\ Len(flushing) - 1 \in Nat /\ DOMAIN flushing = 1..((Len(flushing) - 1) + 1)
        /\ DOMAIN flushing' = 1..(Len(flushing) - 1)
        /\ \A i \in 1..(Len(flushing) - 1) : flushing'[i] = flushing[i + 1]
    BY <1>1, <1>2
  <2> QED
    BY <2>1
<1>4. \A i \in 1..(a + 1) : i = 1 \/ \E k \in 1..a : i = k + 1
  <2> SUFFICES ASSUME NEW i \in 1..(a + 1), i # 1 PROVE \E k \in 1..a : i = k + 1
    OBVIOUS
  <2>1. i - 1 \in 1..a /\ i = (i - 1) + 1
    OBVIOUS
  <2> QED
    BY <2>1
<1>5. 1 \in 1..(a + 1) /\ \A k \in 1..a : k + 1 \in 1..(a + 1) /\ 1 <= k + 1
  OBVIOUS
<1>6. ToSet(flushing) = {flushing[1]} \cup ToSet(flushing')
  BY <1>1, <1>2, Queues
<1>7. \A o : RejectedRow(o) \in stored' <=> RejectedRow(o) \in stored \cup flushing[1].put
  BY <1>2 DEF Written, RejectedRow
<1>8. stored' \subseteq stored \cup flushing[1].put
  BY <1>2 DEF Written
<1>9. ASSUME NEW o PROVE Survives(o)' <=> Survives(o)
  <2>1. UnackedRow(o) \in stored' <=>
          UnackedRow(o) \in stored \cup flushing[1].put /\ o.id \notin flushing[1].removed
    BY <1>2 DEF Written, UnackedRow
  <2>2. (\A j \in 1..(a + 1) : o.id \notin flushing[j].removed) <=>
          o.id \notin flushing[1].removed /\ \A j \in 1..a : o.id \notin flushing'[j].removed
    BY <1>3, <1>4, <1>5
  <2>3. (\A j \in 1..(a + 1) : 1 <= j => o.id \notin flushing[j].removed) <=>
          \A j \in 1..(a + 1) : o.id \notin flushing[j].removed
    OBVIOUS
  <2>4. ASSUME NEW i \in 1..a
        PROVE  (\A j \in 1..(a + 1) : i + 1 <= j => o.id \notin flushing[j].removed) <=>
                 \A j \in 1..a : i <= j => o.id \notin flushing'[j].removed
    <3>1. \A k \in 1..a : i + 1 <= k + 1 <=> i <= k
      OBVIOUS
    <3>2. ~(i + 1 <= 1)
      OBVIOUS
    <3> QED
      BY <1>3, <1>4, <1>5, <3>1, <3>2
  <2>5. (\E i \in 1..(a + 1) :
           /\ UnackedRow(o) \in flushing[i].put
           /\ \A j \in 1..(a + 1) : i <= j => o.id \notin flushing[j].removed) <=>
          \/ UnackedRow(o) \in flushing[1].put /\ \A j \in 1..(a + 1) : o.id \notin flushing[j].removed
          \/ \E i \in 1..a : /\ UnackedRow(o) \in flushing'[i].put
                             /\ \A j \in 1..a : i <= j => o.id \notin flushing'[j].removed
    <3> DEFINE Puts(i) == /\ UnackedRow(o) \in flushing[i].put
                          /\ \A j \in 1..(a + 1) : i <= j => o.id \notin flushing[j].removed
               Left(i) == /\ UnackedRow(o) \in flushing'[i].put
                          /\ \A j \in 1..a : i <= j => o.id \notin flushing'[j].removed
    <3>1. \A i \in 1..a : Puts(i + 1) <=> Left(i)
      BY <1>3, <2>4
    <3>2. Puts(1) <=> UnackedRow(o) \in flushing[1].put /\ \A j \in 1..(a + 1) : o.id \notin flushing[j].removed
      BY <2>3
    <3>3. (\E i \in 1..(a + 1) : Puts(i)) <=> Puts(1) \/ \E i \in 1..a : Left(i)
      <4> HIDE DEF Puts, Left
      <4> QED
        BY <1>4, <1>5, <3>1
    <3> QED
      BY <3>2, <3>3
  <2>6. Survives(o) <=>
          \/ UnackedRow(o) \in unstored
          \/ \E i \in 1..(a + 1) :
               /\ UnackedRow(o) \in flushing[i].put
               /\ \A j \in 1..(a + 1) : i <= j => o.id \notin flushing[j].removed
          \/ UnackedRow(o) \in stored /\ \A j \in 1..(a + 1) : o.id \notin flushing[j].removed
    BY <1>3 DEF Survives
  <2>7. Survives(o)' <=>
          \/ UnackedRow(o) \in unstored
          \/ \E i \in 1..a : /\ UnackedRow(o) \in flushing'[i].put
                             /\ \A j \in 1..a : i <= j => o.id \notin flushing'[j].removed
          \/ UnackedRow(o) \in stored' /\ \A j \in 1..a : o.id \notin flushing'[j].removed
    BY <1>2, <1>3 DEF Survives
  <2> QED
    BY <2>1, <2>2, <2>5, <2>6, <2>7
<1>10. Noted' \subseteq Noted
  BY <1>2, <1>6, <1>8 DEF Noted
<1>11. ASSUME NEW o, RejectedRow(o) \in Noted PROVE RejectedRow(o) \in Noted'
  BY <1>2, <1>6, <1>7, <1>11 DEF Noted
<1> QED
  BY <1>9, <1>10, <1>11

\* What an action leaves of the queue and adds to it, it leaves of the rows and adds to them.
LEMMA MirroredWhen ==
  ASSUME Types, RowsKept, NEW transactions \in Seq(Transactions), NEW waiting, NEW new,
         Begins(transactions, waiting, new), WriteRows(transactions, waiting),
         faults' = faults, reloads' = reloads,
         \A o \in Operations :
           /\ o \in ToSet(unacked') <=>
                \/ UnackedRow(o) \in new
                \/ o \in ToSet(unacked) /\ \A k \in DOMAIN transactions : o.id \notin transactions[k].removed
           /\ o \in rejected' <=> RejectedRow(o) \in new \/ o \in rejected
  PROVE  RowsKept'
<1> SUFFICES ASSUME PageMayClose, "lost_rows" \notin faults PROVE Mirrored'
  BY DEF RowsKept, PageMayClose
<1>1. Mirrored
  BY DEF RowsKept
<1>2. /\ Noted' = Noted \cup new
      /\ \A o : Survives(o)' <=>
           \/ UnackedRow(o) \in new
           \/ Survives(o) /\ \A k \in DOMAIN transactions : o.id \notin transactions[k].removed
  BY RowsBegun
<1>3. ASSUME NEW o \in Operations
      PROVE  /\ Survives(o)' <=> o \in ToSet(unacked')
             /\ RejectedRow(o) \in Noted' <=> o \in rejected'
  <2>1. /\ Survives(o) <=> o \in ToSet(unacked)
        /\ RejectedRow(o) \in Noted <=> o \in rejected
    BY <1>1 DEF Mirrored
  <2>2. RejectedRow(o) \in Noted' <=> RejectedRow(o) \in Noted \/ RejectedRow(o) \in new
    BY <1>2
  <2>3. Survives(o)' <=>
          \/ UnackedRow(o) \in new
          \/ Survives(o) /\ \A k \in DOMAIN transactions : o.id \notin transactions[k].removed
    BY <1>2
  <2> QED
    BY <2>1, <2>2, <2>3
<1> QED
  BY <1>3 DEF Mirrored

\* An action that writes no row and leaves the queues alone.
LEMMA StillKept ==
  ASSUME RowsKept, UNCHANGED <<faults, unacked, rejected, durable, reloads>>
  PROVE  RowsKept'
<1>1. \A o : Survives(o)' <=> Survives(o)
  BY DEF Survives, durable
<1>2. Noted' = Noted
  BY DEF Noted, durable
<1> QED
  BY <1>1, <1>2 DEF RowsKept, PageMayClose, Mirrored

\* No row is of both kinds, and a row is of one operation.
LEMMA RowsDiffer ==
  \A o, p : /\ UnackedRow(o) # RejectedRow(p)
            /\ UnackedRow(o) = UnackedRow(p) => o = p
            /\ RejectedRow(o) = RejectedRow(p) => o = p
BY DEF UnackedRow, RejectedRow

\* The removal of one operation begins.
LEMMA RemovalBegins ==
  ASSUME Types, NEW id \in Ids, NEW new
  PROVE  \E transactions \in Seq(Transactions) :
           /\ transactions = <<Transaction(unstored, {id})>>
           /\ Begins(transactions, new, new)
           /\ \A o : (\A k \in DOMAIN transactions : o.id \notin transactions[k].removed) <=> o.id # id
<1>1. PICK t \in Transactions : t = Transaction(unstored, {id}) /\ t.put = unstored /\ t.removed = {id}
  <2>1. unstored \in SUBSET Rows /\ {id} \in SUBSET Ids
    BY TypeParts
  <2>2. Transaction(unstored, {id}) \in Transactions /\ Transaction(unstored, {id}).put = unstored
    BY <2>1, TransactionIs
  <2>3. Transaction(unstored, {id}).removed = {id}
    BY DEF Transaction
  <2> QED
    BY <2>2, <2>3
<1>2. <<t>> \in Seq(Transactions) /\ <<t>> # <<>> /\ DOMAIN <<t>> = {1} /\ <<t>>[1] = t
  OBVIOUS
<1>3. Begins(<<t>>, new, new)
  BY <1>1, <1>2 DEF Begins
<1>4. \A o : (\A k \in DOMAIN <<t>> : o.id \notin <<t>>[k].removed) <=> o.id # id
  BY <1>1, <1>2
<1> QED
  BY <1>1, <1>2, <1>3, <1>4

\* The user types: a row waits.
LEMMA TypeRows ==
  ASSUME IInv, RowsKept, Type
  PROVE  RowsKept'
<1>1. Types
  BY DEF IInv
<1>2. PICK op : /\ unacked' = Append(unacked, op) /\ op \in Operations
                /\ WriteRows(<<>>, unstored \cup {UnackedRow(op)})
                /\ faults' = faults /\ reloads' = reloads /\ rejected' = rejected
  <2>1. PICK parent \in IdsOf(engine.nodes) \cup {Root} :
          LET op == Op(<<typed + 1, engine.replica>>, parent)
          IN  /\ unacked' = Append(unacked, op)
              /\ WriteRows(<<>>, unstored \cup {UnackedRow(op)})
    BY DEF Type
  <2>2. Op(<<typed + 1, engine.replica>>, parent) \in Operations
    <3>1. /\ engine \in Engine /\ engine.replica # 0 /\ typed < MaxEdits /\ typed \in 0..MaxEdits
          /\ engine.replica \in 0..MaxConnections
      BY <1>1, TypeParts DEF Type, HasEngine, Engine
    <3>2. MaxEdits \in Nat /\ MaxConnections \in Nat
      BY SyncAssumption
    <3>3. typed + 1 \in Edits /\ engine.replica \in Connections
      BY <3>1, <3>2 DEF Edits, Connections
    <3>4. <<typed + 1, engine.replica>> \in Ids
      BY <3>3 DEF Ids
    <3>5. parent \in Ids \cup {Root}
      <4>1. engine.nodes \in SUBSET Operations
        BY <3>1 DEF Engine
      <4> QED
        BY <2>1, <4>1, OperationFields DEF IdsOf
    <3> QED
      BY <3>4, <3>5 DEF Op, Operations
  <2> QED
    BY <2>1, <2>2 DEF Type
<1>3. Begins(<<>>, unstored \cup {UnackedRow(op)}, {UnackedRow(op)})
  BY DEF Begins
<1>4. ToSet(unacked') = ToSet(unacked) \cup {op}
  <2>1. unacked \in Seq(Operations)
    BY <1>1, TypeParts
  <2> QED
    BY <1>2, <2>1, Queues
<1>5. \A o \in Operations :
        /\ o \in ToSet(unacked') <=> UnackedRow(o) \in {UnackedRow(op)} \/ o \in ToSet(unacked)
        /\ RejectedRow(o) \notin {UnackedRow(op)}
  BY <1>4, RowsDiffer
<1>6. PICK transactions \in Seq(Transactions) : transactions = <<>> /\ DOMAIN transactions = {}
  <2>1. <<>> \in Seq(Transactions) /\ DOMAIN <<>> = {}
    OBVIOUS
  <2> QED
    BY <2>1
<1> QED
  BY <1>1, <1>2, <1>3, <1>5, <1>6, MirroredWhen

\* An acknowledgement: a removal begins.
LEMMA AckRows ==
  ASSUME IInv, RowsKept, ReceiveAck
  PROVE  RowsKept'
<1>1. Types /\ Carried
  BY DEF IInv
<1>2. PICK f \in Frames : f = Frame /\ f.kind = "ack" /\ Consumed(f)
  BY <1>1, ReceivesIs DEF ReceiveAck
<1>3. f.id \in Ids
  BY <1>2, FrameFields
<1>4. PICK S, none : S = {op \in ToSet(unacked) : op.id = f.id} /\ none = {}
  OBVIOUS
<1>5. /\ unacked' = Dropped(unacked, S) /\ rejected' = rejected
      /\ WriteRows(<<Transaction(unstored, {f.id})>>, {})
      /\ faults' = faults /\ reloads' = reloads
  BY <1>2, <1>4 DEF ReceiveAck, Without, Receives
<1>6. PICK transactions \in Seq(Transactions) :
        /\ transactions = <<Transaction(unstored, {f.id})>>
        /\ Begins(transactions, none, none)
        /\ \A o : (\A k \in DOMAIN transactions : o.id \notin transactions[k].removed) <=> o.id # f.id
  BY <1>1, <1>3, <1>4, RemovalBegins
<1>7. ToSet(unacked') = ToSet(unacked) \ S
  <2>1. unacked \in Seq(Operations)
    BY <1>1, TypeParts
  <2> QED
    BY <1>5, <2>1, DroppedIs
<1>8. \A o \in Operations : o \in ToSet(unacked') <=> o \in ToSet(unacked) /\ o.id # f.id
  BY <1>4, <1>7
<1>9. WriteRows(transactions, none)
  BY <1>4, <1>5, <1>6
<1>10. \A o \in Operations :
         /\ o \in ToSet(unacked') <=>
              \/ UnackedRow(o) \in none
              \/ o \in ToSet(unacked) /\ \A k \in DOMAIN transactions : o.id \notin transactions[k].removed
         /\ o \in rejected' <=> RejectedRow(o) \in none \/ o \in rejected
  BY <1>4, <1>5, <1>6, <1>8
<1> QED
  BY <1>1, <1>5, <1>6, <1>9, <1>10, MirroredWhen

\* A rejection: a removal begins and the row of the rejection waits.
LEMMA RejectRows ==
  ASSUME IInv, RowsKept, ReceiveReject
  PROVE  RowsKept'
<1>1. Types /\ Carried
  BY DEF IInv
<1>2. PICK f \in Frames : f = Frame /\ f.kind = "reject" /\ Consumed(f)
  BY <1>1, ReceivesIs DEF ReceiveReject
<1>3. f.op \in Operations /\ f.op.id \in Ids
  BY <1>2, FrameFields, OperationFields
<1>4. PICK S : S = {op \in ToSet(unacked) : op.id = f.op.id}
  OBVIOUS
<1>5. /\ unacked' = Dropped(unacked, S) /\ rejected' = rejected \cup {f.op}
      /\ WriteRows(<<Transaction(unstored, {f.op.id})>>, {RejectedRow(f.op)})
      /\ faults' = faults /\ reloads' = reloads
  BY <1>2, <1>4 DEF ReceiveReject, Without, Receives, PreserveRejected
<1>6. PICK transactions \in Seq(Transactions) :
        /\ transactions = <<Transaction(unstored, {f.op.id})>>
        /\ Begins(transactions, {RejectedRow(f.op)}, {RejectedRow(f.op)})
        /\ \A o : (\A k \in DOMAIN transactions : o.id \notin transactions[k].removed) <=> o.id # f.op.id
  BY <1>1, <1>3, RemovalBegins
<1>7. ToSet(unacked') = ToSet(unacked) \ S
  <2>1. unacked \in Seq(Operations)
    BY <1>1, TypeParts
  <2> QED
    BY <1>5, <2>1, DroppedIs
<1>8. \A o \in Operations :
        /\ o \in ToSet(unacked') <=> o \in ToSet(unacked) /\ o.id # f.op.id
        /\ UnackedRow(o) \notin {RejectedRow(f.op)}
        /\ o \in rejected' <=> RejectedRow(o) \in {RejectedRow(f.op)} \/ o \in rejected
  BY <1>4, <1>5, <1>7, RowsDiffer
<1>9. WriteRows(transactions, {RejectedRow(f.op)})
  BY <1>5, <1>6
<1>10. \A o \in Operations :
         /\ o \in ToSet(unacked') <=>
              \/ UnackedRow(o) \in {RejectedRow(f.op)}
              \/ o \in ToSet(unacked) /\ \A k \in DOMAIN transactions : o.id \notin transactions[k].removed
         /\ o \in rejected' <=> RejectedRow(o) \in {RejectedRow(f.op)} \/ o \in rejected
  BY <1>6, <1>8
<1> QED
  BY <1>1, <1>5, <1>6, <1>9, <1>10, MirroredWhen

\* The removals of the operations reported begin, and new rows wait.
LEMMA RemovalsBegin ==
  ASSUME Types, NEW queue \in Seq(Operations), NEW new
  PROVE  /\ Removals(queue) \in Seq(Transactions)
         /\ Begins(Removals(queue), (IF queue = <<>> THEN unstored ELSE {}) \cup new, new)
         /\ \A o : (\A k \in DOMAIN Removals(queue) : o.id \notin Removals(queue)[k].removed) <=>
                     o.id \notin IdsOf(ToSet(queue))
<1>1. Removals(queue) \in Seq(Transactions)
  BY RemovalsAre
<1>2. /\ DOMAIN Removals(queue) = DOMAIN queue
      /\ \A i \in DOMAIN queue : /\ Removals(queue)[i].put = IF i = 1 THEN unstored ELSE {}
                                 /\ Removals(queue)[i].removed = {queue[i].id}
  BY DEF Removals, Transaction
<1>3. Begins(Removals(queue), (IF queue = <<>> THEN unstored ELSE {}) \cup new, new)
  <2>1. CASE queue = <<>>
    <3>1. DOMAIN Removals(queue) = {}
      BY <1>2, <2>1
    <3>2. Removals(queue) = <<>>
      BY <1>1, <3>1
    <3> QED
      BY <2>1, <3>2 DEF Begins
  <2>2. CASE queue # <<>>
    <3>1. 1 \in DOMAIN queue
      BY <2>2
    <3>2. Removals(queue) # <<>>
      <4>1. DOMAIN <<>> = {}
        OBVIOUS
      <4> QED
        BY <1>2, <3>1, <4>1
    <3> QED
      BY <1>2, <2>2, <3>2 DEF Begins
  <2> QED
    BY <2>1, <2>2
<1>4. ASSUME NEW o
      PROVE  (\A k \in DOMAIN Removals(queue) : o.id \notin Removals(queue)[k].removed) <=>
               o.id \notin IdsOf(ToSet(queue))
  <2>1. IdsOf(ToSet(queue)) = {queue[i].id : i \in DOMAIN queue}
    BY DEF IdsOf, ToSet
  <2> QED
    BY <1>2, <2>1
<1> QED
  BY <1>1, <1>3, <1>4

\* The end of the handshake: the operations reported are to be removed, the ones
\* minted again wait.
LEMMA FinishRows ==
  ASSUME IInv, RowsKept, FinishHandshake
  PROVE  RowsKept'
<1>1. Types /\ Successions /\ Renewals /\ Carried /\ Identity
  BY DEF IInv
<1>2. PICK f \in Frames : f = gate[1] /\ f.kind = "have" /\ f \in ToSet(gate) /\ 1 \in DOMAIN gate
  BY <1>1, GateIs DEF FinishHandshake
<1>3. engine \in Engine /\ unacked \in Seq(Operations) /\ conn \in 0..MaxConnections
  BY <1>1, TypeParts
<1>4. engine.replica # 0
  <2>1. conn > 0
    BY <1>1, <1>2 DEF FinishHandshake, Successions
  <2>2. engine.replica = conn
    BY <1>1, <1>2 DEF Renewals
  <2> QED
    BY <1>3, <2>1, <2>2, Bounds
<1>5. PICK hello : hello = {op \in ToSet(unacked) : op.id \in helloUnacked}
  OBVIOUS
<1>6. PICK reported \in Seq(Operations) : reported = Kept(unacked, hello) /\ ToSet(reported) = hello
  <2>1. Kept(unacked, hello) \in Seq(Operations) /\ ToSet(Kept(unacked, hello)) = ToSet(unacked) \cap hello
    BY <1>3, KeptIs
  <2>2. ToSet(unacked) \cap hello = hello
    BY <1>5
  <2> QED
    BY <2>1, <2>2
<1>7. PICK recon \in Seq(Operations) : recon = ToReconcile(reported, f.ids) /\ ToSet(recon) \subseteq hello
  <2>1. PICK H : H = {op \in ToSet(reported) : op.id \in f.ids}
    OBVIOUS
  <2>2. Dropped(reported, H) \in Seq(Operations) /\ ToSet(Dropped(reported, H)) = ToSet(reported) \ H
    BY DroppedIs
  <2>3. ToReconcile(reported, f.ids) = Dropped(reported, H)
    BY <2>1 DEF ToReconcile
  <2> QED
    BY <1>6, <2>2, <2>3
<1>8. PICK rest \in Seq(Operations) : rest = Dropped(unacked, hello) /\ ToSet(rest) = ToSet(unacked) \ hello
  BY <1>3, DroppedIs
<1>9. PICK new \in Seq(Operations) : new = Reminted(recon)
  <2>1. \A o \in ToSet(recon) : o.id[2] # 0
    BY <1>1, <1>5, <1>7 DEF Identity, Descent, Descends
  <2>2. Reminted(recon) \in Seq(Operations)
    BY <1>3, <1>4, <2>1, RemintedIs
  <2> QED
    BY <2>2
<1>10. PICK rows : rows = {UnackedRow(op) : op \in ToSet(new)}
  OBVIOUS
<1>11. /\ unacked' = rest \o new /\ rejected' = rejected /\ faults' = faults /\ reloads' = reloads
       /\ WriteRows(Removals(reported), (IF reported = <<>> THEN unstored ELSE {}) \cup rows)
  BY <1>2, <1>5, <1>6, <1>7, <1>8, <1>9, <1>10 DEF FinishHandshake, QueueAgain
<1>12. /\ Removals(reported) \in Seq(Transactions)
       /\ Begins(Removals(reported), (IF reported = <<>> THEN unstored ELSE {}) \cup rows, rows)
       /\ \A o : (\A k \in DOMAIN Removals(reported) : o.id \notin Removals(reported)[k].removed) <=>
                   o.id \notin IdsOf(ToSet(reported))
  BY <1>1, RemovalsBegin
<1>13. ToSet(unacked') = ToSet(rest) \cup ToSet(new)
  BY <1>11, Joins
<1>14. ASSUME NEW o \in Operations
       PROVE  /\ o \in ToSet(unacked') <=>
                   \/ UnackedRow(o) \in rows
                   \/ /\ o \in ToSet(unacked)
                      /\ \A k \in DOMAIN Removals(reported) : o.id \notin Removals(reported)[k].removed
              /\ o \in rejected' <=> RejectedRow(o) \in rows \/ o \in rejected
  <2>1. (UnackedRow(o) \in rows <=> o \in ToSet(new)) /\ RejectedRow(o) \notin rows
    BY <1>10, RowsDiffer
  <2>2. o \in ToSet(unacked) => (o.id \in IdsOf(ToSet(reported)) <=> o \in hello)
    BY <1>5, <1>6 DEF IdsOf
  <2>3. (\A k \in DOMAIN Removals(reported) : o.id \notin Removals(reported)[k].removed) <=>
          o.id \notin IdsOf(ToSet(reported))
    BY <1>12
  <2>4. o \in ToSet(rest) <=> o \in ToSet(unacked) /\ o \notin hello
    BY <1>8
  <2> QED
    BY <1>11, <1>13, <2>1, <2>2, <2>3, <2>4
<1> QED
  BY <1>1, <1>11, <1>12, <1>14, MirroredWhen

\* The debounced write of the rows that wait.
LEMMA FlushRows ==
  ASSUME IInv, RowsKept, Flush
  PROVE  RowsKept'
<1>1. Types /\ unstored \in SUBSET Rows
  BY TypeParts DEF IInv
<1>2. PICK t \in Transactions : t = Transaction(unstored, {}) /\ t.put = unstored /\ t.removed = {}
  <2>1. {} \in SUBSET Ids
    OBVIOUS
  <2>2. Transaction(unstored, {}).removed = {}
    BY DEF Transaction
  <2> QED
    BY <1>1, <2>1, <2>2, TransactionIs
<1>3. PICK transactions \in Seq(Transactions) : /\ transactions = <<t>> /\ transactions # <<>>
                                               /\ DOMAIN transactions = {1} /\ transactions[1] = t
  <2>1. <<t>> \in Seq(Transactions) /\ <<t>> # <<>> /\ DOMAIN <<t>> = {1} /\ <<t>>[1] = t
    OBVIOUS
  <2> QED
    BY <2>1
<1>4. PICK none : none = {}
  OBVIOUS
<1>5. Begins(transactions, none, none)
  BY <1>2, <1>3, <1>4 DEF Begins
<1>6. /\ WriteRows(transactions, none) /\ faults' = faults /\ reloads' = reloads
      /\ unacked' = unacked /\ rejected' = rejected
  BY <1>2, <1>3, <1>4 DEF Flush
<1>7. \A o : \A k \in DOMAIN transactions : o.id \notin transactions[k].removed
  BY <1>2, <1>3
<1>8. \A o \in Operations :
         /\ o \in ToSet(unacked') <=>
              \/ UnackedRow(o) \in none
              \/ o \in ToSet(unacked) /\ \A k \in DOMAIN transactions : o.id \notin transactions[k].removed
         /\ o \in rejected' <=> RejectedRow(o) \in none \/ o \in rejected
  BY <1>4, <1>6, <1>7
<1> QED
  BY <1>1, <1>5, <1>6, <1>8, MirroredWhen

\* A transaction commits, or fails, which is ruled out.
LEMMA EndRows ==
  ASSUME IInv, RowsKept, CommitRows \/ LoseRows
  PROVE  RowsKept'
<1>1. /\ faults' = faults /\ reloads' = reloads /\ unacked' = unacked /\ rejected' = rejected
  BY DEF CommitRows, LoseRows, EndTransaction
<1>2. CASE LoseRows
  BY <1>1, <1>2 DEF LoseRows, RowsKept, PageMayClose
<1>3. CASE CommitRows
  <2>1. /\ Noted' \subseteq Noted
        /\ (\A o : RejectedRow(o) \in Noted => RejectedRow(o) \in Noted')
        /\ \A o : Survives(o)' <=> Survives(o)
    BY <1>3, CommitMirrors DEF IInv
  <2> QED
    BY <1>1, <2>1 DEF RowsKept, PageMayClose, Mirrored
<1> QED
  BY <1>2, <1>3

\* The page opens again with the rows that are stored.
LEMMA ReloadRows ==
  ASSUME IInv, RowsKept, Reload
  PROVE  RowsKept'
<1>1. /\ stored' = stored /\ flushing' = <<>> /\ unstored' = {} /\ RowsMayLag
      /\ unacked' = LoadUnacked /\ rejected' = LoadRejected
  BY DEF Reload, LoadUnacked, LoadRejected
<1>2. /\ \A o \in Operations : UnackedRow(o) \in stored <=> o \in ToSet(LoadUnacked)
      /\ \A o \in Operations : RejectedRow(o) \in stored <=> o \in LoadRejected
  BY <1>1, LoadedIs
<1>3. DOMAIN flushing' = {} /\ ToSet(flushing') = {}
  BY <1>1, NoMembers
<1>4. \A o : Survives(o)' <=> UnackedRow(o) \in stored
  BY <1>1, <1>3 DEF Survives
<1>5. Noted' = stored
  BY <1>1, <1>3 DEF Noted
<1> QED
  BY <1>1, <1>2, <1>4, <1>5 DEF RowsKept, Mirrored

\* Every step keeps the rows.
LEMMA NextRows ==
  ASSUME IInv, RowsKept, [Next]_vars
  PROVE  RowsKept'
<1>1. CASE \/ \E n \in Connections : Handshake(n) \/ Take(n)
           \/ PeerEdit \/ Commit
           \/ \E op \in parked : Sweep(op)
           \/ OpenSocket \/ Drop \/ ReceiveWelcome \/ ReceiveSnapshot \/ ReceiveBegin \/ ReceiveChained
           \/ ReceiveOp \/ RunYield \/ RunChunk \/ RunEnd \/ UNCHANGED vars
  <2>1. UNCHANGED <<faults, unacked, rejected, durable, reloads>>
    BY <1>1 DEF Handshake, Admit, CloseMalformed, SendCatchup, SendAlreadyHave, NoticeClose, Take,
                RejectMismatch, AcceptOperation, TakeOperation, PeerEdit, Commit, Sweep, OpenSocket,
                Drop, ReceiveWelcome, ReceiveSnapshot, ReceiveBegin, ReceiveChained, ReceiveOp,
                Receives, RunYield, RunChunk, RunEnd, vars, client
  <2> QED
    BY <2>1, StillKept
<1>2. CASE Reload \/ ReceiveAck \/ ReceiveReject \/ FinishHandshake
  BY <1>2, ReloadRows, AckRows, RejectRows, FinishRows
<1>3. CASE Type \/ Flush \/ CommitRows \/ LoseRows
  BY <1>3, TypeRows, FlushRows, EndRows
<1> QED
  BY <1>1, <1>2, <1>3 DEF Next, Receive, Run

\* At the start there is nothing to keep.
LEMMA InitRows ==
  ASSUME Init
  PROVE  RowsKept
<1>1. /\ stored = {} /\ flushing = <<>> /\ unstored = {} /\ unacked = <<>> /\ rejected = {}
  BY DEF Init
<1>2. DOMAIN flushing = {} /\ ToSet(flushing) = {} /\ ToSet(unacked) = {}
  BY <1>1, NoMembers
<1> QED
  BY <1>1, <1>2 DEF RowsKept, Mirrored, Survives, Noted

\* At rest the rows are what memory holds.
LEMMA RowsAtRest ==
  ASSUME Types, RowsKept
  PROVE  RowsComplete
<1> SUFFICES ASSUME flushing = <<>>, unstored = {}, PageMayClose, "lost_rows" \notin faults
             PROVE  StoredAs("unacked") = ToSet(unacked) /\ StoredAs("rejected") = rejected
  BY DEF RowsComplete
<1>1. Mirrored
  BY DEF RowsKept
<1>2. DOMAIN flushing = {} /\ ToSet(flushing) = {}
  BY NoMembers
<1>3. \A o : Survives(o) <=> UnackedRow(o) \in stored
  BY <1>2 DEF Survives
<1>4. Noted = stored
  BY <1>2 DEF Noted
<1>5. /\ stored \in SUBSET ({"unacked", "rejected"} \X Operations)
      /\ rejected \in SUBSET Operations /\ unacked \in Seq(Operations)
  BY TypeParts DEF Rows
<1>6. \A o \in Operations : /\ UnackedRow(o) \in stored <=> o \in StoredAs("unacked")
                            /\ RejectedRow(o) \in stored <=> o \in StoredAs("rejected")
  BY <1>5 DEF UnackedRow, RejectedRow, StoredAs
<1>7. StoredAs("unacked") \in SUBSET Operations /\ StoredAs("rejected") \in SUBSET Operations
  BY <1>5 DEF StoredAs
<1>8. ToSet(unacked) \in SUBSET Operations
  BY <1>5, Queues
<1> QED
  BY <1>1, <1>3, <1>4, <1>5, <1>6, <1>7, <1>8 DEF Mirrored

\* The durable queue keeps what memory keeps: with every transaction that began
\* through, whatever was typed, acknowledged, refused and minted again meanwhile and
\* in whatever order the rows were put and removed, the rows are the operations that
\* are unsaved and the rejections (durableQueue.ts:219-270, unackedQueue.ts:43-73).
THEOREM RowsCompleteAlways == Spec /\ Orderly => []RowsComplete
<1> DEFINE Inv == IInv /\ RowsKept
<1>1. Init /\ Orderly => Inv
  BY InitInv, InitRows
<1>2. Inv /\ [Next]_vars => Inv'
  BY NextStep, NextRows
<1>3. Inv => RowsComplete
  BY RowsAtRest DEF IInv
<1> QED
  BY <1>1, <1>2, <1>3, PTL DEF Spec

=============================================================================
