---------------------------- MODULE Sync_proofs ----------------------------
(***************************************************************************)
(* Proofs about synchronisation: Sync is well typed, implements            *)
(* SharedDocument and, while typing waits for the new engine, refuses and  *)
(* parks nothing, for any number of edits, peers, connections and reloads, *)
(* whatever the lanes, the commits, the chunks, the reconnections and the  *)
(* failures of the durable queue do.  The premise is Orderly: no frame of  *)
(* an old connection is handled after the next HELLO, the role lookups of  *)
(* a session answer in order, and a page that opens finds no row of an     *)
(* operation that was answered or minted again.                            *)
(***************************************************************************)
EXTENDS Sync, FiniteSetTheorems, TLAPS

-----------------------------------------------------------------------------
(* The inductive invariant: types *)

\* The premise: no frame of an old connection is handled after the next HELLO, the
\* role lookups of a session answer in order, and no row is found that has been
\* answered or minted again.
Orderly == {"late_frames", "lookups", "lagging_rows", "stale_rows"} \cap faults = {}

\* What a sequence number of a log entry can be.
Numbered == [seq : Nat, op : Operations]

Types ==
  /\ TypeOK
  /\ Orderly
  /\ IsFiniteSet(seqs.confirmed) /\ IsFiniteSet(seqs.livePending)
  /\ \A n \in Connections : session[n].to <= Len(log)

-----------------------------------------------------------------------------
(* The inductive invariant: sessions and lanes *)

\* What the frames under way on a connection are: HELLO first, until it is
\* taken, and nothing on a connection that was not opened.
Talks ==
  \A n \in Connections :
    /\ n > conn => up[n] = <<>> /\ session[n] = NewSession
    /\ n <= conn /\ session[n].stage = "open" => up[n] # <<>> /\ up[n][1].kind = "hello"
    /\ \A i \in DOMAIN up[n] : up[n][i].kind = "hello" => i = 1 /\ session[n].stage = "open"

\* Every connection before this one is closed.
Alone(n) == \A m \in 1..(n - 1) : session[m].stage = "closed"

\* The frames that make a new engine.
Renews(f) == f.kind \in {"snapshot", "begin"} \/ (f.kind = "welcome" /\ f.mode = "current")

\* A session joins once the ones before it are closed, and an engine is made for
\* it only then.
Successions ==
  /\ open \/ gate # <<>> => conn > 0
  /\ engine.replica <= conn
  /\ engine.replica = conn \/ (\E i \in DOMAIN control : Renews(control[i])) => Alone(conn)
  /\ \A n \in Connections : session[n].stage \notin {"open", "closed"} => Alone(n)

\* ALREADY_HAVE finds the engine of its connection.
Renewals ==
  /\ open /\ session[conn].stage \in {"checking", "joined"} =>
       engine.replica = conn \/ \E i \in DOMAIN control : Renews(control[i])
  /\ \A i \in DOMAIN control : control[i].kind = "have" =>
       engine.replica = conn \/ \E j \in 1..(i - 1) : Renews(control[j])
  /\ \A i \in DOMAIN gate : gate[i].kind = "have" => engine.replica = conn

\* What the frames to the client carry is in the log.
Told(f) ==
  /\ f.kind = "op" => f.op \in ToSet(log)
  /\ f.kind = "snapshot" => f.nodes \subseteq ToSet(log)
  /\ f.kind = "chunk" => \A entry \in f.entries : entry.op \in ToSet(log)
  /\ f.kind = "ack" => f.id \in IdsOf(ToSet(log))

Carried ==
  /\ ~open => ops = <<>> /\ control = <<>>
  /\ \A i \in DOMAIN ops : ops[i].kind \in {"op", "ack", "reject"}
  /\ \A f \in ToSet(ops) \cup ToSet(control) \cup ToSet(gate) : Told(f)

-----------------------------------------------------------------------------
(* The inductive invariant: identifiers *)

\* Where operations stand among the frames under way on a connection, and which
\* of them its session would take.
OpsAt(n) == {i \in DOMAIN up[n] : up[n][i].kind = "op"}

LiveAt(n) == {i \in OpsAt(n) : session[n].stage # "closed" /\ up[n][i].op.id[2] = n}

EditsOf(S) == {o.id[1] : o \in S}

\* Where an identifier may be met.
Met(k) ==
  \/ k \in IdsOf(ToSet(log) \cup parked \cup ToSet(unacked) \cup engine.nodes \cup engine.pending)
  \/ \E o \in parked : k = o.parent
  \/ \E n \in Connections : \E i \in OpsAt(n) : k \in {up[n][i].op.id, up[n][i].op.parent}

\* It has been minted: those of the others are in the log.
Minted ==
  \A k \in Ids : Met(k) =>
    IF k[2] = 0 THEN k \in IdsOf(ToSet(log)) ELSE k[1] \in 1..typed /\ k[2] <= conn

\* Of an operation that is queued, no later copy is anywhere.
Newest ==
  \A k \in Ids, o \in ToSet(unacked) : Met(k) /\ k[1] = o.id[1] => k[2] <= o.id[2]

\* An operation hangs under an earlier one; none of them is a peer's.
Descends(o) == o.id[2] # 0 /\ (o.parent[2] # 0 => o.parent[1] < o.id[1])

Descent ==
  /\ \A o \in parked \cup ToSet(unacked) : Descends(o)
  /\ \A n \in Connections : \A i \in OpsAt(n) : Descends(up[n][i].op)

\* A parent that is queued is queued before its children, and no child hangs
\* under a later copy than the queued one.
ParentsFirst ==
  /\ \A i, j \in DOMAIN unacked : unacked[i].parent = unacked[j].id => j < i
  /\ \A o, p \in ToSet(unacked) : o.parent[1] = p.id[1] => o.parent[2] <= p.id[2]

\* What the others have made.
Made == {i \in DOMAIN log : log[i].id[2] = 0}

PeersCounted ==
  \A i \in Made : log[i].id[1] <= MaxEdits + Cardinality(Made)

\* Every edit is in the log once.
LoggedOnce == \A i, j \in DOMAIN log : i # j => log[i].id[1] # log[j].id[1]

Identity == Minted /\ Newest /\ Descent /\ ParentsFirst /\ PeersCounted /\ LoggedOnce

-----------------------------------------------------------------------------
(* The inductive invariant: what becomes of an operation *)

\* An operation under way is not saved, refused or parked yet.
Lively ==
  \A n \in Connections : \A i \in LiveAt(n) :
    /\ up[n][i].op.id[1] \notin EditsOf(ToSet(log) \cup rejected)
    /\ up[n][i].op.id \notin IdsOf(parked)

\* It is the only copy of its edit under way.
Single ==
  \A n, m \in Connections : \A i \in LiveAt(n), j \in LiveAt(m) :
    up[n][i].op.id[1] = up[m][j].op.id[1] => n = m /\ i = j

\* Its parent, if it is under way too, is ahead of it.
Forward ==
  \A n, m \in Connections : \A i \in LiveAt(n), j \in LiveAt(m) :
    up[n][i].op.parent = up[m][j].op.id => n = m /\ j < i

\* Of a parked operation, the parent will never come.
Hopeless ==
  \A o \in parked :
    /\ o.parent # Root /\ o.parent \notin IdsOf(ToSet(log))
    /\ \A n \in Connections : \A i \in LiveAt(n) : up[n][i].op.id # o.parent

\* An edit is queued once.
Distinct == \A i, j \in DOMAIN unacked : i # j => unacked[i].id[1] # unacked[j].id[1]

\* A queued operation is not refused, and no other copy of it is saved or under
\* way.
Unsaved ==
  \A o \in ToSet(unacked) :
    /\ o.id[1] \in EditsOf(ToSet(log)) => o.id \in IdsOf(ToSet(log))
    /\ o.id[1] \notin EditsOf(rejected)
    /\ \A n \in Connections : \A i \in LiveAt(n) :
         up[n][i].op.id[1] = o.id[1] => up[n][i].op.id = o.id

\* An operation whose answer is still to come is queued, unless the answer has
\* come in another way.
Awaited(o) ==
  \/ o \in ToSet(unacked)
  \/ o.id[1] \in EditsOf(ToSet(log) \cup rejected) \ EditsOf(ToSet(unacked))

Answerable(o) ==
  /\ Awaited(o) /\ o.id \notin helloUnacked /\ o.id[1] \in 1..typed
  /\ \A n \in Connections : \A i \in LiveAt(n) : up[n][i].op.id[1] # o.id[1]

Answers ==
  open =>
    /\ \A i \in OpsAt(conn) : Awaited(up[conn][i].op) /\ up[conn][i].op.id \notin helloUnacked
    /\ \A o \in parked : o.id[2] = conn => Awaited(o)
    /\ \A f \in ToSet(ops) \cup ToSet(control) : f.kind = "reject" => Answerable(f.op)

\* What HELLO reported is on the server's side what it is on the client's, and
\* ALREADY_HAVE says of each operation whether it is saved.
Had(f) ==
  /\ \A o \in ToSet(unacked) : o.id \in helloUnacked =>
       (o.id \in f.ids <=> o.id[1] \in EditsOf(ToSet(log)))
  /\ Alone(conn)

Reported ==
  /\ \A k \in helloUnacked : k[2] < conn /\ k[1] \in 1..typed
  /\ open /\ session[conn].stage \in {"catchup", "checking"} => session[conn].unacked = helloUnacked
  /\ open /\ session[conn].stage = "open" => up[conn][1].unacked = helloUnacked
  /\ \A f \in ToSet(control) \cup ToSet(gate) : f.kind = "have" => Had(f)

\* The rows that are stored, or put by a transaction to come.
Noted == stored \cup unstored \cup UNION {t.put : t \in ToSet(flushing)}

\* What a page finds when it opens: the operations in order, and the rejections.
LoadUnacked == InOrder(StoredAs("unacked"))

LoadRejected == StoredAs("rejected")

\* The durable queue holds no rejection that memory does not.
Stored == \A o \in Operations : RejectedRow(o) \in Noted => o \in rejected

Refusals == \A o \in rejected : o.id[1] \in 1..typed

Fates ==
  /\ Lively /\ Single /\ Forward /\ Hopeless /\ Distinct /\ Unsaved
  /\ Answers /\ Reported /\ Stored /\ Refusals

IInv ==
  /\ Types /\ Talks /\ Successions /\ Renewals /\ Carried
  /\ Identity /\ Fates

-----------------------------------------------------------------------------
(* Sets of numbers and of operations in order *)

\* A set of numbers that is not empty has a least one.
LEMMA LeastNatural ==
  ASSUME NEW T \in SUBSET Nat, T # {}
  PROVE  \E x \in T : \A y \in T : x <= y
<1> DEFINE R == {p \in Nat \X Nat : p[1] < p[2]}
<1>1. IsWellFoundedOn(R, Nat)
  BY NatLessThanWellFounded DEF OpToRel
<1>2. \A x, y \in Nat : <<y, x>> \in R <=> y < x
  OBVIOUS
<1>3. PICK x \in T : \A y \in T : ~(<<y, x>> \in R)
  <2> HIDE DEF R
  <2> QED
    BY <1>1, WFMin
<1>4. \A y \in T : y \in Nat /\ ~(y < x)
  BY <1>2, <1>3
<1> HIDE DEF R
<1> QED
  BY <1>4

\* How many elements of S come before d.
Before(S, R, d) == {e \in S : <<e, d>> \in R}

\* In a finite, strictly ordered set each place is taken by one element.
LEMMA Places ==
  ASSUME NEW S, IsFiniteSet(S), NEW R,
         \A x \in S : <<x, x>> \notin R,
         \A x, y, z \in S : <<x, y>> \in R /\ <<y, z>> \in R => <<x, z>> \in R,
         \A x, y \in S : x = y \/ <<x, y>> \in R \/ <<y, x>> \in R
  PROVE  /\ Cardinality(S) \in Nat
         /\ \A d \in S : Cardinality(Before(S, R, d)) \in 0..Cardinality(S) - 1
         /\ \A x, y \in S : <<x, y>> \in R =>
              Cardinality(Before(S, R, x)) < Cardinality(Before(S, R, y))
         /\ \A i \in 0..Cardinality(S) - 1 : \E d \in S : Cardinality(Before(S, R, d)) = i
<1> DEFINE n == Cardinality(S)
           place == [d \in S |-> Cardinality(Before(S, R, d))]
<1>1. n \in Nat
  BY FS_CardinalityType
<1>2. \A T \in SUBSET S : /\ IsFiniteSet(T) /\ Cardinality(T) \in Nat /\ Cardinality(T) <= n
                          /\ T # S => Cardinality(T) < n
  <2> SUFFICES ASSUME NEW T \in SUBSET S
               PROVE  /\ IsFiniteSet(T) /\ Cardinality(T) \in Nat /\ Cardinality(T) <= n
                      /\ T # S => Cardinality(T) < n
    OBVIOUS
  <2>1. IsFiniteSet(T) /\ Cardinality(T) <= n /\ (n = Cardinality(T) => S = T)
    BY FS_Subset
  <2>2. Cardinality(T) \in Nat
    BY <2>1, FS_CardinalityType
  <2> QED
    BY <1>1, <2>1, <2>2
<1>3. ASSUME NEW d \in S PROVE Cardinality(Before(S, R, d)) \in 0..n - 1
  <2>1. Before(S, R, d) \in SUBSET S /\ d \notin Before(S, R, d)
    BY DEF Before
  <2>2. Before(S, R, d) # S
    BY <2>1
  <2>3. Cardinality(Before(S, R, d)) \in Nat /\ Cardinality(Before(S, R, d)) < n
    BY <1>2, <2>1, <2>2
  <2> QED
    BY <1>1, <2>3
<1>4. ASSUME NEW x \in S, NEW y \in S, <<x, y>> \in R
      PROVE  Cardinality(Before(S, R, x)) < Cardinality(Before(S, R, y))
  <2>1. Before(S, R, x) \in SUBSET Before(S, R, y)
    BY <1>4 DEF Before
  <2>2. x \in Before(S, R, y) /\ x \notin Before(S, R, x)
    BY <1>4 DEF Before
  <2>3. Before(S, R, x) \in SUBSET S /\ Before(S, R, y) \in SUBSET S
    BY DEF Before
  <2>4. IsFiniteSet(Before(S, R, y)) /\ Cardinality(Before(S, R, y)) \in Nat
        /\ Cardinality(Before(S, R, x)) \in Nat
    BY <1>2, <2>3
  <2>5. /\ Cardinality(Before(S, R, x)) <= Cardinality(Before(S, R, y))
        /\ Cardinality(Before(S, R, y)) = Cardinality(Before(S, R, x)) =>
             Before(S, R, y) = Before(S, R, x)
    BY <2>1, <2>4, FS_Subset
  <2> QED
    BY <2>2, <2>4, <2>5
<1>5. place \in [S -> 0..n - 1]
  BY <1>3
<1>6. \A x, y \in S : x # y => place[x] # place[y]
  <2> SUFFICES ASSUME NEW x \in S, NEW y \in S, x # y PROVE place[x] # place[y]
    OBVIOUS
  <2>1. Cardinality(Before(S, R, x)) \in Nat /\ Cardinality(Before(S, R, y)) \in Nat
    BY <1>1, <1>3
  <2>2. CASE <<x, y>> \in R
    BY <1>4, <2>1, <2>2
  <2>3. CASE <<y, x>> \in R
    BY <1>4, <2>1, <2>3
  <2> QED
    BY <2>2, <2>3
<1>7. place \in Injection(S, 0..n - 1)
  BY <1>5, <1>6 DEF Injection, IsInjective
<1>8. IsFiniteSet(0..n - 1) /\ Cardinality(0..n - 1) = n
  <2>1. PICK m \in Int : m = n - 1
    BY <1>1
  <2>2. IsFiniteSet(0..m) /\ Cardinality(0..m) = IF 0 > m THEN 0 ELSE m - 0 + 1
    BY FS_Interval
  <2> QED
    BY <1>1, <2>1, <2>2
<1>9. place \in Surjection(S, 0..n - 1)
  BY <1>7, <1>8, FS_Injection
<1>10. \A i \in 0..n - 1 : \E d \in S : Cardinality(Before(S, R, d)) = i
  BY <1>9 DEF Surjection
<1> QED
  BY <1>1, <1>3, <1>4, <1>10

\* The places of a set of positions: which of them is the k-th.
LEMMA PositionsInOrder ==
  ASSUME NEW m \in Nat, NEW at \in SUBSET (1..m)
  PROVE  LET n  == Cardinality(at)
             of == [k \in 1..n |-> CHOOSE i \in at : Cardinality({j \in at : j < i}) = k - 1]
         IN  /\ n \in Nat
             /\ of \in [1..n -> at]
             /\ \A k, l \in 1..n : k < l => of[k] < of[l]
             /\ \A i \in at : \E k \in 1..n : of[k] = i
<1> DEFINE n  == Cardinality(at)
           of == [k \in 1..n |-> CHOOSE i \in at : Cardinality({j \in at : j < i}) = k - 1]
           R  == {p \in (1..m) \X (1..m) : p[1] < p[2]}
<1>1. IsFiniteSet(at)
  <2>1. IsFiniteSet(1..m)
    BY FS_Interval
  <2> QED
    BY <2>1, FS_Subset
<1>2. \A i \in at : Before(at, R, i) = {j \in at : j < i}
  BY DEF Before
<1>3. /\ \A x \in at : <<x, x>> \notin R
      /\ \A x, y, z \in at : <<x, y>> \in R /\ <<y, z>> \in R => <<x, z>> \in R
      /\ \A x, y \in at : x = y \/ <<x, y>> \in R \/ <<y, x>> \in R
      /\ \A x, y \in at : <<x, y>> \in R <=> x < y
  OBVIOUS
<1>4. /\ n \in Nat
      /\ \A i \in at : Cardinality(Before(at, R, i)) \in 0..n - 1
      /\ \A x, y \in at : <<x, y>> \in R =>
           Cardinality(Before(at, R, x)) < Cardinality(Before(at, R, y))
      /\ \A k \in 0..n - 1 : \E i \in at : Cardinality(Before(at, R, i)) = k
  <2> HIDE DEF R
  <2> QED
    BY <1>1, <1>3, Places
<1> DEFINE rank(i) == Cardinality({j \in at : j < i})
<1>5. /\ \A i \in at : rank(i) \in 0..n - 1
      /\ \A x, y \in at : x < y => rank(x) < rank(y)
      /\ \A k \in 0..n - 1 : \E i \in at : rank(i) = k
  <2>1. \A i \in at : rank(i) = Cardinality(Before(at, R, i))
    BY <1>2
  <2> HIDE DEF rank, n, R
  <2>2. \A i \in at : rank(i) \in 0..n - 1
    BY <1>4, <2>1
  <2>3. ASSUME NEW x \in at, NEW y \in at, x < y PROVE rank(x) < rank(y)
    <3>1. Cardinality(Before(at, R, x)) < Cardinality(Before(at, R, y))
      BY <1>3, <1>4, <2>3
    <3> QED
      BY <2>1, <3>1
  <2>4. ASSUME NEW k \in 0..n - 1 PROVE \E i \in at : rank(i) = k
    <3>1. PICK i \in at : Cardinality(Before(at, R, i)) = k
      BY <1>4
    <3> QED
      BY <2>1, <3>1
  <2> QED
    BY <2>2, <2>3, <2>4
<1>6. \A k \in 1..n : of[k] \in at /\ rank(of[k]) = k - 1
  <2> SUFFICES ASSUME NEW k \in 1..n PROVE of[k] \in at /\ rank(of[k]) = k - 1
    OBVIOUS
  <2>1. \E i \in at : rank(i) = k - 1
    BY <1>4, <1>5
  <2>2. of[k] = CHOOSE i \in at : rank(i) = k - 1
    OBVIOUS
  <2> HIDE DEF of, rank
  <2> QED
    BY <2>1, <2>2
<1>7. of \in [1..n -> at]
  <2>1. of = [k \in 1..n |-> of[k]]
    OBVIOUS
  <2> HIDE DEF of
  <2> QED
    BY <1>6, <2>1
<1>8. \A i \in at : i \in Nat
  OBVIOUS
<1> HIDE DEF R
<1>9. \A k, l \in 1..n : k < l => of[k] < of[l]
  <2> SUFFICES ASSUME NEW k \in 1..n, NEW l \in 1..n, k < l PROVE of[k] < of[l]
    OBVIOUS
  <2> HIDE DEF of, rank, n
  <2>1. of[k] \in at /\ of[l] \in at /\ rank(of[k]) = k - 1 /\ rank(of[l]) = l - 1
    BY <1>6
  <2>2. k - 1 < l - 1 /\ ~(l - 1 < k - 1)
    BY <1>4
  <2>3. \A x, y \in at : x < y => rank(x) < rank(y)
    BY <1>5
  <2>4. ~(of[l] < of[k]) /\ of[k] # of[l]
    BY <2>1, <2>2, <2>3
  <2>5. of[k] \in Nat /\ of[l] \in Nat
    BY <1>8, <2>1
  <2> QED
    BY <2>4, <2>5
<1>10. \A i \in at : \E k \in 1..n : of[k] = i
  <2> SUFFICES ASSUME NEW i \in at PROVE \E k \in 1..n : of[k] = i
    OBVIOUS
  <2> HIDE DEF of, rank, n
  <2>1. rank(i) \in 0..n - 1
    BY <1>5
  <2>2. rank(i) + 1 \in 1..n
    BY <1>4, <2>1
  <2>3. of[rank(i) + 1] \in at /\ rank(of[rank(i) + 1]) = rank(i)
    BY <1>4, <1>6, <2>1, <2>2
  <2>4. ~(rank(i) < rank(i))
    BY <2>1
  <2>5. \A x, y \in at : x < y => rank(x) < rank(y)
    BY <1>5
  <2>6. ~(of[rank(i) + 1] < i) /\ ~(i < of[rank(i) + 1])
    BY <2>3, <2>4, <2>5
  <2>7. of[rank(i) + 1] \in Nat /\ i \in Nat
    BY <1>8, <2>3
  <2> QED
    BY <2>2, <2>6, <2>7
<1> QED
  BY <1>4, <1>7, <1>9, <1>10

\* What is kept of a queue: where it was in the queue.
KeptFrom(queue, S, kept, from) ==
  /\ from \in [DOMAIN kept -> DOMAIN queue]
  /\ \A k \in DOMAIN kept : kept[k] = queue[from[k]] /\ queue[from[k]] \in S
  /\ \A k, l \in DOMAIN kept : k < l => from[k] < from[l]
  /\ \A i \in DOMAIN queue : queue[i] \in S => \E k \in DOMAIN kept : from[k] = i

\* A queue of which everything is kept.
LEMMA KeptWhole ==
  ASSUME NEW X, NEW queue \in Seq(X), NEW S, \A i \in DOMAIN queue : queue[i] \in S
  PROVE  /\ Kept(queue, S) \in Seq(X)
         /\ ToSet(Kept(queue, S)) = ToSet(queue) \cap S
         /\ \E from : KeptFrom(queue, S, Kept(queue, S), from)
<1>1. {i \in DOMAIN queue : queue[i] \in S} = DOMAIN queue
  OBVIOUS
<1>2. Kept(queue, S) = queue
  BY <1>1 DEF Kept
<1>3. ToSet(queue) = ToSet(queue) \cap S
  BY DEF ToSet
<1>4. KeptFrom(queue, S, queue, [k \in DOMAIN queue |-> k])
  BY DEF KeptFrom
<1> QED
  BY <1>2, <1>3, <1>4

\* What is kept of a queue is what is in the set, where it was in the queue.
LEMMA KeptIs ==
  ASSUME NEW X, NEW queue \in Seq(X), NEW S
  PROVE  /\ Kept(queue, S) \in Seq(X)
         /\ ToSet(Kept(queue, S)) = ToSet(queue) \cap S
         /\ \E from : KeptFrom(queue, S, Kept(queue, S), from)
<1> DEFINE at == {i \in DOMAIN queue : queue[i] \in S}
           n  == Cardinality(at)
           of == [k \in 1..n |-> CHOOSE i \in at : Cardinality({j \in at : j < i}) = k - 1]
           kept == Kept(queue, S)
<1> SUFFICES ASSUME at # DOMAIN queue
             PROVE  /\ kept \in Seq(X)
                    /\ ToSet(kept) = ToSet(queue) \cap S
                    /\ \E from : KeptFrom(queue, S, kept, from)
  BY KeptWhole
<1>1. /\ n \in Nat
      /\ of \in [1..n -> at]
      /\ \A k, l \in 1..n : k < l => of[k] < of[l]
      /\ \A i \in at : \E k \in 1..n : of[k] = i
  <2>1. Len(queue) \in Nat /\ at \in SUBSET (1..Len(queue))
    OBVIOUS
  <2> HIDE DEF at
  <2> QED
    BY <2>1, PositionsInOrder
<1>2. kept = [k \in 1..n |-> queue[of[k]]]
  BY DEF Kept
<1>3. \A i \in at : i \in DOMAIN queue /\ queue[i] \in X /\ queue[i] \in S
  OBVIOUS
<1>4. \A i \in DOMAIN queue : queue[i] \in S => i \in at
  OBVIOUS
<1> HIDE DEF at, of, n, kept
<1>5. DOMAIN kept = 1..n /\ \A k \in 1..n : kept[k] = queue[of[k]] /\ of[k] \in at
  BY <1>1, <1>2
<1>6. kept \in Seq(X)
  <2>1. kept \in [1..n -> X]
    BY <1>1, <1>2, <1>3
  <2> QED
    BY <1>1, <2>1
<1>7. of \in [DOMAIN kept -> DOMAIN queue]
  <2>1. at \subseteq DOMAIN queue
    BY <1>3
  <2> QED
    BY <1>1, <1>5, <2>1
<1>8. KeptFrom(queue, S, kept, of)
  BY <1>1, <1>3, <1>4, <1>5, <1>7 DEF KeptFrom
<1>9. ToSet(kept) = ToSet(queue) \cap S
  <2>1. ASSUME NEW x \in ToSet(kept) PROVE x \in ToSet(queue) \cap S
    <3>1. PICK k \in DOMAIN kept : x = kept[k]
      BY DEF ToSet
    <3> QED
      BY <1>3, <1>5, <3>1 DEF ToSet
  <2>2. ASSUME NEW x \in ToSet(queue) \cap S PROVE x \in ToSet(kept)
    <3>1. PICK i \in DOMAIN queue : x = queue[i]
      BY DEF ToSet
    <3>2. PICK k \in 1..n : of[k] = i
      BY <1>1, <1>4, <3>1
    <3> QED
      BY <1>5, <3>1, <3>2 DEF ToSet
  <2> QED
    BY <2>1, <2>2
<1> QED
  BY <1>6, <1>8, <1>9 DEF kept

\* What is dropped of a queue is in the set, and the rest is where it was.
LEMMA DroppedIs ==
  ASSUME NEW X, NEW queue \in Seq(X), NEW S
  PROVE  /\ Dropped(queue, S) \in Seq(X)
         /\ ToSet(Dropped(queue, S)) = ToSet(queue) \ S
         /\ \E from : KeptFrom(queue, ToSet(queue) \ S, Dropped(queue, S), from)
<1>1. ToSet(queue) \cap (ToSet(queue) \ S) = ToSet(queue) \ S
  OBVIOUS
<1> QED
  BY <1>1, KeptIs DEF Dropped

\* What the bounds are.
LEMMA Bounds ==
  /\ MaxEdits \in Nat /\ MaxPeerEdits \in Nat /\ MaxReloads \in Nat
  /\ MaxConnections \in Nat /\ MaxConnections > 0 /\ ChunkSize \in Nat /\ ChunkSize > 0
BY SyncAssumption

\* Identifiers and operations, by their fields.
LEMMA IdFields ==
  ASSUME NEW k \in Ids
  PROVE  /\ k = <<k[1], k[2]>> /\ k[1] \in Nat /\ k[1] > 0 /\ k[2] \in 0..MaxConnections
         /\ k[2] # 0 => k[1] \in Edits /\ k[2] \in Connections
         /\ k[2] = 0 => k[1] \in PeerEdits /\ k[1] > MaxEdits
         /\ k # Root
<1>1. CASE k \in Edits \X Connections
  BY <1>1, Bounds DEF Edits, Connections, Root
<1>2. CASE k \in PeerEdits \X {0}
  BY <1>2, Bounds DEF PeerEdits, Root
<1> QED
  BY <1>1, <1>2 DEF Ids

\* An operation is its identifier and its parent.
LEMMA OperationFields ==
  ASSUME NEW o \in Operations
  PROVE  /\ o = Op(o.id, o.parent)
         /\ o.id \in Ids /\ o.parent \in Ids \cup {Root}
BY DEF Operations, Op

\* There are finitely many operations.
LEMMA FiniteOperations ==
  ASSUME NEW S \in SUBSET Operations
  PROVE  IsFiniteSet(S)
<1>1. IsFiniteSet(Ids)
  <2>1. IsFiniteSet(Edits) /\ IsFiniteSet(Connections) /\ IsFiniteSet(PeerEdits) /\ IsFiniteSet({0})
    <3>1. PICK a \in Int, b \in Int : a = MaxEdits + 1 /\ b = MaxEdits + MaxPeerEdits
      BY Bounds
    <3>2. IsFiniteSet(1..MaxEdits) /\ IsFiniteSet(1..MaxConnections) /\ IsFiniteSet(a..b)
      BY Bounds, FS_Interval
    <3> QED
      BY <3>1, <3>2, FS_Singleton DEF Edits, Connections, PeerEdits
  <2>2. IsFiniteSet(Edits \X Connections) /\ IsFiniteSet(PeerEdits \X {0})
    BY <2>1, FS_Product
  <2> QED
    BY <2>2, FS_Union DEF Ids
<1>2. IsFiniteSet(Ids \X (Ids \cup {Root}))
  <2>1. IsFiniteSet(Ids \cup {Root})
    BY <1>1, FS_AddElement
  <2> QED
    BY <1>1, <2>1, FS_Product
<1>3. IsFiniteSet(Operations)
  <2> DEFINE made == [p \in Ids \X (Ids \cup {Root}) |-> Op(p[1], p[2])]
  <2>1. made \in Surjection(Ids \X (Ids \cup {Root}), Operations)
    <3>1. made \in [Ids \X (Ids \cup {Root}) -> Operations]
      BY DEF Op, Operations
    <3>2. \A o \in Operations : \E p \in Ids \X (Ids \cup {Root}) : made[p] = o
      <4> SUFFICES ASSUME NEW o \in Operations
                   PROVE  \E p \in Ids \X (Ids \cup {Root}) : made[p] = o
        OBVIOUS
      <4>1. <<o.id, o.parent>> \in Ids \X (Ids \cup {Root})
        BY OperationFields
      <4>2. made[<<o.id, o.parent>>] = o
        BY <4>1, OperationFields
      <4> QED
        BY <4>1, <4>2
    <3> QED
      BY <3>1, <3>2 DEF Surjection
  <2> HIDE DEF made
  <2> QED
    BY <1>2, <2>1, FS_Surjection
<1> QED
  BY <1>3, FS_Subset

\* Operations of which no two share their identifier are listed once each, older
\* ones first.
LEMMA InOrderIs ==
  ASSUME NEW S \in SUBSET Operations, \A a, b \in S : a.id = b.id => a = b
  PROVE  /\ InOrder(S) \in Seq(Operations)
         /\ ToSet(InOrder(S)) = S
         /\ \A k, l \in DOMAIN InOrder(S) : k < l => Older(InOrder(S)[k], InOrder(S)[l])
<1> DEFINE n == Cardinality(S)
           R == {p \in S \X S : Older(p[1], p[2])}
           rank(o) == Cardinality({p \in S : Older(p, o)})
           s == InOrder(S)
<1>1. \A o \in S : o.id \in Ids /\ o.id = <<o.id[1], o.id[2]>> /\ o.id[1] \in Nat /\ o.id[2] \in Nat
  BY OperationFields, IdFields, Bounds
<1>2. \A x, y \in S : <<x, y>> \in R <=> Older(x, y)
  OBVIOUS
<1>3. /\ \A x \in S : ~Older(x, x)
      /\ \A x, y, z \in S : Older(x, y) /\ Older(y, z) => Older(x, z)
      /\ \A x, y \in S : x = y \/ Older(x, y) \/ Older(y, x)
  <2>1. ASSUME NEW x \in S, NEW y \in S, ~Older(x, y), ~Older(y, x) PROVE x = y
    <3>1. x.id[1] = y.id[1] /\ x.id[2] = y.id[2]
      BY <1>1, <2>1 DEF Older
    <3>2. x.id = y.id
      BY <1>1, <3>1
    <3> QED
      BY <3>2
  <2>2. \A x \in S : ~Older(x, x)
    BY <1>1 DEF Older
  <2>3. \A x, y, z \in S : Older(x, y) /\ Older(y, z) => Older(x, z)
    BY <1>1 DEF Older
  <2> QED
    BY <2>1, <2>2, <2>3
<1>4. \A o \in S : Before(S, R, o) = {p \in S : Older(p, o)}
  BY DEF Before
<1>5. \A o \in S : rank(o) = Cardinality(Before(S, R, o))
  BY <1>4
<1> HIDE DEF R, rank
<1>6. /\ n \in Nat
      /\ \A o \in S : Cardinality(Before(S, R, o)) \in 0..n - 1
      /\ \A x, y \in S : <<x, y>> \in R =>
           Cardinality(Before(S, R, x)) < Cardinality(Before(S, R, y))
      /\ \A k \in 0..n - 1 : \E o \in S : Cardinality(Before(S, R, o)) = k
  <2>1. IsFiniteSet(S)
    BY FiniteOperations
  <2>2. /\ \A x \in S : <<x, x>> \notin R
        /\ \A x, y, z \in S : <<x, y>> \in R /\ <<y, z>> \in R => <<x, z>> \in R
        /\ \A x, y \in S : x = y \/ <<x, y>> \in R \/ <<y, x>> \in R
    BY <1>2, <1>3
  <2> QED
    BY <2>1, <2>2, Places
<1>7. s = [k \in 1..n |-> CHOOSE o \in S : rank(o) = k - 1]
  BY DEF InOrder, rank
<1> HIDE DEF n, s
<1>8. DOMAIN s = 1..n /\ \A k \in 1..n : s[k] \in S /\ rank(s[k]) = k - 1
  <2>1. DOMAIN s = 1..n
    BY <1>7
  <2>2. ASSUME NEW k \in 1..n PROVE s[k] \in S /\ rank(s[k]) = k - 1
    <3>1. k - 1 \in 0..n - 1
      BY <1>6
    <3>2. \E o \in S : rank(o) = k - 1
      BY <1>5, <1>6, <3>1
    <3>3. s[k] = CHOOSE o \in S : rank(o) = k - 1
      BY <1>7
    <3> QED
      BY <3>2, <3>3
  <2> QED
    BY <2>1, <2>2
<1>9. s \in Seq(Operations)
  <2>1. s \in [1..n -> Operations]
    <3>1. s = [k \in 1..n |-> s[k]]
      BY <1>7
    <3> QED
      BY <1>8, <3>1
  <2> QED
    BY <1>6, <2>1
<1>10. \A k, l \in 1..n : k < l => Older(s[k], s[l])
  <2> SUFFICES ASSUME NEW k \in 1..n, NEW l \in 1..n, k < l PROVE Older(s[k], s[l])
    OBVIOUS
  <2>1. s[k] \in S /\ s[l] \in S /\ rank(s[k]) = k - 1 /\ rank(s[l]) = l - 1
    BY <1>8
  <2>2. ASSUME Older(s[l], s[k]) PROVE FALSE
    <3>1. rank(s[l]) < rank(s[k])
      <4>1. <<s[l], s[k]>> \in R
        BY <1>2, <2>1, <2>2
      <4>2. Cardinality(Before(S, R, s[l])) < Cardinality(Before(S, R, s[k]))
        BY <1>6, <2>1, <4>1
      <4> QED
        BY <1>5, <2>1, <4>2
    <3> QED
      BY <1>6, <2>1, <3>1
  <2>3. s[k] # s[l]
    BY <1>6, <2>1
  <2> QED
    BY <1>3, <2>1, <2>2, <2>3
<1>11. ToSet(s) = S
  <2>1. \A x \in ToSet(s) : x \in S
    BY <1>8 DEF ToSet
  <2>2. ASSUME NEW o \in S PROVE o \in ToSet(s)
    <3>1. rank(o) \in 0..n - 1
      BY <1>5, <1>6
    <3>2. PICK k \in 1..n : k - 1 = rank(o)
      <4>1. rank(o) + 1 \in 1..n /\ (rank(o) + 1) - 1 = rank(o)
        BY <1>6, <3>1
      <4> QED
        BY <4>1
    <3>3. s[k] \in S /\ rank(s[k]) = rank(o)
      BY <1>8, <3>2
    <3>4. ~(rank(s[k]) < rank(o)) /\ ~(rank(o) < rank(s[k]))
      BY <3>1, <3>3
    <3>5. \A x, y \in S : Older(x, y) => rank(x) < rank(y)
      BY <1>2, <1>5, <1>6
    <3>6. s[k] = o
      BY <1>3, <3>3, <3>4, <3>5
    <3> QED
      BY <1>8, <3>6 DEF ToSet
  <2> QED
    BY <2>1, <2>2
<1> QED
  BY <1>8, <1>9, <1>10, <1>11 DEF s

-----------------------------------------------------------------------------
(* Queues, frames and engines *)

\* What appending, joining and taking do to the members of a queue.
LEMMA Queues ==
  ASSUME NEW X, NEW q \in Seq(X)
  PROVE  /\ ToSet(q) \subseteq X
         /\ \A x \in X : Append(q, x) \in Seq(X) /\ ToSet(Append(q, x)) = ToSet(q) \cup {x}
         /\ \A r \in Seq(X) : q \o r \in Seq(X) /\ ToSet(q \o r) = ToSet(q) \cup ToSet(r)
         /\ q # <<>> => /\ Tail(q) \in Seq(X) /\ Head(q) = q[1] /\ Head(q) \in X
                        /\ ToSet(q) = {Head(q)} \cup ToSet(Tail(q))
                        /\ \A i \in DOMAIN Tail(q) : i + 1 \in DOMAIN q /\ Tail(q)[i] = q[i + 1]
<1>1. ToSet(q) \subseteq X
  BY DEF ToSet
<1>2. ASSUME NEW x \in X
      PROVE  Append(q, x) \in Seq(X) /\ ToSet(Append(q, x)) = ToSet(q) \cup {x}
  <2>1. /\ Append(q, x) \in Seq(X) /\ DOMAIN Append(q, x) = 1..Len(q) + 1
        /\ \A i \in 1..Len(q) : Append(q, x)[i] = q[i]
        /\ Append(q, x)[Len(q) + 1] = x
    OBVIOUS
  <2>2. ASSUME NEW y \in ToSet(Append(q, x)) PROVE y \in ToSet(q) \cup {x}
    BY <2>1 DEF ToSet
  <2>3. ASSUME NEW y \in ToSet(q) PROVE y \in ToSet(Append(q, x))
    <3>1. PICK i \in 1..Len(q) : y = q[i]
      BY DEF ToSet
    <3>2. i \in DOMAIN Append(q, x) /\ y = Append(q, x)[i]
      BY <2>1, <3>1
    <3> QED
      BY <3>2 DEF ToSet
  <2>4. x \in ToSet(Append(q, x))
    <3>1. Len(q) + 1 \in DOMAIN Append(q, x)
      BY <2>1
    <3> QED
      BY <2>1, <3>1 DEF ToSet
  <2> QED
    BY <2>1, <2>2, <2>3, <2>4
<1>3. ASSUME NEW r \in Seq(X)
      PROVE  q \o r \in Seq(X) /\ ToSet(q \o r) = ToSet(q) \cup ToSet(r)
  <2>1. /\ q \o r \in Seq(X) /\ DOMAIN (q \o r) = 1..Len(q) + Len(r)
        /\ \A i \in 1..Len(q) : (q \o r)[i] = q[i]
        /\ \A i \in 1..Len(r) : (q \o r)[Len(q) + i] = r[i]
    OBVIOUS
  <2>2. ASSUME NEW y \in ToSet(q \o r) PROVE y \in ToSet(q) \cup ToSet(r)
    <3>1. PICK i \in 1..Len(q) + Len(r) : y = (q \o r)[i]
      BY <2>1 DEF ToSet
    <3>2. CASE i \in 1..Len(q)
      BY <2>1, <3>1, <3>2 DEF ToSet
    <3>3. CASE i \notin 1..Len(q)
      <4>1. PICK j \in 1..Len(r) : i = Len(q) + j
        <5>1. i - Len(q) \in 1..Len(r) /\ i = Len(q) + (i - Len(q))
          BY <3>3
        <5> QED
          BY <5>1
      <4> QED
        BY <2>1, <3>1, <4>1 DEF ToSet
    <3> QED
      BY <3>2, <3>3
  <2>3. ASSUME NEW y \in ToSet(q) PROVE y \in ToSet(q \o r)
    <3>1. PICK i \in 1..Len(q) : y = q[i]
      BY DEF ToSet
    <3>2. i \in DOMAIN (q \o r) /\ y = (q \o r)[i]
      BY <2>1, <3>1
    <3> QED
      BY <3>2 DEF ToSet
  <2>4. ASSUME NEW y \in ToSet(r) PROVE y \in ToSet(q \o r)
    <3>1. PICK i \in 1..Len(r) : y = r[i]
      BY DEF ToSet
    <3>2. Len(q) + i \in DOMAIN (q \o r) /\ y = (q \o r)[Len(q) + i]
      BY <2>1, <3>1
    <3> QED
      BY <3>2 DEF ToSet
  <2> QED
    BY <2>1, <2>2, <2>3, <2>4
<1>4. ASSUME q # <<>>
      PROVE  /\ Tail(q) \in Seq(X) /\ Head(q) = q[1] /\ Head(q) \in X
             /\ ToSet(q) = {Head(q)} \cup ToSet(Tail(q))
             /\ \A i \in DOMAIN Tail(q) : i + 1 \in DOMAIN q /\ Tail(q)[i] = q[i + 1]
  <2>1. /\ Tail(q) \in Seq(X) /\ Head(q) = q[1] /\ Head(q) \in X /\ Len(q) > 0
        /\ DOMAIN Tail(q) = 1..Len(q) - 1 /\ \A i \in 1..Len(q) - 1 : Tail(q)[i] = q[i + 1]
    BY <1>4
  <2>2. ASSUME NEW y \in ToSet(q) PROVE y \in {Head(q)} \cup ToSet(Tail(q))
    <3>1. PICK i \in 1..Len(q) : y = q[i]
      BY DEF ToSet
    <3>2. CASE i # 1
      <4>1. i - 1 \in DOMAIN Tail(q) /\ Tail(q)[i - 1] = y
        BY <2>1, <3>1, <3>2
      <4> QED
        BY <4>1 DEF ToSet
    <3> QED
      BY <2>1, <3>1, <3>2
  <2>3. \A y \in ToSet(Tail(q)) : y \in ToSet(q)
    <3> SUFFICES ASSUME NEW i \in DOMAIN Tail(q) PROVE Tail(q)[i] \in ToSet(q)
      BY DEF ToSet
    <3>1. i + 1 \in DOMAIN q /\ Tail(q)[i] = q[i + 1]
      BY <2>1
    <3> QED
      BY <3>1 DEF ToSet
  <2>4. Head(q) \in ToSet(q)
    BY <2>1 DEF ToSet
  <2> QED
    BY <2>1, <2>2, <2>3, <2>4
<1> QED
  BY <1>1, <1>2, <1>3, <1>4

\* The members of two queues joined.
LEMMA Joins ==
  ASSUME NEW X, NEW q \in Seq(X), NEW r \in Seq(X)
  PROVE  q \o r \in Seq(X) /\ ToSet(q \o r) = ToSet(q) \cup ToSet(r)
BY Queues

\* A function on 1..n with values in X is a sequence over X, n long.
LEMMA Indexed ==
  ASSUME NEW X, NEW n \in Nat, NEW f \in [1..n -> X]
  PROVE  f \in Seq(X) /\ Len(f) = n
OBVIOUS

\* An empty queue has no members.
LEMMA NoMembers == ToSet(<<>>) = {}
BY DEF ToSet

\* The fields of frames.
LEMMA FrameFields ==
  ASSUME NEW f \in Frames
  PROVE  /\ f.kind \in {"welcome", "snapshot", "begin", "yield", "chunk", "end", "have", "ack",
                        "reject", "op"}
         /\ f.kind = "snapshot" => f.seq \in Nat /\ f.nodes \in SUBSET Operations
         /\ f.kind = "chunk" => f.through \in Nat /\ f.entries \in SUBSET Numbered
         /\ f.kind = "end" => f.to \in Nat
         /\ f.kind = "have" => f.ids \in SUBSET Ids
         /\ f.kind = "ack" => f.seq \in Nat /\ f.id \in Ids
         /\ f.kind = "reject" => f.op \in Operations
         /\ f.kind = "op" => f.seq \in Nat /\ f.op \in Operations
BY DEF Frames, Numbered

\* The fields of the client's frames.
LEMMA ClientFrameFields ==
  ASSUME NEW f \in ClientFrames
  PROVE  /\ f.kind \in {"op", "hello"}
         /\ f.kind = "op" => f.op \in Operations
         /\ f.kind = "hello" => f.seq \in Nat /\ f.unacked \in SUBSET Ids /\ f.resident \in BOOLEAN
BY DEF ClientFrames

\* An engine integrates some of what it is given and buffers the rest.
LEMMA ApplyAllIs ==
  ASSUME NEW e \in [replica : 0..MaxConnections, nodes : SUBSET Operations, pending : SUBSET Operations],
         NEW new \in SUBSET Operations
  PROVE  /\ ApplyAll(e, new) \in [replica : 0..MaxConnections, nodes : SUBSET Operations,
                                  pending : SUBSET Operations]
         /\ ApplyAll(e, new).replica = e.replica
         /\ e.nodes \subseteq ApplyAll(e, new).nodes
         /\ ApplyAll(e, new).nodes \cup ApplyAll(e, new).pending = e.nodes \cup e.pending \cup new
<1>1. Resolved(e.nodes, e.pending \cup new) \subseteq e.pending \cup new
  BY DEF Resolved
<1> DEFINE nodes == e.nodes \cup Resolved(e.nodes, e.pending \cup new)
           a == [e EXCEPT !.nodes = nodes, !.pending = (e.pending \cup new) \ nodes]
<1>2. ApplyAll(e, new) = a
  BY DEF ApplyAll
<1>3. a.replica = e.replica /\ a.nodes = nodes /\ a.pending = (e.pending \cup new) \ nodes
  OBVIOUS
<1>4. a \in [replica : 0..MaxConnections, nodes : SUBSET Operations, pending : SUBSET Operations]
  <2>1. nodes \in SUBSET Operations /\ (e.pending \cup new) \ nodes \in SUBSET Operations
    BY <1>1
  <2> QED
    BY <2>1
<1> HIDE DEF a
<1> QED
  BY <1>1, <1>2, <1>3, <1>4

\* A new engine holds what it was seeded with, integrated or buffered.
LEMMA SeededIs ==
  ASSUME NEW replica \in 0..MaxConnections, NEW nodes \in SUBSET Operations
  PROVE  /\ Seeded(replica, nodes) \in [replica : 0..MaxConnections, nodes : SUBSET Operations,
                                        pending : SUBSET Operations]
         /\ Seeded(replica, nodes).replica = replica
         /\ Seeded(replica, nodes).nodes \cup Seeded(replica, nodes).pending = nodes
<1> DEFINE e == [NoEngine EXCEPT !.replica = replica]
<1>1. /\ e \in [replica : 0..MaxConnections, nodes : SUBSET Operations, pending : SUBSET Operations]
      /\ e.replica = replica /\ e.nodes = {} /\ e.pending = {}
  BY Bounds DEF NoEngine
<1> HIDE DEF e
<1>2. Seeded(replica, nodes) = ApplyAll(e, nodes)
  BY DEF Seeded, e
<1> QED
  BY <1>1, <1>2, ApplyAllIs

\* The client's record of the log.
Seqs == [applied : Nat, catchupPending : SUBSET Numbered, seen : Nat, confirmed : SUBSET Nat,
         livePending : SUBSET Numbered]

\* The client's record starts anew from a number.
LEMMA ResetSeqsType ==
  ASSUME NEW seq \in Nat
  PROVE  /\ ResetSeqs(seq) \in Seqs
         /\ IsFiniteSet(ResetSeqs(seq).confirmed) /\ IsFiniteSet(ResetSeqs(seq).livePending)
BY FS_EmptySet DEF ResetSeqs, Seqs

\* A finite set of numbers that is not empty has a greatest one.
LEMMA MaxIs ==
  ASSUME NEW T \in SUBSET Int, IsFiniteSet(T), T # {}
  PROVE  Max(T) \in T /\ \A x \in T : x <= Max(T)
<1> DEFINE R == {p \in T \X T : p[1] > p[2]}
<1>1. \A x, y \in T : <<x, y>> \in R <=> x > y
  OBVIOUS
<1>2. \A x, y, z \in T : /\ x \in Int
                         /\ ~(x > x) /\ (x > y /\ y > z => x > z)
                         /\ (x = y \/ x > y \/ y > x)
  OBVIOUS
<1> HIDE DEF R
<1>3. Cardinality(T) \in Nat /\ Cardinality(T) > 0
  BY FS_CardinalityType, FS_EmptySet
<1>4. \E d \in T : Cardinality(Before(T, R, d)) = 0
  <2>1. 0 \in 0..Cardinality(T) - 1
    BY <1>3
  <2> QED
    <3>1. \A x \in T : <<x, x>> \notin R
      BY <1>1, <1>2
    <3>2. \A x, y, z \in T : <<x, y>> \in R /\ <<y, z>> \in R => <<x, z>> \in R
      BY <1>1, <1>2
    <3>3. \A x, y \in T : x = y \/ <<x, y>> \in R \/ <<y, x>> \in R
      BY <1>1, <1>2
    <3> QED
      BY <2>1, <3>1, <3>2, <3>3, Places
<1>5. PICK d \in T : Cardinality(Before(T, R, d)) = 0
  BY <1>4
<1>6. Before(T, R, d) = {}
  <2>1. IsFiniteSet(Before(T, R, d))
    BY FS_Subset DEF Before
  <2> QED
    BY <1>5, <2>1, FS_EmptySet
<1>7. \A x \in T : ~(x > d)
  BY <1>1, <1>6 DEF Before
<1>8. \A x \in T : d >= x
  BY <1>2, <1>7
<1>9. Max(T) = CHOOSE x \in T : \A y \in T : x >= y
  BY DEF Max
<1>10. Max(T) \in T /\ \A y \in T : Max(T) >= y
  BY <1>8, <1>9
<1> QED
  BY <1>2, <1>10

\* Entries an engine buffers.
Buffered(entries, e) == {p \in entries : p.op \in e.pending}

\* What a catch-up makes of the record: the ceiling rises over what was seen, up to
\* the first operation that is still buffered.
LEMMA RecomputeIs ==
  ASSUME NEW q \in Seqs, NEW e, NEW r, r = RecomputeCatchupSeqCeiling(q, e)
  PROVE  /\ r \in Seqs
         /\ r.confirmed = q.confirmed /\ r.livePending = q.livePending /\ r.seen = q.seen
         /\ r.catchupPending = Buffered(q.catchupPending, e)
         /\ q.applied <= r.applied
         /\ r.applied = q.applied
            \/ IF r.catchupPending = {} THEN r.applied = q.seen
               ELSE \E p \in r.catchupPending :
                      r.applied = p.seq - 1 /\ \A o \in r.catchupPending : p.seq <= o.seq
<1> DEFINE left == {p \in q.catchupPending : p.op \in e.pending}
           safe == IF left = {} THEN q.seen ELSE Min({p.seq : p \in left}) - 1
           applied == Max({q.applied, safe})
<1>1. left \in SUBSET Numbered /\ q.applied \in Nat /\ q.seen \in Nat
      /\ q.confirmed \in SUBSET Nat /\ q.livePending \in SUBSET Numbered
  BY DEF Seqs
<1>2. safe \in Int /\ IF left = {} THEN safe = q.seen
                    ELSE \E p \in left : safe = p.seq - 1 /\ \A o \in left : p.seq <= o.seq
  <2>1. CASE left = {}
    BY <1>1, <2>1
  <2>2. CASE left # {}
    <3> DEFINE numbers == {p.seq : p \in left}
    <3>1. numbers \in SUBSET Nat /\ numbers # {}
      BY <1>1, <2>2 DEF Numbered
    <3>2. PICK least : least = Min(numbers) /\ least \in numbers /\ \A y \in numbers : least <= y
      <4> HIDE DEF numbers
      <4>1. \E x \in numbers : \A y \in numbers : x <= y
        BY <3>1, LeastNatural
      <4> QED
        BY <4>1 DEF Min
    <3>3. least \in Nat /\ safe = least - 1
      BY <2>2, <3>1, <3>2
    <3>4. PICK p \in left : p.seq = least
      BY <3>2
    <3>5. \A o \in left : p.seq <= o.seq
      BY <3>2, <3>4
    <3> HIDE DEF numbers, safe, left
    <3> QED
      BY <2>2, <3>3, <3>4, <3>5
  <2> HIDE DEF safe
  <2> QED
    BY <2>1, <2>2
<1> HIDE DEF safe, left
<1>3. applied \in Nat /\ applied \in {q.applied, safe} /\ q.applied <= applied
  <2>1. {q.applied, safe} \in SUBSET Int /\ {q.applied, safe} # {} /\ IsFiniteSet({q.applied, safe})
    <3>1. {q.applied, safe} = {q.applied} \cup {safe}
      OBVIOUS
    <3>2. IsFiniteSet({q.applied})
      BY FS_Singleton
    <3>3. IsFiniteSet({q.applied} \cup {safe})
      BY <3>2, FS_AddElement
    <3>4. q.applied \in Int /\ safe \in Int
      BY <1>1, <1>2
    <3>5. {q.applied, safe} \in SUBSET Int /\ {q.applied, safe} # {}
      BY <3>4
    <3> QED
      BY <3>1, <3>3, <3>5
  <2>2. applied \in {q.applied, safe} /\ q.applied <= applied
    BY <2>1, MaxIs
  <2> HIDE DEF applied
  <2> QED
    BY <1>1, <1>2, <2>2
<1> HIDE DEF applied
<1>4. r = [q EXCEPT !.catchupPending = left, !.applied = applied]
  BY DEF RecomputeCatchupSeqCeiling, left, safe, applied
<1>5. /\ r \in Seqs /\ r.confirmed = q.confirmed /\ r.livePending = q.livePending
      /\ r.seen = q.seen /\ r.catchupPending = left /\ r.applied = applied
  BY <1>1, <1>3, <1>4 DEF Seqs
<1> QED
  BY <1>2, <1>3, <1>5 DEF left, Buffered

\* It is a record again.
LEMMA RecomputeType ==
  ASSUME NEW q \in Seqs, NEW e
  PROVE  /\ RecomputeCatchupSeqCeiling(q, e) \in Seqs
         /\ RecomputeCatchupSeqCeiling(q, e).confirmed = q.confirmed
         /\ RecomputeCatchupSeqCeiling(q, e).livePending = q.livePending
BY RecomputeIs

\* The numbers that are confirmed with the ones an engine no longer buffers.
Settled(q, e) == q.confirmed \cup {p.seq : p \in {o \in q.livePending : o.op \notin e.pending}}

\* What the live ceiling makes of the record: it rises through settled numbers
\* only, and what is not reached yet stays finite.
LEMMA AdvanceIs ==
  ASSUME NEW q \in Seqs, NEW e, IsFiniteSet(q.confirmed), IsFiniteSet(q.livePending),
         NEW r, r = AdvanceLiveSeqCeiling(q, e)
  PROVE  /\ r \in Seqs /\ IsFiniteSet(r.confirmed) /\ IsFiniteSet(r.livePending)
         /\ r.seen = q.seen /\ r.catchupPending = q.catchupPending
         /\ r.livePending = Buffered(q.livePending, e)
         /\ r.confirmed \subseteq Settled(q, e)
         /\ q.applied <= r.applied /\ (q.applied + 1)..r.applied \subseteq Settled(q, e)
<1> DEFINE left == {p \in q.livePending : p.op \in e.pending}
           freed == {p.seq : p \in q.livePending \ left}
           confirmed == q.confirmed \cup freed
           reached == {n \in confirmed \cup {q.applied} :
                         n >= q.applied /\ (q.applied + 1)..n \subseteq confirmed}
           applied == Max(reached)
           rest == confirmed \ ((q.applied + 1)..applied)
<1>1. q.applied \in Nat /\ q.confirmed \in SUBSET Nat /\ q.livePending \in SUBSET Numbered
      /\ q.seen \in Nat /\ q.catchupPending \in SUBSET Numbered
  BY DEF Seqs
<1>2. left \in SUBSET Numbered /\ IsFiniteSet(left)
  <2>1. left \in SUBSET q.livePending
    OBVIOUS
  <2> QED
    BY <1>1, <2>1, FS_Subset
<1>3. freed \in SUBSET Nat /\ IsFiniteSet(freed)
  <2> DEFINE gone == q.livePending \ left
             number == [p \in gone |-> p.seq]
  <2>1. IsFiniteSet(gone) /\ gone \in SUBSET Numbered
    <3>1. gone \in SUBSET q.livePending
      OBVIOUS
    <3> QED
      BY <1>1, <3>1, FS_Subset
  <2>2. freed = {p.seq : p \in gone}
    OBVIOUS
  <2>3. freed \in SUBSET Nat
    <3> HIDE DEF gone
    <3> QED
      BY <2>1, <2>2 DEF Numbered
  <2>4. number \in Surjection(gone, freed)
    <3> HIDE DEF gone
    <3> QED
      BY <2>2 DEF Surjection
  <2> HIDE DEF gone, number, freed
  <2> QED
    BY <2>1, <2>3, <2>4, FS_Surjection
<1> HIDE DEF left, freed
<1>4. confirmed \in SUBSET Nat /\ IsFiniteSet(confirmed)
  BY <1>1, <1>3, FS_Union
<1> HIDE DEF confirmed
<1>5. reached \in SUBSET Int /\ IsFiniteSet(reached) /\ q.applied \in reached /\ reached \in SUBSET Nat
  <2>1. IsFiniteSet(confirmed \cup {q.applied})
    BY <1>4, FS_AddElement
  <2>2. reached \in SUBSET (confirmed \cup {q.applied})
    OBVIOUS
  <2>3. q.applied \in reached
    BY <1>1
  <2> HIDE DEF reached
  <2>4. IsFiniteSet(reached)
    BY <2>1, <2>2, FS_Subset
  <2>5. reached \in SUBSET Nat
    BY <1>1, <1>4, <2>2
  <2> QED
    BY <2>3, <2>4, <2>5
<1>6. \A n \in reached : n >= q.applied /\ (q.applied + 1)..n \subseteq confirmed
  OBVIOUS
<1> HIDE DEF reached
<1>7. applied \in Nat /\ applied \in reached
  BY <1>5, MaxIs
<1>8. q.applied <= applied /\ (q.applied + 1)..applied \subseteq confirmed
  BY <1>1, <1>6, <1>7
<1> HIDE DEF applied
<1>9. rest \in SUBSET Nat /\ IsFiniteSet(rest) /\ rest \subseteq confirmed
  BY <1>4, FS_Subset
<1> HIDE DEF rest
<1>10. r = [q EXCEPT !.livePending = left, !.applied = applied, !.confirmed = rest]
  BY DEF AdvanceLiveSeqCeiling, left, freed, confirmed, reached, applied, rest
<1>11. /\ r \in Seqs /\ r.seen = q.seen /\ r.catchupPending = q.catchupPending
       /\ r.livePending = left /\ r.confirmed = rest /\ r.applied = applied
  BY <1>1, <1>2, <1>7, <1>9, <1>10 DEF Seqs
<1>12. confirmed = Settled(q, e)
  <2>1. q.livePending \ left = {o \in q.livePending : o.op \notin e.pending}
    BY DEF left
  <2> QED
    BY <2>1 DEF confirmed, freed, Settled
<1> QED
  BY <1>2, <1>8, <1>9, <1>11, <1>12 DEF left, Buffered

\* It is a record again.
LEMMA AdvanceType ==
  ASSUME NEW q \in Seqs, NEW e, IsFiniteSet(q.confirmed), IsFiniteSet(q.livePending)
  PROVE  /\ AdvanceLiveSeqCeiling(q, e) \in Seqs
         /\ IsFiniteSet(AdvanceLiveSeqCeiling(q, e).confirmed)
         /\ IsFiniteSet(AdvanceLiveSeqCeiling(q, e).livePending)
BY AdvanceIs

-----------------------------------------------------------------------------
(* What the actions do: the server *)

Session == [stage : {"open", "catchup", "checking", "joined", "closed"}, unacked : SUBSET Ids,
            from : Nat, to : Nat]

Engine == [replica : 0..MaxConnections, nodes : SUBSET Operations, pending : SUBSET Operations]

\* The types, one by one.
LEMMA TypeParts ==
  Types <=>
    /\ log \in Seq(Operations) /\ committed \in 0..Len(log) /\ parked \in SUBSET Operations
    /\ session \in [Connections -> Session] /\ \A n \in Connections : session[n].to <= Len(log)
    /\ up \in [Connections -> Seq(ClientFrames)]
    /\ ops \in Seq(Frames) /\ control \in Seq(Frames) /\ gate \in Seq(Frames)
    /\ conn \in 0..MaxConnections /\ open \in BOOLEAN /\ synced \in BOOLEAN
    /\ engine \in Engine /\ unacked \in Seq(Operations) /\ helloUnacked \in SUBSET Ids
    /\ seqs \in Seqs /\ IsFiniteSet(seqs.confirmed) /\ IsFiniteSet(seqs.livePending)
    /\ rejected \in SUBSET Operations
    /\ stored \in SUBSET Rows
    /\ unstored \in SUBSET Rows
    /\ typed \in 0..MaxEdits /\ reloads \in 0..MaxReloads
    /\ flushing \in Seq(Transactions)
    /\ {"late_frames", "lookups", "lagging_rows", "stale_rows"} \cap faults = {}
BY DEF Types, TypeOK, Orderly, Session, Engine, Seqs, Numbered

\* The same after a step.
LEMMA TypePartsNext ==
  Types' <=>
    /\ log' \in Seq(Operations) /\ committed' \in 0..Len(log') /\ parked' \in SUBSET Operations
    /\ session' \in [Connections -> Session] /\ \A n \in Connections : session'[n].to <= Len(log')
    /\ up' \in [Connections -> Seq(ClientFrames)]
    /\ ops' \in Seq(Frames) /\ control' \in Seq(Frames) /\ gate' \in Seq(Frames)
    /\ conn' \in 0..MaxConnections /\ open' \in BOOLEAN /\ synced' \in BOOLEAN
    /\ engine' \in Engine /\ unacked' \in Seq(Operations) /\ helloUnacked' \in SUBSET Ids
    /\ seqs' \in Seqs /\ IsFiniteSet(seqs'.confirmed) /\ IsFiniteSet(seqs'.livePending)
    /\ rejected' \in SUBSET Operations
    /\ stored' \in SUBSET Rows
    /\ unstored' \in SUBSET Rows
    /\ typed' \in 0..MaxEdits /\ reloads' \in 0..MaxReloads
    /\ flushing' \in Seq(Transactions)
    /\ {"late_frames", "lookups", "lagging_rows", "stale_rows"} \cap faults' = {}
BY DEF Types, TypeOK, Orderly, Session, Engine, Seqs, Numbered

\* Frames are queued for the client, in a lane, if it is there.
Sends(n, frames) ==
  IF Reaches(n)
  THEN \/ ops' = ops \o frames /\ UNCHANGED control
       \/ control' = control \o frames /\ UNCHANGED ops
  ELSE UNCHANGED <<ops, control>>

\* The ops lane, or the control lane of a socket that takes every frame.
LEMMA SendOpsIs ==
  ASSUME NEW n, NEW frames, SendOps(n, frames)
  PROVE  Sends(n, frames)
BY DEF SendOps, SendControl, Sends

\* Frames in the lanes have their types after frames were queued.
LEMMA SendsType ==
  ASSUME Types, NEW n, NEW frames \in Seq(Frames), Sends(n, frames)
  PROVE  ops' \in Seq(Frames) /\ control' \in Seq(Frames)
<1>1. ops \o frames \in Seq(Frames) /\ control \o frames \in Seq(Frames)
  BY TypeParts, Queues
<1>2. ops \in Seq(Frames) /\ control \in Seq(Frames)
  BY TypeParts
<1>3. CASE Reaches(n)
  BY <1>1, <1>2, <1>3 DEF Sends
<1>4. CASE ~Reaches(n)
  BY <1>2, <1>4 DEF Sends
<1> QED
  BY <1>3, <1>4

\* The same of frames that go to the control lane.
LEMMA SendControlType ==
  ASSUME Types, NEW n, NEW frames \in Seq(Frames), SendControl(n, frames)
  PROVE  ops' \in Seq(Frames) /\ control' \in Seq(Frames)
BY TypeParts DEF SendControl

\* Nothing added.
LEMMA NothingAdded ==
  ASSUME NEW a
  PROVE  <<a>> \o <<>> = <<a>>
<1> DEFINE X == {a}
<1>1. <<a>> \in Seq(X)
  OBVIOUS
<1> HIDE DEF X
<1>2. \A s \in Seq(X) : s \o <<>> = s
  OBVIOUS
<1> QED
  BY <1>1, <1>2

\* A session k joins, and is sent the frame w, and a snapshot if the client needs one.
Admitted(n, k, w) ==
  /\ up[n] # <<>> /\ up[n][1].kind = "hello" /\ session[n].stage = "open" /\ n <= conn
  /\ Alone(n)
  /\ up' = [up EXCEPT ![n] = Tail(up[n])]
  /\ session' = [session EXCEPT ![n] = k]
  /\ k.stage \in {"catchup", "checking"} /\ k.unacked = up[n][1].unacked /\ k.to <= Len(log)
  /\ k.from = up[n][1].seq
  /\ w.kind = "welcome"
  /\ \/ k.stage = "catchup" /\ ~Renews(w) /\ SendControl(n, <<w>>)
     \/ k.stage = "checking" /\ w.mode = "current" /\ SendControl(n, <<w>>)
     \/ /\ k.stage = "checking" /\ ~Renews(w)
        /\ \E s \in Frames : /\ s.kind = "snapshot" /\ s.seq = Len(log) /\ s.nodes = ToSet(log)
                             /\ SendControl(n, <<w>> \o <<s>>)
  /\ UNCHANGED <<faults, server, conn, open, synced, client>>

\* That is what a HELLO leads to.
LEMMA AdmitIs ==
  ASSUME Types, Talks, NEW n \in Connections, Admit(n)
  PROVE  \E k \in Session, w \in Frames : Admitted(n, k, w)
<1> DEFINE hello == Head(up[n])
           mode == SyncMode(hello)
           k == [stage |-> IF mode = "catchup" THEN "catchup" ELSE "checking",
                 unacked |-> hello.unacked, from |-> hello.seq, to |-> committed]
<1>1. session[n].stage = "open" /\ up[n] # <<>>
  BY DEF Admit
<1>2. n <= conn
  <2>1. n \in Nat /\ conn \in Nat /\ (n > conn => up[n] = <<>>)
    BY Bounds, TypeParts DEF Talks, Connections
  <2> HIDE DEF hello, mode, k
  <2> QED
    BY <1>1, <2>1
<1>3. hello = up[n][1] /\ hello \in ClientFrames /\ hello.kind = "hello"
  <2>1. up[n] \in Seq(ClientFrames)
    BY TypeParts
  <2>2. up[n][1].kind = "hello"
    BY <1>1, <1>2 DEF Talks
  <2> QED
    BY <1>1, <2>1, <2>2
<1>4. hello.seq \in Nat /\ hello.unacked \in SUBSET Ids
  BY <1>3, ClientFrameFields
<1>5. mode \in {"snapshot", "current", "catchup"}
  BY DEF SyncMode
<1>6. committed \in Nat /\ committed <= Len(log)
  BY TypeParts
<1>7. k \in Session /\ k.stage \in {"catchup", "checking"} /\ k.unacked = up[n][1].unacked
      /\ k.to <= Len(log) /\ k.from = up[n][1].seq
      /\ k.stage = IF mode = "catchup" THEN "catchup" ELSE "checking"
  <2> HIDE DEF hello, mode
  <2> QED
    BY <1>3, <1>4, <1>5, <1>6 DEF Session
<1>8. Alone(n)
  BY TypeParts DEF Admit, Alone
<1>9. /\ up' = [up EXCEPT ![n] = Tail(up[n])]
      /\ session' = [session EXCEPT ![n] = k]
      /\ UNCHANGED <<faults, server, conn, open, synced, client>>
      /\ SendControl(n, <<Welcome(mode)>> \o IF mode = "snapshot" THEN <<SnapshotMessage>> ELSE <<>>)
  BY DEF Admit
<1>10. /\ Welcome(mode) \in Frames /\ Welcome(mode).kind = "welcome" /\ Welcome(mode).mode = mode
       /\ mode # "current" => ~Renews(Welcome(mode))
  BY <1>5 DEF Welcome, Frames, Renews
<1>11. SnapshotMessage \in Frames /\ SnapshotMessage.kind = "snapshot"
       /\ SnapshotMessage.seq = Len(log) /\ SnapshotMessage.nodes = ToSet(log)
  <2>1. Len(log) \in Nat /\ ToSet(log) \in SUBSET Operations
    BY TypeParts, Queues
  <2> QED
    BY <2>1 DEF SnapshotMessage, Frames
<1>12. \E w \in Frames :
         /\ w.kind = "welcome"
         /\ \/ k.stage = "catchup" /\ ~Renews(w) /\ SendControl(n, <<w>>)
            \/ k.stage = "checking" /\ w.mode = "current" /\ SendControl(n, <<w>>)
            \/ /\ k.stage = "checking" /\ ~Renews(w)
               /\ \E s \in Frames : /\ s.kind = "snapshot" /\ s.seq = Len(log) /\ s.nodes = ToSet(log)
                                    /\ SendControl(n, <<w>> \o <<s>>)
  <2> HIDE DEF k, mode
  <2>1. CASE mode = "snapshot"
    BY <1>7, <1>9, <1>10, <1>11, <2>1
  <2>2. CASE mode # "snapshot"
    <3>1. <<Welcome(mode)>> \o <<>> = <<Welcome(mode)>>
      BY NothingAdded
    <3> QED
      BY <1>5, <1>7, <1>9, <1>10, <2>2, <3>1
  <2> QED
    BY <2>1, <2>2
<1> HIDE DEF k, hello, mode
<1>13. PICK w \in Frames :
         /\ w.kind = "welcome"
         /\ \/ k.stage = "catchup" /\ ~Renews(w) /\ SendControl(n, <<w>>)
            \/ k.stage = "checking" /\ w.mode = "current" /\ SendControl(n, <<w>>)
            \/ /\ k.stage = "checking" /\ ~Renews(w)
               /\ \E s \in Frames : /\ s.kind = "snapshot" /\ s.seq = Len(log) /\ s.nodes = ToSet(log)
                                    /\ SendControl(n, <<w>> \o <<s>>)
  BY <1>12
<1>14. Admitted(n, k, w)
  BY <1>1, <1>2, <1>3, <1>7, <1>8, <1>9, <1>13 DEF Admitted
<1> QED
  BY <1>7, <1>14

\* Positions in a queue that is continued.
LEMMA Continued ==
  ASSUME NEW X, NEW q \in Seq(X), NEW r \in Seq(X)
  PROVE  /\ Len(q) \in Nat /\ Len(r) \in Nat /\ q \o r \in Seq(X)
         /\ DOMAIN q = 1..Len(q) /\ DOMAIN r = 1..Len(r) /\ DOMAIN (q \o r) = 1..Len(q) + Len(r)
         /\ \A i \in DOMAIN q : i \in DOMAIN (q \o r) /\ (q \o r)[i] = q[i]
         /\ \A i \in DOMAIN r : Len(q) + i \in DOMAIN (q \o r) /\ (q \o r)[Len(q) + i] = r[i]
         /\ \A i \in DOMAIN (q \o r) :
              i \in DOMAIN q \/ (i - Len(q) \in DOMAIN r /\ (q \o r)[i] = r[i - Len(q)])
OBVIOUS

\* The session of a connection ends, for whatever reason.
Closes(n) == CloseMalformed(n) \/ NoticeClose(n)

\* A session closes, and forgets the frames of its connection.
LEMMA ClosesIs ==
  ASSUME Types, Talks, NEW n \in Connections, Closes(n)
  PROVE  \E k \in Session :
           /\ n <= conn /\ session[n].stage # "closed" /\ k.stage = "closed" /\ k.to <= Len(log)
           /\ up' = [up EXCEPT ![n] = <<>>]
           /\ session' = [session EXCEPT ![n] = k]
           /\ UNCHANGED <<faults, server, ops, control, conn, open, synced, client>>
<1> DEFINE k == [NewSession EXCEPT !.stage = "closed"]
<1>1. k \in Session /\ k.stage = "closed" /\ k.to <= Len(log)
  <2>1. Len(log) \in Nat
    BY TypeParts
  <2> QED
    BY <2>1 DEF NewSession, Session
<1>2. n <= conn
  <2>1. n \in Nat /\ conn \in Nat
    BY TypeParts DEF Connections
  <2>2. CASE CloseMalformed(n)
    <3>1. up[n] # <<>>
      BY <2>2 DEF CloseMalformed
    <3> QED
      BY <2>1, <3>1 DEF Talks
  <2> QED
    BY <2>2 DEF Closes, NoticeClose
<1>3. session[n].stage # "closed"
  BY DEF Closes, NoticeClose, CloseMalformed
<1>4. /\ up' = [up EXCEPT ![n] = <<>>]
      /\ session' = [session EXCEPT ![n] = k]
      /\ UNCHANGED <<faults, server, ops, control, conn, open, synced, client>>
  BY DEF Closes, NoticeClose, CloseMalformed
<1> HIDE DEF k
<1> QED
  BY <1>1, <1>2, <1>3, <1>4

\* Of a set of numbers, the least.
LEMMA MinIs ==
  ASSUME NEW T \in SUBSET Nat, T # {}
  PROVE  Min(T) \in T /\ \A y \in T : Min(T) <= y
BY LeastNatural DEF Min

\* The chunks of a range of the log.
LEMMA ChunksIs ==
  ASSUME Types, NEW from \in Nat, NEW to \in Nat, to <= Len(log)
  PROVE  /\ Chunks(from, to) \in Seq(Frames)
         /\ \A f \in ToSet(Chunks(from, to)) : f.kind = "chunk" /\ Told(f)
<1> DEFINE m == (to - from + ChunkSize - 1) \div ChunkSize
           through(k) == Min({from + k * ChunkSize, to})
           first(k) == from + (k - 1) * ChunkSize
           chunk(k) == [kind |-> "chunk", through |-> through(k),
                        entries |-> LoadOperationLogRange(first(k), through(k))]
<1>1. log \in Seq(Operations) /\ Len(log) \in Nat
  BY TypeParts
<1>2. m \in Int
  BY Bounds
<1>3. ASSUME NEW k \in Int, k >= 1
      PROVE  first(k) \in Nat /\ through(k) \in Nat /\ through(k) <= to
  <2>1. k * ChunkSize \in Nat
    BY <1>3, Bounds
  <2>2. (k - 1) * ChunkSize \in Nat
    BY <1>3, Bounds
  <2>3. from + k * ChunkSize \in Nat /\ first(k) \in Nat
    BY <2>1, <2>2
  <2>4. {from + k * ChunkSize, to} \in SUBSET Nat /\ {from + k * ChunkSize, to} # {}
    BY <2>3
  <2>5. through(k) \in {from + k * ChunkSize, to} /\ through(k) <= to
    BY <2>4, MinIs
  <2> QED
    BY <2>3, <2>5
<1>4. ASSUME NEW k \in Int, k >= 1
      PROVE  chunk(k) \in Frames /\ chunk(k).kind = "chunk" /\ Told(chunk(k))
  <2>1. first(k) \in Nat /\ through(k) \in Nat /\ through(k) <= to
    BY <1>3, <1>4
  <2> DEFINE entries == LoadOperationLogRange(first(k), through(k))
  <2>2. \A entry \in entries : entry \in Numbered /\ entry.op \in ToSet(log)
    <3> HIDE DEF first, through
    <3> SUFFICES ASSUME NEW seq \in (first(k) + 1)..through(k)
                 PROVE  Entry(seq) \in Numbered /\ Entry(seq).op \in ToSet(log)
      BY DEF LoadOperationLogRange
    <3>1. seq \in 1..Len(log) /\ seq \in Nat
      BY <1>1, <2>1
    <3>2. log[seq] \in Operations /\ log[seq] \in ToSet(log)
      BY <1>1, <3>1 DEF ToSet
    <3> QED
      BY <3>1, <3>2 DEF Entry, Numbered
  <2>3. chunk(k).kind = "chunk" /\ chunk(k).through = through(k) /\ chunk(k).entries = entries
    OBVIOUS
  <2>4. chunk(k) \in Frames
    <3> HIDE DEF entries, through
    <3> QED
      BY <2>1, <2>2 DEF Frames, Numbered, entries
  <2>5. Told(chunk(k))
    BY <2>2, <2>3 DEF Told
  <2> QED
    BY <2>3, <2>4, <2>5
<1>5. Chunks(from, to) = [k \in 1..m |-> chunk(k)]
  BY DEF Chunks
<1> HIDE DEF m, chunk
<1>6. Chunks(from, to) \in Seq(Frames)
  <2>1. CASE m \in Nat
    <3>1. Chunks(from, to) \in [1..m -> Frames]
      BY <1>4, <1>5
    <3> QED
      BY <2>1, <3>1
  <2>2. CASE m < 0
    <3>1. 1..m = 1..0
      BY <1>2, <2>2
    <3>2. Chunks(from, to) \in [1..0 -> Frames]
      BY <1>5, <3>1
    <3> QED
      BY <3>2
  <2> QED
    BY <1>2, <2>1, <2>2
<1>7. \A f \in ToSet(Chunks(from, to)) : f.kind = "chunk" /\ Told(f)
  <2> SUFFICES ASSUME NEW k \in 1..m PROVE chunk(k).kind = "chunk" /\ Told(chunk(k))
    BY <1>5 DEF ToSet
  <2> QED
    BY <1>2, <1>4
<1> QED
  BY <1>6, <1>7

\* The catch-up range is sent as a BEGIN, the chunks and an END.
LEMMA SendCatchupIs ==
  ASSUME Types, Talks, NEW n \in Connections, SendCatchup(n)
  PROVE  \E k \in Session, frames \in Seq(Frames) :
           /\ session[n].stage = "catchup" /\ k.stage = "checking"
           /\ k.unacked = session[n].unacked /\ k.to <= Len(log)
           /\ session' = [session EXCEPT ![n] = k]
           /\ frames # <<>> /\ Renews(frames[1])
           /\ \A f \in ToSet(frames) : f.kind \in {"begin", "chunk", "end"} /\ Told(f)
           /\ SendControl(n, frames)
           /\ UNCHANGED <<faults, server, up, conn, open, synced, client>>
<1> DEFINE k == [session[n] EXCEPT !.stage = "checking"]
           begin == [kind |-> "begin"]
           chunks == Chunks(session[n].from, session[n].to)
           end == [kind |-> "end", to |-> session[n].to]
           frames == <<begin>> \o chunks \o <<end>>
<1>1. session[n] \in Session /\ session[n].to <= Len(log)
  BY TypeParts
<1>2. session[n].from \in Nat /\ session[n].to \in Nat /\ session[n].unacked \in SUBSET Ids
  BY <1>1 DEF Session
<1>3. k \in Session /\ k.stage = "checking" /\ k.unacked = session[n].unacked /\ k.to <= Len(log)
  BY <1>1 DEF Session
<1>4. session[n].stage = "catchup" /\ session' = [session EXCEPT ![n] = k] /\ SendControl(n, frames)
      /\ UNCHANGED <<faults, server, up, conn, open, synced, client>>
  BY DEF SendCatchup
<1>5. chunks \in Seq(Frames) /\ \A f \in ToSet(chunks) : f.kind = "chunk" /\ Told(f)
  BY <1>1, <1>2, ChunksIs
<1>6. begin \in Frames /\ begin.kind = "begin" /\ Told(begin) /\ Renews(begin)
  BY DEF Frames, Told, Renews
<1>7. end \in Frames /\ end.kind = "end" /\ Told(end)
  BY <1>2 DEF Frames, Told
<1> HIDE DEF k, begin, chunks, end
<1>8. PICK a \in Seq(Frames), b \in Seq(Frames) :
        /\ a = <<begin>> /\ b = <<end>> /\ ToSet(a) = {begin} /\ ToSet(b) = {end}
        /\ Len(a) = 1 /\ a[1] = begin
  <2>1. <<begin>> \in Seq(Frames) /\ <<end>> \in Seq(Frames)
    BY <1>6, <1>7
  <2>2. ToSet(<<begin>>) = {begin} /\ ToSet(<<end>>) = {end}
    BY DEF ToSet
  <2> QED
    BY <2>1, <2>2
<1>9. a \o chunks \in Seq(Frames) /\ ToSet(a \o chunks) = {begin} \cup ToSet(chunks)
  <2>1. chunks \in Seq(Frames)
    BY <1>5
  <2>2. a \o chunks \in Seq(Frames) /\ ToSet(a \o chunks) = ToSet(a) \cup ToSet(chunks)
    BY <2>1, Joins
  <2>3. ToSet(a) = {begin}
    BY <1>8
  <2> QED
    BY <2>2, <2>3
<1>10. frames \in Seq(Frames) /\ ToSet(frames) = {begin} \cup ToSet(chunks) \cup {end}
  <2>1. frames = (a \o chunks) \o b
    BY <1>8
  <2> HIDE DEF frames
  <2>2. ToSet((a \o chunks) \o b) = ToSet(a \o chunks) \cup ToSet(b)
        /\ (a \o chunks) \o b \in Seq(Frames)
    <3>1. a \o chunks \in Seq(Frames)
      BY <1>9
    <3>2. PICK m \in Seq(Frames) : m = a \o chunks
      BY <3>1
    <3>3. m \o b \in Seq(Frames) /\ ToSet(m \o b) = ToSet(m) \cup ToSet(b)
      BY Joins
    <3> QED
      BY <3>2, <3>3
  <2> QED
    BY <1>8, <1>9, <2>1, <2>2
<1>11. frames # <<>> /\ frames[1] = begin
  <2>1. frames = (a \o chunks) \o b
    BY <1>8
  <2> HIDE DEF frames
  <2>2. Len(a \o chunks) = 1 + Len(chunks) /\ (a \o chunks)[1] = begin /\ Len(chunks) \in Nat
    BY <1>5, <1>8
  <2>3. Len(frames) = Len(a \o chunks) + Len(b) /\ frames[1] = (a \o chunks)[1] /\ Len(b) \in Nat
    BY <1>8, <1>9, <2>1, <2>2
  <2> QED
    BY <1>10, <2>2, <2>3
<1>12. \A f \in ToSet(frames) : f.kind \in {"begin", "chunk", "end"} /\ Told(f)
  BY <1>5, <1>6, <1>7, <1>10
<1> HIDE DEF frames
<1> QED
  BY <1>3, <1>4, <1>6, <1>10, <1>11, <1>12

\* ALREADY_HAVE is sent.
LEMMA SendAlreadyHaveIs ==
  ASSUME Types, NEW n \in Connections, SendAlreadyHave(n)
  PROVE  \E k \in Session, have \in Frames :
           /\ session[n].stage = "checking" /\ k.stage = "joined" /\ k.to <= Len(log)
           /\ session' = [session EXCEPT ![n] = k]
           /\ have.kind = "have" /\ have.ids = session[n].unacked \cap IdsOf(ToSet(log))
           /\ SendControl(n, <<have>>)
           /\ UNCHANGED <<faults, server, up, conn, open, synced, client>>
<1> DEFINE k == [session[n] EXCEPT !.stage = "joined"]
           have == [kind |-> "have", ids |-> AlreadyHave(session[n].unacked)]
<1>1. session[n] \in Session /\ session[n].to <= Len(log)
  BY TypeParts
<1>2. k \in Session /\ k.stage = "joined" /\ k.to <= Len(log) /\ session[n].unacked \in SUBSET Ids
  BY <1>1 DEF Session
<1>3. session[n].stage = "checking" /\ session' = [session EXCEPT ![n] = k] /\ SendControl(n, <<have>>)
      /\ UNCHANGED <<faults, server, up, conn, open, synced, client>>
  BY DEF SendAlreadyHave
<1>4. AlreadyHave(session[n].unacked) = session[n].unacked \cap IdsOf(ToSet(log))
  <2>1. {log[i].id : i \in 1..committed} \subseteq IdsOf(ToSet(log))
    <3> SUFFICES ASSUME NEW i \in 1..committed PROVE log[i].id \in IdsOf(ToSet(log))
      OBVIOUS
    <3>1. i \in DOMAIN log
      BY TypeParts
    <3>2. log[i] \in ToSet(log)
      BY <3>1 DEF ToSet
    <3> QED
      BY <3>2 DEF IdsOf
  <2> QED
    BY <2>1 DEF AlreadyHave, ExistingStamps, Applied
<1>5. have \in Frames /\ have.kind = "have" /\ have.ids = session[n].unacked \cap IdsOf(ToSet(log))
  BY <1>2, <1>4 DEF Frames
<1> HIDE DEF k, have
<1> QED
  BY <1>2, <1>3, <1>5

\* To remove the first of a queue leaves its tail.
LEMMA RemovedFirst ==
  ASSUME NEW X, NEW s \in Seq(X), s # <<>>
  PROVE  RemoveAt(s, 1) = Tail(s)
<1>1. Len(s) \in Nat /\ Len(s) > 0
  OBVIOUS
<1>2. SubSeq(s, 1, 1 - 1) = <<>>
  BY <1>1
<1>3. SubSeq(s, 1 + 1, Len(s)) = Tail(s)
  BY <1>1
<1>4. RemoveAt(s, 1) = SubSeq(s, 1, 1 - 1) \o SubSeq(s, 1 + 1, Len(s))
  BY DEF RemoveAt
<1>5. Tail(s) \in Seq(X)
  OBVIOUS
<1>6. \A q \in Seq(X) : <<>> \o q = q
  OBVIOUS
<1> QED
  BY <1>2, <1>3, <1>4, <1>5, <1>6

\* Lookups answer in order.
LEMMA TakesFirst ==
  ASSUME Types, NEW n \in Connections, NEW i, TakeOperation(n, i)
  PROVE  i = 1
<1>1. "lookups" \notin faults
  BY TypeParts
<1> QED
  BY <1>1 DEF TakeOperation

\* So a session takes the frame that came first.
LEMMA TakesOne ==
  ASSUME Types, NEW n \in Connections, Take(n)
  PROVE  RejectMismatch(n, 1) \/ AcceptOperation(n, 1)
<1>1. PICK i \in DOMAIN up[n] : RejectMismatch(n, i) \/ AcceptOperation(n, i)
  BY DEF Take
<1>2. TakeOperation(n, i)
  BY <1>1 DEF RejectMismatch, AcceptOperation
<1>3. i = 1
  BY <1>2, TakesFirst
<1> QED
  BY <1>1, <1>3

\* The first frame of a joined session is an operation.
LEMMA TakesIs ==
  ASSUME Types, Talks, NEW n \in Connections, TakeOperation(n, 1)
  PROVE  /\ up[n] # <<>> /\ Head(up[n]) = up[n][1] /\ 1 \in OpsAt(n)
         /\ up[n][1].op \in Operations
         /\ n <= conn /\ Joined(n)
         /\ up' = [up EXCEPT ![n] = Tail(up[n])]
         /\ UNCHANGED <<faults, session, committed, conn, open, synced, client>>
<1>1. Joined(n) /\ 1 \in DOMAIN up[n] /\ up' = [up EXCEPT ![n] = RemoveAt(up[n], 1)]
      /\ UNCHANGED <<faults, session, committed, conn, open, synced, client>>
  BY DEF TakeOperation
<1>2. up[n] \in Seq(ClientFrames) /\ up[n] # <<>> /\ RemoveAt(up[n], 1) = Tail(up[n])
  <2>1. up[n] \in Seq(ClientFrames)
    BY TypeParts
  <2>2. up[n] # <<>>
    BY <1>1, <2>1
  <2> QED
    BY <2>1, <2>2, RemovedFirst
<1>3. Head(up[n]) = up[n][1] /\ 1 \in DOMAIN up[n] /\ up[n][1] \in ClientFrames
  BY <1>1, <1>2
<1>4. n <= conn
  BY <1>1, <1>2, TypeParts DEF Talks, Connections
<1>5. up[n][1].kind = "op"
  <2>1. up[n][1].kind # "hello"
    BY <1>1, <1>3 DEF Talks, Joined
  <2> QED
    BY <1>3, <2>1, ClientFrameFields
<1> QED
  BY <1>1, <1>2, <1>3, <1>4, <1>5, ClientFrameFields DEF OpsAt

\* A rejection is an operation.
LEMMA RejectIs ==
  ASSUME NEW n, NEW op \in Operations, SendOpReject(n, op)
  PROVE  \E f \in Frames : f.kind = "reject" /\ f.op = op /\ Sends(n, <<f>>)
<1> DEFINE f == [kind |-> "reject", op |-> op]
<1>1. f \in Frames /\ f.kind = "reject" /\ f.op = op
  BY DEF Frames
<1>2. Sends(n, <<f>>)
  BY SendOpsIs DEF SendOpReject
<1> QED
  BY <1>1, <1>2

-----------------------------------------------------------------------------
(* Steps on which no operation is made *)

\* Of a connection, operations are taken from the front, or all of them are.
Fewer ==
  \A n \in Connections : \E d \in Nat : \A i \in OpsAt(n)' :
    /\ i + d \in OpsAt(n) /\ up'[n][i].op = up[n][i + d].op
    /\ i \in LiveAt(n)' => i + d \in LiveAt(n)

\* Frames are taken from one connection, and no session that is closed opens.
LEMMA FewerWhen ==
  ASSUME Types, NEW n \in Connections,
         \/ up' = up
         \/ up[n] # <<>> /\ up' = [up EXCEPT ![n] = Tail(up[n])]
         \/ up' = [up EXCEPT ![n] = <<>>],
         \A m \in Connections : session[m].stage = "closed" => session'[m].stage = "closed"
  PROVE  Fewer
<1> SUFFICES ASSUME NEW m \in Connections
             PROVE  \E d \in Nat : \A i \in OpsAt(m)' :
                      /\ i + d \in OpsAt(m) /\ up'[m][i].op = up[m][i + d].op
                      /\ i \in LiveAt(m)' => i + d \in LiveAt(m)
  BY DEF Fewer
<1>1. up \in [Connections -> Seq(ClientFrames)] /\ up[m] \in Seq(ClientFrames)
  BY TypeParts
<1>2. session[m].stage = "closed" => session'[m].stage = "closed"
  OBVIOUS
<1>3. CASE up'[m] = up[m]
  <2>1. \A i \in OpsAt(m)' :
          /\ i + 0 \in OpsAt(m) /\ up'[m][i].op = up[m][i + 0].op
          /\ i \in LiveAt(m)' => i + 0 \in LiveAt(m)
    <3> SUFFICES ASSUME NEW i \in OpsAt(m)'
                 PROVE  /\ i + 0 \in OpsAt(m) /\ up'[m][i].op = up[m][i + 0].op
                        /\ i \in LiveAt(m)' => i + 0 \in LiveAt(m)
      OBVIOUS
    <3>1. i \in OpsAt(m) /\ i + 0 = i
      BY <1>1, <1>3 DEF OpsAt
    <3> QED
      BY <1>2, <1>3, <3>1 DEF LiveAt
  <2> QED
    BY <2>1
<1>4. CASE up'[m] = Tail(up[m]) /\ up[m] # <<>>
  <2>1. \A i \in DOMAIN Tail(up[m]) : i + 1 \in DOMAIN up[m] /\ Tail(up[m])[i] = up[m][i + 1]
    BY <1>1, <1>4, Queues
  <2>2. \A i \in OpsAt(m)' :
          /\ i + 1 \in OpsAt(m) /\ up'[m][i].op = up[m][i + 1].op
          /\ i \in LiveAt(m)' => i + 1 \in LiveAt(m)
    <3> SUFFICES ASSUME NEW i \in OpsAt(m)'
                 PROVE  /\ i + 1 \in OpsAt(m) /\ up'[m][i].op = up[m][i + 1].op
                        /\ i \in LiveAt(m)' => i + 1 \in LiveAt(m)
      OBVIOUS
    <3>1. up'[m][i] = up[m][i + 1] /\ i + 1 \in OpsAt(m)
      BY <1>4, <2>1 DEF OpsAt
    <3> QED
      BY <1>2, <3>1 DEF LiveAt
  <2> QED
    BY <2>2
<1>5. CASE up'[m] = <<>>
  <2>1. OpsAt(m)' = {}
    BY <1>5 DEF OpsAt
  <2> QED
    BY <2>1
<1>6. up'[m] = up[m] \/ (up'[m] = Tail(up[m]) /\ up[m] # <<>>) \/ up'[m] = <<>>
  BY <1>1
<1> QED
  BY <1>3, <1>4, <1>5, <1>6

\* A step on which operations are only taken, dropped or forgotten.
Calm ==
  /\ Fewer
  /\ log' = log /\ parked' \subseteq parked /\ ToSet(unacked') \subseteq ToSet(unacked)
  /\ typed' = typed

\* And the engine is given nothing that is not in the log.
Fed ==
  engine'.nodes \cup engine'.pending \subseteq engine.nodes \cup engine.pending \cup ToSet(log)

\* No identifier is met that was not met before.
LEMMA NothingNew ==
  ASSUME Calm, Fed, NEW k, Met(k)'
  PROVE  Met(k)
<1>1. CASE k \in IdsOf(ToSet(log) \cup parked \cup ToSet(unacked) \cup engine.nodes \cup engine.pending)'
  <2>1. PICK o \in ToSet(log') \cup parked' \cup ToSet(unacked') \cup engine'.nodes \cup engine'.pending :
          k = o.id
    BY <1>1 DEF IdsOf
  <2>2. o \in ToSet(log) \cup parked \cup ToSet(unacked) \cup engine.nodes \cup engine.pending
    BY <2>1 DEF Calm, Fed
  <2> QED
    BY <2>1, <2>2 DEF Met, IdsOf
<1>2. CASE \E o \in parked' : k = o.parent
  BY <1>2 DEF Met, Calm
<1>3. ASSUME NEW n \in Connections, NEW i \in OpsAt(n)', k \in {up'[n][i].op.id, up'[n][i].op.parent}
      PROVE  Met(k)
  <2>1. PICK d \in Nat : i + d \in OpsAt(n) /\ up'[n][i].op = up[n][i + d].op
    BY DEF Calm, Fewer
  <2> QED
    BY <1>3, <2>1 DEF Met
<1> QED
  BY <1>1, <1>2, <1>3 DEF Met

\* Identities are kept.
LEMMA CalmIdentity ==
  ASSUME Types, Identity, Calm, Fed, conn' \in Nat, conn' >= conn
  PROVE  Minted' /\ Newest' /\ Descent' /\ PeersCounted' /\ LoggedOnce'
<1>1. Minted'
  <2> SUFFICES ASSUME NEW k \in Ids, Met(k)'
               PROVE  IF k[2] = 0 THEN k \in IdsOf(ToSet(log'))
                      ELSE k[1] \in 1..typed' /\ k[2] <= conn'
    BY DEF Minted
  <2>1. IF k[2] = 0 THEN k \in IdsOf(ToSet(log)) ELSE k[1] \in 1..typed /\ k[2] <= conn
    BY NothingNew DEF Identity, Minted
  <2>2. k[2] \in Nat /\ conn \in Nat
    BY IdFields, Bounds, TypeParts
  <2> QED
    BY <2>1, <2>2 DEF Calm
<1>2. Newest'
  <2> SUFFICES ASSUME NEW k \in Ids, NEW o \in ToSet(unacked'), Met(k)', k[1] = o.id[1]
               PROVE  k[2] <= o.id[2]
    BY DEF Newest
  <2> QED
    BY NothingNew DEF Identity, Newest, Calm
<1>3. Descent'
  <2>1. \A o \in parked' \cup ToSet(unacked') : Descends(o)
    BY DEF Identity, Descent, Calm
  <2>2. ASSUME NEW n \in Connections, NEW i \in OpsAt(n)' PROVE Descends(up'[n][i].op)
    <3>1. PICK d \in Nat : i + d \in OpsAt(n) /\ up'[n][i].op = up[n][i + d].op
      BY DEF Calm, Fewer
    <3> QED
      BY <3>1 DEF Identity, Descent
  <2> QED
    BY <2>1, <2>2 DEF Descent
<1>4. PeersCounted' /\ LoggedOnce'
  BY DEF Identity, PeersCounted, LoggedOnce, Made, Calm
<1> QED
  BY <1>1, <1>2, <1>3, <1>4

\* Operations under way are the only copies still, and in the same order.
LEMMA FewerFates ==
  ASSUME Types', Single, Forward, Fewer
  PROVE  /\ Single' /\ Forward'
         /\ \A n \in Connections : \A i \in LiveAt(n)' : \E j \in LiveAt(n) : up'[n][i].op = up[n][j].op
<1> DEFINE d(n) == CHOOSE e \in Nat : \A i \in OpsAt(n)' :
                     /\ i + e \in OpsAt(n) /\ up'[n][i].op = up[n][i + e].op
                     /\ i \in LiveAt(n)' => i + e \in LiveAt(n)
<1>1. \A n \in Connections : d(n) \in Nat /\ \A i \in OpsAt(n)' :
        /\ i + d(n) \in OpsAt(n) /\ up'[n][i].op = up[n][i + d(n)].op
        /\ i \in LiveAt(n)' => i + d(n) \in LiveAt(n)
  BY DEF Fewer
<1> HIDE DEF d
<1>2. \A n \in Connections : \A i \in LiveAt(n)' :
        i \in Int /\ i + d(n) \in LiveAt(n) /\ up'[n][i].op = up[n][i + d(n)].op
  <2> SUFFICES ASSUME NEW n \in Connections, NEW i \in LiveAt(n)'
               PROVE  i \in Int /\ i + d(n) \in LiveAt(n) /\ up'[n][i].op = up[n][i + d(n)].op
    OBVIOUS
  <2>1. i \in OpsAt(n)'
    BY DEF LiveAt
  <2>2. i \in DOMAIN up'[n]
    BY <2>1 DEF OpsAt
  <2>3. up'[n] \in Seq(ClientFrames)
    BY TypePartsNext
  <2>4. i \in Int
    BY <2>2, <2>3
  <2> QED
    BY <1>1, <2>1, <2>4
<1>3. Single'
  <2> SUFFICES ASSUME NEW n \in Connections, NEW m \in Connections,
                      NEW i \in LiveAt(n)', NEW j \in LiveAt(m)',
                      up'[n][i].op.id[1] = up'[m][j].op.id[1]
               PROVE  n = m /\ i = j
    BY DEF Single
  <2>1. i + d(n) \in LiveAt(n) /\ j + d(m) \in LiveAt(m) /\ i \in Int /\ j \in Int
        /\ d(n) \in Nat /\ d(m) \in Nat
    BY <1>1, <1>2
  <2>2. PICK x \in LiveAt(n), y \in LiveAt(m) :
          /\ x = i + d(n) /\ y = j + d(m)
          /\ up'[n][i].op = up[n][x].op /\ up'[m][j].op = up[m][y].op
    BY <1>2, <2>1
  <2>3. up[n][x].op.id[1] = up[m][y].op.id[1]
    BY <2>2
  <2>4. n = m /\ x = y
    BY <2>3 DEF Single
  <2> QED
    BY <2>1, <2>2, <2>4
<1>4. Forward'
  <2> SUFFICES ASSUME NEW n \in Connections, NEW m \in Connections,
                      NEW i \in LiveAt(n)', NEW j \in LiveAt(m)',
                      up'[n][i].op.parent = up'[m][j].op.id
               PROVE  n = m /\ j < i
    BY DEF Forward
  <2>1. i + d(n) \in LiveAt(n) /\ j + d(m) \in LiveAt(m) /\ i \in Int /\ j \in Int
        /\ d(n) \in Nat /\ d(m) \in Nat
    BY <1>1, <1>2
  <2>2. n = m /\ j + d(m) < i + d(n)
    BY <1>2, <2>1 DEF Forward
  <2> QED
    BY <2>1, <2>2
<1> QED
  BY <1>2, <1>3, <1>4

\* The operations under way are as unsaved as before.
LEMMA CalmFates ==
  ASSUME Types', Fates, Calm
  PROVE  /\ Single' /\ Forward' /\ Hopeless'
         /\ rejected' \subseteq rejected => Lively' /\ Unsaved'
<1>1. /\ Single' /\ Forward'
      /\ \A n \in Connections : \A i \in LiveAt(n)' : \E j \in LiveAt(n) : up'[n][i].op = up[n][j].op
  BY FewerFates DEF Fates, Calm
<1>2. Hopeless'
  BY <1>1 DEF Fates, Hopeless, Calm
<1>3. ASSUME rejected' \subseteq rejected PROVE Lively'
  BY <1>1, <1>3 DEF Fates, Lively, Calm, IdsOf, EditsOf
<1>4. ASSUME rejected' \subseteq rejected PROVE Unsaved'
  BY <1>1, <1>4 DEF Fates, Unsaved, Calm, EditsOf
<1> QED
  BY <1>1, <1>2, <1>3, <1>4

\* What is said in the lanes after frames were queued.
LEMMA SendsIs ==
  ASSUME Types, NEW n, NEW frames \in Seq(Frames), Sends(n, frames)
  PROVE  /\ ops' \in Seq(Frames) /\ control' \in Seq(Frames)
         /\ ~Reaches(n) => UNCHANGED <<ops, control>>
         /\ \A f \in ToSet(ops') : f \in ToSet(ops) \/ (Reaches(n) /\ f \in ToSet(frames))
         /\ \A f \in ToSet(control') : f \in ToSet(control) \/ (Reaches(n) /\ f \in ToSet(frames))
         /\ \A i \in DOMAIN control : i \in DOMAIN control' /\ control'[i] = control[i]
         /\ \A i \in DOMAIN control' :
              \/ i \in DOMAIN control
              \/ /\ Reaches(n) /\ control'[i] \in ToSet(frames)
                 /\ \A j \in DOMAIN control : j \in 1..(i - 1)
<1>1. ops \in Seq(Frames) /\ control \in Seq(Frames)
  BY TypeParts
<1>2. CASE ~Reaches(n) \/ UNCHANGED control
  <2>1. UNCHANGED control
    BY <1>2 DEF Sends
  <2>2. UNCHANGED ops \/ (Reaches(n) /\ ops' = ops \o frames)
    BY <1>2 DEF Sends
  <2>3. ops \o frames \in Seq(Frames) /\ ToSet(ops \o frames) = ToSet(ops) \cup ToSet(frames)
    BY <1>1, Joins
  <2>4. ~Reaches(n) => UNCHANGED ops
    BY DEF Sends
  <2> QED
    BY <1>1, <2>1, <2>2, <2>3, <2>4
<1>3. CASE Reaches(n) /\ UNCHANGED ops /\ control' = control \o frames
  <2>1. control' \in Seq(Frames) /\ ToSet(control') = ToSet(control) \cup ToSet(frames)
    BY <1>1, <1>3, Joins
  <2>2. \A i \in DOMAIN control : i \in DOMAIN control' /\ control'[i] = control[i]
    BY <1>1, <1>3, Continued
  <2>3. ASSUME NEW i \in DOMAIN control', i \notin DOMAIN control
        PROVE  control'[i] \in ToSet(frames) /\ \A j \in DOMAIN control : j \in 1..(i - 1)
    <3>1. i - Len(control) \in DOMAIN frames /\ control'[i] = frames[i - Len(control)]
          /\ Len(control) \in Nat /\ DOMAIN control = 1..Len(control) /\ i \in Int
          /\ DOMAIN frames = 1..Len(frames)
      BY <1>1, <1>3, <2>3, Continued
    <3> QED
      BY <3>1 DEF ToSet
  <2> QED
    BY <1>1, <1>3, <2>1, <2>2, <2>3
<1> QED
  BY <1>2, <1>3 DEF Sends

\* A session of the handshake goes on: it is numbered n, it becomes k, and the
\* frames are sent.
Turn(n, k, frames) ==
  /\ n <= conn /\ Alone(n) /\ session[n].stage \in {"open", "catchup", "checking"}
  /\ k.stage \in {"catchup", "checking", "joined"} /\ k.to <= Len(log)
  /\ session' = [session EXCEPT ![n] = k]
  /\ IF session[n].stage = "open"
     THEN /\ up[n] # <<>> /\ up' = [up EXCEPT ![n] = Tail(up[n])]
          /\ k.stage # "joined" /\ k.unacked = up[n][1].unacked
     ELSE up' = up /\ (k.stage = "joined" \/ k.unacked = session[n].unacked)
  /\ session[n].stage = "checking" \/ k.stage = "catchup" \/ \E f \in ToSet(frames) : Renews(f)
  /\ \A f \in ToSet(frames) :
       /\ Told(f) /\ f.kind \notin {"op", "ack", "reject"}
       /\ f.kind = "have" => /\ session[n].stage = "checking"
                             /\ f.ids = session[n].unacked \cap IdsOf(ToSet(log))
  /\ SendControl(n, frames)
  /\ UNCHANGED <<faults, server, conn, open, synced, client>>

\* A session that has begun is of a connection that was opened.
LEMMA Opened ==
  ASSUME Types, Talks, NEW n \in Connections, session[n].stage # "open" \/ up[n] # <<>>
  PROVE  n <= conn
<1>1. n \in Nat /\ conn \in Nat
  BY TypeParts DEF Connections
<1>2. n > conn => up[n] = <<>> /\ session[n].stage = "open"
  BY DEF Talks, NewSession
<1> QED
  BY <1>1, <1>2

\* The steps of a handshake are turns.
LEMMA AdmitTurns ==
  ASSUME Types, Talks, NEW n \in Connections, Admit(n)
  PROVE  \E k \in Session, frames \in Seq(Frames) : Turn(n, k, frames)
<1>1. PICK k \in Session, w \in Frames : Admitted(n, k, w)
  BY AdmitIs
<1>2. /\ up[n] # <<>> /\ session[n].stage = "open" /\ n <= conn
      /\ Alone(n)
      /\ up' = [up EXCEPT ![n] = Tail(up[n])]
      /\ session' = [session EXCEPT ![n] = k]
      /\ k.stage \in {"catchup", "checking"} /\ k.unacked = up[n][1].unacked /\ k.to <= Len(log)
      /\ w.kind = "welcome"
      /\ \/ k.stage = "catchup" /\ SendControl(n, <<w>>)
         \/ w.mode = "current" /\ SendControl(n, <<w>>)
         \/ \E s \in Frames : /\ s.kind = "snapshot" /\ s.nodes \subseteq ToSet(log)
                              /\ SendControl(n, <<w>> \o <<s>>)
      /\ UNCHANGED <<faults, server, conn, open, synced, client>>
  BY <1>1 DEF Admitted
<1>3. Told(w)
  BY <1>2 DEF Told
<1>4. <<w>> \in Seq(Frames) /\ ToSet(<<w>>) = {w}
  BY DEF ToSet
<1>5. CASE SendControl(n, <<w>>) /\ (k.stage = "catchup" \/ w.mode = "current")
  <2>1. k.stage = "catchup" \/ \E f \in ToSet(<<w>>) : Renews(f)
    BY <1>2, <1>4, <1>5 DEF Renews
  <2>2. Turn(n, k, <<w>>)
    BY <1>1, <1>2, <1>3, <1>4, <1>5, <2>1 DEF Turn
  <2> QED
    BY <1>4, <2>2
<1>6. ASSUME NEW s \in Frames, s.kind = "snapshot", s.nodes \subseteq ToSet(log),
             SendControl(n, <<w>> \o <<s>>)
      PROVE  \E frames \in Seq(Frames) : Turn(n, k, frames)
  <2>1. <<s>> \in Seq(Frames) /\ ToSet(<<s>>) = {s}
    BY DEF ToSet
  <2>2. PICK a \in Seq(Frames), b \in Seq(Frames) :
          a = <<w>> /\ b = <<s>> /\ ToSet(a) = {w} /\ ToSet(b) = {s}
    BY <1>4, <2>1
  <2>3. a \o b \in Seq(Frames) /\ ToSet(a \o b) = ToSet(a) \cup ToSet(b)
    BY Joins
  <2>4. ToSet(a \o b) = {w, s}
    BY <2>2, <2>3
  <2>5. Told(s) /\ Renews(s)
    BY <1>6 DEF Told, Renews
  <2>6. SendControl(n, a \o b)
    BY <1>6, <2>2
  <2>7. Turn(n, k, a \o b)
    BY <1>1, <1>2, <1>3, <1>6, <2>4, <2>5, <2>6 DEF Turn
  <2> QED
    BY <2>3, <2>7
<1> QED
  BY <1>2, <1>5, <1>6

\* The catch-up range is sent.
LEMMA SendCatchupTurns ==
  ASSUME Types, Talks, Successions, NEW n \in Connections, SendCatchup(n)
  PROVE  \E k \in Session, frames \in Seq(Frames) : Turn(n, k, frames)
<1>1. PICK k \in Session, frames \in Seq(Frames) :
        /\ session[n].stage = "catchup" /\ k.stage = "checking"
        /\ k.unacked = session[n].unacked /\ k.to <= Len(log)
        /\ session' = [session EXCEPT ![n] = k]
        /\ frames # <<>> /\ Renews(frames[1])
        /\ \A f \in ToSet(frames) : f.kind \in {"begin", "chunk", "end"} /\ Told(f)
        /\ SendControl(n, frames)
        /\ UNCHANGED <<faults, server, up, conn, open, synced, client>>
  BY SendCatchupIs
<1>2. n <= conn
  BY <1>1, Opened
<1>3. \E f \in ToSet(frames) : Renews(f)
  <2>1. 1 \in DOMAIN frames
    BY <1>1
  <2> QED
    BY <1>1, <2>1 DEF ToSet
<1>4. Turn(n, k, frames)
  BY <1>1, <1>2, <1>3 DEF Turn, Successions
<1> QED
  BY <1>4

\* ALREADY_HAVE is sent.
LEMMA SendAlreadyHaveTurns ==
  ASSUME Types, Talks, Successions, NEW n \in Connections, SendAlreadyHave(n)
  PROVE  \E k \in Session, frames \in Seq(Frames) : Turn(n, k, frames)
<1>1. PICK k \in Session, have \in Frames :
        /\ session[n].stage = "checking" /\ k.stage = "joined" /\ k.to <= Len(log)
        /\ session' = [session EXCEPT ![n] = k]
        /\ have.kind = "have" /\ have.ids = session[n].unacked \cap IdsOf(ToSet(log))
        /\ SendControl(n, <<have>>)
        /\ UNCHANGED <<faults, server, up, conn, open, synced, client>>
  BY SendAlreadyHaveIs
<1>2. n <= conn
  BY <1>1, Opened
<1>3. <<have>> \in Seq(Frames) /\ ToSet(<<have>>) = {have}
  BY DEF ToSet
<1>4. Told(have)
  BY <1>1 DEF Told
<1>5. Turn(n, k, <<have>>)
  BY <1>1, <1>2, <1>3, <1>4 DEF Turn, Successions
<1> QED
  BY <1>3, <1>5

\* A session that is alone stays so.
LEMMA AloneKept ==
  ASSUME NEW c \in 0..MaxConnections, Alone(c),
         \A m \in Connections : session[m].stage = "closed" => session'[m].stage = "closed"
  PROVE  Alone(c)'
<1>1. \A m \in 1..(c - 1) : m \in Connections
  BY Bounds DEF Connections
<1> QED
  BY <1>1 DEF Alone

\* A connection and its session go on from where they were.
LEMMA TalksOn ==
  ASSUME Types, Talks, NEW n \in Connections, n <= conn, conn' = conn,
         \/ session' = session /\ session[n].stage # "open"
         \/ \E k \in Session : k.stage # "open" /\ session' = [session EXCEPT ![n] = k],
         \/ up' = up /\ session[n].stage # "open"
         \/ up[n] # <<>> /\ up' = [up EXCEPT ![n] = Tail(up[n])]
         \/ up' = [up EXCEPT ![n] = <<>>]
  PROVE  Talks'
<1>1. up \in [Connections -> Seq(ClientFrames)] /\ session \in [Connections -> Session]
      /\ n \in Nat /\ conn \in Nat
  BY TypeParts DEF Connections
<1>2. session'[n].stage # "open" /\ \A m \in Connections : m # n => session'[m] = session[m]
  BY <1>1
<1>3. \A m \in Connections : m # n => up'[m] = up[m]
  BY <1>1
<1>4. \A i \in DOMAIN up'[n] : up'[n][i].kind # "hello"
  <2>1. CASE up' = up /\ session[n].stage # "open"
    BY <2>1 DEF Talks
  <2>2. CASE up' = [up EXCEPT ![n] = <<>>]
    BY <1>1, <2>2
  <2>3. CASE up[n] # <<>> /\ up' = [up EXCEPT ![n] = Tail(up[n])]
    <3>1. up'[n] = Tail(up[n]) /\ up[n] \in Seq(ClientFrames)
      BY <1>1, <2>3
    <3>2. \A i \in DOMAIN Tail(up[n]) : i + 1 \in DOMAIN up[n] /\ Tail(up[n])[i] = up[n][i + 1]
                                        /\ i \in Nat /\ i >= 1
      BY <2>3, <3>1
    <3>3. \A i \in DOMAIN up[n] : up[n][i].kind = "hello" => i = 1
      BY DEF Talks
    <3> SUFFICES ASSUME NEW i \in DOMAIN Tail(up[n]) PROVE Tail(up[n])[i].kind # "hello"
      BY <3>1
    <3>4. i + 1 # 1
      BY <3>2
    <3> QED
      BY <3>2, <3>3, <3>4
  <2> QED
    BY <2>1, <2>2, <2>3
<1> SUFFICES ASSUME NEW m \in Connections
             PROVE  /\ m > conn => up'[m] = <<>> /\ session'[m] = NewSession
                    /\ m <= conn /\ session'[m].stage = "open" => up'[m] # <<>> /\ up'[m][1].kind = "hello"
                    /\ \A i \in DOMAIN up'[m] : up'[m][i].kind = "hello" => i = 1 /\ session'[m].stage = "open"
  BY DEF Talks
<1>5. CASE m = n
  BY <1>1, <1>2, <1>4, <1>5
<1>6. CASE m # n
  <2>1. up'[m] = up[m] /\ session'[m] = session[m]
    BY <1>2, <1>3, <1>6
  <2> QED
    BY <2>1 DEF Talks
<1> QED
  BY <1>5, <1>6

\* What is awaited after a step, and by what.
AwaitedNext(o) ==
  \/ o \in ToSet(unacked')
  \/ o.id[1] \in EditsOf(ToSet(log') \cup rejected') \ EditsOf(ToSet(unacked'))

\* What the invariant says of answers after a step, conjunct by conjunct.
LEMMA AnswersNext ==
  ASSUME NEW c, conn' = c,
         open' =>
           /\ \A i \in OpsAt(c)' : AwaitedNext(up'[c][i].op) /\ up'[c][i].op.id \notin helloUnacked'
           /\ \A o \in parked' : o.id[2] = c => AwaitedNext(o)
           /\ \A f \in ToSet(ops') \cup ToSet(control') : f.kind = "reject" =>
                /\ AwaitedNext(f.op) /\ f.op.id \notin helloUnacked' /\ f.op.id[1] \in 1..typed'
                /\ \A n \in Connections : \A i \in LiveAt(n)' : up'[n][i].op.id[1] # f.op.id[1]
  PROVE  Answers'
BY DEF Answers, Answerable, Awaited, AwaitedNext, OpsAt, LiveAt

\* What is awaited stays so, and so does what is answered.
LEMMA AnswersOn ==
  ASSUME Answers, Fewer, UNCHANGED <<helloUnacked, conn, open, typed>>,
         open => conn \in Connections,
         \A o : Awaited(o) => AwaitedNext(o),
         \A o \in parked' : o \in parked \/ (open /\ o.id[2] = conn => Awaited(o)),
         \A f \in ToSet(ops') \cup ToSet(control') :
           f.kind = "reject" /\ open => f \in ToSet(ops) \cup ToSet(control) \/ Answerable(f.op)
  PROVE  Answers'
<1>1. PICK c : c = conn
  OBVIOUS
<1>2. conn' = c
  BY <1>1
<1>3. ASSUME open
      PROVE  /\ c \in Connections
             /\ \A i \in OpsAt(c) : Awaited(up[c][i].op) /\ up[c][i].op.id \notin helloUnacked
             /\ \A o \in parked' : o.id[2] = c => Awaited(o)
             /\ \A f \in ToSet(ops') \cup ToSet(control') : f.kind = "reject" => Answerable(f.op)
  BY <1>1, <1>3 DEF Answers
<1>4. ASSUME open, NEW i \in OpsAt(c)'
      PROVE  AwaitedNext(up'[c][i].op) /\ up'[c][i].op.id \notin helloUnacked'
  <2>1. PICK d \in Nat : i + d \in OpsAt(c) /\ up'[c][i].op = up[c][i + d].op
    BY <1>3, <1>4 DEF Fewer
  <2>2. Awaited(up[c][i + d].op) /\ up[c][i + d].op.id \notin helloUnacked
    BY <1>3, <1>4, <2>1
  <2> QED
    BY <2>1, <2>2
<1>5. ASSUME open, NEW o \in parked', o.id[2] = c
      PROVE  AwaitedNext(o)
  BY <1>3, <1>5
<1>6. ASSUME open, NEW f \in ToSet(ops') \cup ToSet(control'), f.kind = "reject"
      PROVE  /\ AwaitedNext(f.op) /\ f.op.id \notin helloUnacked' /\ f.op.id[1] \in 1..typed'
             /\ \A n \in Connections : \A i \in LiveAt(n)' : up'[n][i].op.id[1] # f.op.id[1]
  <2>1. Answerable(f.op)
    BY <1>3, <1>6
  <2>2. ASSUME NEW n \in Connections, NEW i \in LiveAt(n)' PROVE up'[n][i].op.id[1] # f.op.id[1]
    <3>1. i \in OpsAt(n)'
      BY DEF LiveAt
    <3>2. PICK d \in Nat : i + d \in LiveAt(n) /\ up'[n][i].op = up[n][i + d].op
      BY <3>1 DEF Fewer
    <3> QED
      BY <2>1, <3>2 DEF Answerable
  <2> QED
    BY <2>1, <2>2 DEF Answerable
<1>7. open' => open
  OBVIOUS
<1> QED
  BY <1>2, <1>4, <1>5, <1>6, <1>7, AnswersNext

\* Nothing is awaited that was not, and no answer is new.
LEMMA CalmAnswers ==
  ASSUME Answers, Calm, UNCHANGED <<rejected, helloUnacked, conn, open, unacked>>,
         open => conn \in Connections,
         \A f \in ToSet(ops') \cup ToSet(control') :
           f.kind = "reject" => f \in ToSet(ops) \cup ToSet(control)
  PROVE  Answers'
<1>1. \A o : Awaited(o) => AwaitedNext(o)
  BY DEF Awaited, AwaitedNext, Calm
<1> QED
  BY <1>1, AnswersOn DEF Calm

\* What a calm step keeps, if the queues stay as they are.
LEMMA CalmKeeps ==
  ASSUME IInv, Types', Calm, Fed, conn' >= conn, UNCHANGED <<unacked, rejected, durable>>
  PROVE  /\ Identity'
         /\ Lively' /\ Single' /\ Forward' /\ Hopeless' /\ Distinct' /\ Unsaved' /\ Stored' /\ Refusals'
<1>1. conn' \in Nat
  BY TypePartsNext
<1>2. Types /\ Identity /\ Fates
  BY DEF IInv
<1>3. Minted' /\ Newest' /\ Descent' /\ PeersCounted' /\ LoggedOnce'
  BY <1>1, <1>2, CalmIdentity
<1>4. ParentsFirst' /\ Distinct'
  BY <1>2 DEF Identity, ParentsFirst, Fates, Distinct
<1>5. Lively' /\ Single' /\ Forward' /\ Hopeless' /\ Unsaved'
  BY <1>2, CalmFates
<1>6. Stored' /\ Refusals'
  BY <1>2 DEF Fates, Stored, Noted, Refusals, Calm, durable
<1> QED
  BY <1>3, <1>4, <1>5, <1>6 DEF Identity

\* A turn of a handshake keeps the invariant.
LEMMA TurnStep ==
  ASSUME IInv, NEW n \in Connections, NEW k \in Session, NEW frames \in Seq(Frames), Turn(n, k, frames)
  PROVE  IInv'
<1>1. /\ n <= conn /\ Alone(n) /\ session[n].stage \in {"open", "catchup", "checking"}
      /\ k.stage \in {"catchup", "checking", "joined"} /\ k.to <= Len(log)
      /\ session' = [session EXCEPT ![n] = k]
      /\ IF session[n].stage = "open"
         THEN /\ up[n] # <<>> /\ up' = [up EXCEPT ![n] = Tail(up[n])]
              /\ k.stage # "joined" /\ k.unacked = up[n][1].unacked
         ELSE up' = up /\ (k.stage = "joined" \/ k.unacked = session[n].unacked)
  BY DEF Turn
<1>2. session[n].stage = "checking" \/ k.stage = "catchup" \/ \E f \in ToSet(frames) : Renews(f)
  BY DEF Turn
<1>3. \A f \in ToSet(frames) :
       /\ Told(f) /\ f.kind \notin {"op", "ack", "reject"}
       /\ f.kind = "have" => /\ session[n].stage = "checking"
                             /\ f.ids = session[n].unacked \cap IdsOf(ToSet(log))
  BY DEF Turn
<1>4. Sends(n, frames) /\ ops' = ops
  BY DEF Turn, SendControl, Sends
<1>5. /\ faults' = faults /\ log' = log /\ committed' = committed /\ parked' = parked
      /\ conn' = conn /\ open' = open /\ synced' = synced /\ engine' = engine /\ unacked' = unacked
      /\ helloUnacked' = helloUnacked /\ seqs' = seqs /\ gate' = gate /\ rejected' = rejected
      /\ stored' = stored /\ flushing' = flushing /\ unstored' = unstored /\ typed' = typed /\ reloads' = reloads
  BY DEF Turn, server, client, durable
<1>6. Types /\ Talks /\ Successions /\ Renewals /\ Carried /\ Identity /\ Fates
  BY DEF IInv
<1>7. session \in [Connections -> Session] /\ up \in [Connections -> Seq(ClientFrames)]
      /\ control \in Seq(Frames) /\ conn \in 0..MaxConnections /\ n \in Nat
  BY <1>6, TypeParts DEF Connections
<1>8. \A m \in Connections : session[m].stage = "closed" => session'[m].stage = "closed"
  BY <1>1, <1>7
<1>9. /\ control' \in Seq(Frames)
      /\ ~Reaches(n) => UNCHANGED <<ops, control>>
      /\ \A f \in ToSet(control') : f \in ToSet(control) \/ (Reaches(n) /\ f \in ToSet(frames))
      /\ \A i \in DOMAIN control : i \in DOMAIN control' /\ control'[i] = control[i]
      /\ \A i \in DOMAIN control' :
           \/ i \in DOMAIN control
           \/ /\ Reaches(n) /\ control'[i] \in ToSet(frames)
              /\ \A j \in DOMAIN control : j \in 1..(i - 1)
  BY <1>4, <1>6, SendsIs
<1>10. Types'
  <2>1. session' \in [Connections -> Session] /\ \A m \in Connections : session'[m].to <= Len(log)
    BY <1>1, <1>6, <1>7, TypeParts
  <2>2. up' \in [Connections -> Seq(ClientFrames)]
    <3>1. up[n] # <<>> => Tail(up[n]) \in Seq(ClientFrames)
      BY <1>7
    <3> QED
      BY <1>1, <1>7, <3>1
  <2> QED
    BY <1>4, <1>5, <1>6, <1>9, <2>1, <2>2, TypeParts, TypePartsNext
<1>11. Talks'
  BY <1>1, <1>5, <1>6, TalksOn
<1>12. \A c \in 0..MaxConnections : Alone(c) => Alone(c)'
  BY <1>8, AloneKept
<1>13. Successions'
  <2>1. (open' \/ gate' # <<>> => conn' > 0) /\ engine'.replica <= conn'
    BY <1>5, <1>6 DEF Successions
  <2>2. ASSUME engine'.replica = conn' \/ \E i \in DOMAIN control' : Renews(control'[i])
        PROVE  Alone(conn)
    <3>1. CASE engine.replica = conn \/ \E i \in DOMAIN control : Renews(control[i])
      BY <1>6, <3>1 DEF Successions
    <3>2. CASE Reaches(n)
      BY <1>1, <3>2 DEF Reaches
    <3>3. CASE control' = control /\ engine.replica # conn
      BY <1>5, <1>6, <2>2, <3>3 DEF Successions
    <3> QED
      BY <1>5, <1>9, <2>2, <3>1, <3>2, <3>3
  <2>3. ASSUME NEW m \in Connections, session'[m].stage \notin {"open", "closed"}
        PROVE  Alone(m)
    <3>1. CASE m = n
      BY <1>1, <3>1
    <3>2. CASE m # n
      BY <1>1, <1>6, <1>7, <2>3, <3>2 DEF Successions
    <3> QED
      BY <3>1, <3>2
  <2>4. \A m \in Connections : m \in 0..MaxConnections
    BY Bounds DEF Connections
  <2>5. Alone(conn) => Alone(conn)'
    <3>1. PICK c \in 0..MaxConnections : c = conn
      BY <1>7
    <3>2. Alone(c) => Alone(c)'
      BY <1>12
    <3> QED
      BY <1>5, <3>1, <3>2 DEF Alone
  <2> QED
    BY <1>5, <1>12, <2>1, <2>2, <2>3, <2>4, <2>5 DEF Successions
<1>14. Renewals'
  <2>1. ASSUME open', session'[conn'].stage \in {"checking", "joined"}
        PROVE  engine'.replica = conn' \/ \E i \in DOMAIN control' : Renews(control'[i])
    <3>1. conn \in Connections
      BY <1>5, <1>6, <1>7, <2>1, Bounds DEF Successions, Connections
    <3>2. CASE session[conn].stage \in {"checking", "joined"}
      <4>1. engine.replica = conn \/ \E i \in DOMAIN control : Renews(control[i])
        BY <1>5, <1>6, <2>1, <3>2 DEF Renewals
      <4> QED
        BY <1>5, <1>9, <4>1
    <3>3. CASE session[conn].stage \notin {"checking", "joined"}
      <4>1. n = conn /\ k.stage # "catchup" /\ session[n].stage # "checking"
        BY <1>1, <1>5, <1>7, <2>1, <3>1, <3>3
      <4>2. PICK f \in ToSet(frames) : Renews(f)
        BY <1>2, <4>1
      <4>3. control' = control \o frames
        BY <1>5, <2>1, <4>1 DEF Turn, SendControl, Reaches
      <4>4. ToSet(control') = ToSet(control) \cup ToSet(frames)
        BY <1>7, <4>3, Joins
      <4> QED
        BY <4>2, <4>4 DEF ToSet
    <3> QED
      BY <3>2, <3>3
  <2>2. ASSUME NEW i \in DOMAIN control', control'[i].kind = "have"
        PROVE  engine'.replica = conn' \/ \E j \in 1..(i - 1) : Renews(control'[j])
    <3>1. CASE i \in DOMAIN control
      <4>1. engine.replica = conn \/ \E j \in 1..(i - 1) : Renews(control[j])
        BY <1>6, <1>9, <2>2, <3>1 DEF Renewals
      <4>2. \A j \in 1..(i - 1) : j \in DOMAIN control
        BY <1>7, <3>1
      <4> QED
        BY <1>5, <1>9, <4>1, <4>2
    <3>2. CASE i \notin DOMAIN control
      <4>1. Reaches(n) /\ control'[i] \in ToSet(frames) /\ \A j \in DOMAIN control : j \in 1..(i - 1)
        BY <1>9, <3>2
      <4>2. session[n].stage = "checking" /\ n = conn /\ open
        BY <1>3, <2>2, <4>1 DEF Reaches
      <4>3. engine.replica = conn \/ \E j \in DOMAIN control : Renews(control[j])
        BY <1>6, <4>2 DEF Renewals
      <4> QED
        BY <1>5, <1>9, <4>1, <4>3
    <3> QED
      BY <3>1, <3>2
  <2>3. \A i \in DOMAIN gate' : gate'[i].kind = "have" => engine'.replica = conn'
    BY <1>5, <1>6 DEF Renewals
  <2> QED
    BY <2>1, <2>2, <2>3 DEF Renewals
<1>15. \A f : Told(f) => Told(f)'
  BY <1>5 DEF Told
<1>16. Carried'
  <2>1. ~open' => ops' = <<>> /\ control' = <<>>
    <3>1. ~open => ~Reaches(n)
      BY DEF Reaches
    <3> QED
      BY <1>5, <1>6, <1>9, <3>1 DEF Carried
  <2>2. \A i \in DOMAIN ops' : ops'[i].kind \in {"op", "ack", "reject"}
    BY <1>4, <1>6 DEF Carried
  <2>3. \A f \in ToSet(ops') \cup ToSet(control') \cup ToSet(gate') : Told(f)
    BY <1>3, <1>4, <1>5, <1>6, <1>9 DEF Carried
  <2> QED
    BY <1>15, <2>1, <2>2, <2>3 DEF Carried
<1>17. Calm /\ Fed
  <2>1. Fewer
    BY <1>1, <1>6, <1>8, FewerWhen
  <2> QED
    BY <1>5, <2>1 DEF Calm, Fed
<1>18. /\ Identity'
       /\ Lively' /\ Single' /\ Forward' /\ Hopeless' /\ Distinct' /\ Unsaved' /\ Stored' /\ Refusals'
  <2>1. conn' >= conn
    BY <1>5, <1>7
  <2> QED
    BY <1>5, <1>10, <1>17, <2>1, CalmKeeps DEF durable
<1>19. Answers'
  <2>1. open => conn \in Connections
    BY <1>6, <1>7, Bounds DEF Successions, Connections
  <2>2. \A f \in ToSet(ops') \cup ToSet(control') : f.kind = "reject" => f \in ToSet(ops) \cup ToSet(control)
    BY <1>3, <1>4, <1>9
  <2> QED
    BY <1>5, <1>6, <1>17, <2>1, <2>2, CalmAnswers DEF Fates
<1>20. Reported'
  <2>1. \A i \in helloUnacked' : i[2] < conn' /\ i[1] \in 1..typed'
    BY <1>5, <1>6 DEF Fates, Reported
  <2>2. ASSUME open', session'[conn'].stage \in {"catchup", "checking"}
        PROVE  session'[conn'].unacked = helloUnacked'
    <3>1. conn \in Connections
      BY <1>5, <1>6, <1>7, <2>2, Bounds DEF Successions, Connections
    <3>2. CASE n = conn
      BY <1>1, <1>5, <1>6, <1>7, <2>2, <3>2 DEF Fates, Reported
    <3>3. CASE n # conn
      BY <1>1, <1>5, <1>6, <1>7, <2>2, <3>1, <3>3 DEF Fates, Reported
    <3> QED
      BY <3>2, <3>3
  <2>3. ASSUME open', session'[conn'].stage = "open"
        PROVE  up'[conn'][1].unacked = helloUnacked'
    <3>1. conn \in Connections
      BY <1>5, <1>6, <1>7, <2>3, Bounds DEF Successions, Connections
    <3>2. n # conn
      BY <1>1, <1>5, <1>7, <2>3
    <3> QED
      BY <1>1, <1>5, <1>6, <1>7, <2>3, <3>1, <3>2 DEF Fates, Reported
  <2>4. \A f : Had(f) => Had(f)'
    <3>1. PICK c \in 0..MaxConnections : c = conn
      BY <1>7
    <3>2. Alone(c) => Alone(c)'
      BY <1>12
    <3> QED
      BY <1>5, <3>1, <3>2 DEF Had, Alone
  <2>5. ASSUME NEW f \in ToSet(control') \cup ToSet(gate'), f.kind = "have"
        PROVE  Had(f)
    <3>1. CASE f \in ToSet(control) \cup ToSet(gate)
      BY <1>6, <2>5, <3>1 DEF Fates, Reported
    <3>2. CASE Reaches(n) /\ f \in ToSet(frames)
      <4>1. session[conn].stage = "checking" /\ open /\ n = conn
            /\ f.ids = session[conn].unacked \cap IdsOf(ToSet(log))
        BY <1>3, <2>5, <3>2 DEF Reaches
      <4>2. session[conn].unacked = helloUnacked
        BY <1>6, <4>1 DEF Fates, Reported
      <4>3. ASSUME NEW o \in ToSet(unacked), o.id \in helloUnacked
            PROVE  o.id \in f.ids <=> o.id[1] \in EditsOf(ToSet(log))
        <5>1. o.id \in f.ids <=> o.id \in IdsOf(ToSet(log))
          BY <4>1, <4>2, <4>3
        <5>2. o.id \in IdsOf(ToSet(log)) => o.id[1] \in EditsOf(ToSet(log))
          BY DEF IdsOf, EditsOf
        <5>3. o.id[1] \in EditsOf(ToSet(log)) => o.id \in IdsOf(ToSet(log))
          BY <1>6 DEF Fates, Unsaved
        <5> QED
          BY <5>1, <5>2, <5>3
      <4> QED
        BY <1>1, <4>1, <4>3 DEF Had
    <3> QED
      BY <1>5, <1>9, <2>5, <3>1, <3>2
  <2> QED
    BY <2>1, <2>2, <2>3, <2>4, <2>5 DEF Reported
<1> QED
  BY <1>10, <1>11, <1>13, <1>14, <1>16, <1>18, <1>19, <1>20 DEF IInv, Fates

\* A session that is closed takes no part in anything.
LEMMA ClosesStep ==
  ASSUME IInv, NEW n \in Connections, Closes(n)
  PROVE  IInv'
<1>1. Types /\ Talks /\ Successions /\ Renewals /\ Carried /\ Identity /\ Fates
  BY DEF IInv
<1>2. PICK k \in Session :
        /\ n <= conn /\ session[n].stage # "closed" /\ k.stage = "closed" /\ k.to <= Len(log)
        /\ up' = [up EXCEPT ![n] = <<>>]
        /\ session' = [session EXCEPT ![n] = k]
        /\ UNCHANGED <<faults, server, ops, control, conn, open, synced, client>>
  BY <1>1, ClosesIs
<1>3. /\ faults' = faults /\ log' = log /\ committed' = committed /\ parked' = parked
      /\ ops' = ops /\ control' = control
      /\ conn' = conn /\ open' = open /\ synced' = synced /\ engine' = engine /\ unacked' = unacked
      /\ helloUnacked' = helloUnacked /\ seqs' = seqs /\ gate' = gate /\ rejected' = rejected
      /\ stored' = stored /\ flushing' = flushing /\ unstored' = unstored /\ typed' = typed /\ reloads' = reloads
  BY <1>2 DEF server, client, durable
<1>4. session \in [Connections -> Session] /\ up \in [Connections -> Seq(ClientFrames)]
      /\ control \in Seq(Frames) /\ conn \in 0..MaxConnections /\ n \in Nat
  BY <1>1, TypeParts DEF Connections
<1>5. \A m \in Connections : session'[m] = IF m = n THEN k ELSE session[m]
  BY <1>2, <1>4
<1>6. \A m \in Connections : up'[m] = IF m = n THEN <<>> ELSE up[m]
  BY <1>2, <1>4
<1>7. \A m \in Connections : session[m].stage = "closed" => session'[m].stage = "closed"
  BY <1>2, <1>5
<1>8. Types'
  <2>1. session' \in [Connections -> Session] /\ \A m \in Connections : session'[m].to <= Len(log)
    BY <1>1, <1>2, <1>4, TypeParts
  <2>2. up' \in [Connections -> Seq(ClientFrames)]
    BY <1>2, <1>4
  <2> QED
    BY <1>1, <1>3, <2>1, <2>2, TypeParts, TypePartsNext
<1>9. Talks'
  BY <1>1, <1>2, <1>3, TalksOn
<1>10. \A c \in 0..MaxConnections : Alone(c) => Alone(c)'
  BY <1>7, AloneKept
<1>11. Alone(conn) => Alone(conn)'
  <2>1. PICK c \in 0..MaxConnections : c = conn
    BY <1>4
  <2>2. Alone(c) => Alone(c)'
    BY <1>10
  <2> QED
    BY <1>3, <2>1, <2>2 DEF Alone
<1>12. Successions'
  <2>1. \A m \in Connections : m \in 0..MaxConnections
    BY Bounds DEF Connections
  <2>2. \A m \in Connections : session'[m].stage \notin {"open", "closed"} => Alone(m)
    BY <1>1, <1>2, <1>5 DEF Successions
  <2> QED
    BY <1>1, <1>3, <1>10, <1>11, <2>1, <2>2 DEF Successions
<1>13. open => conn \in Connections
  BY <1>1, <1>4, Bounds DEF Successions, Connections
<1>14. Renewals'
  <2>1. open /\ session'[conn].stage \in {"checking", "joined"} => session[conn].stage \in {"checking", "joined"}
    BY <1>2, <1>5, <1>13
  <2> QED
    BY <1>1, <1>3, <2>1 DEF Renewals
<1>15. Carried'
  BY <1>1, <1>3 DEF Carried, Told
<1>16. Calm /\ Fed
  <2>1. Fewer
    BY <1>1, <1>2, <1>7, FewerWhen
  <2> QED
    BY <1>3, <2>1 DEF Calm, Fed
<1>17. /\ Identity'
       /\ Lively' /\ Single' /\ Forward' /\ Hopeless' /\ Distinct' /\ Unsaved' /\ Stored' /\ Refusals'
  <2>1. conn' >= conn
    BY <1>3, <1>4
  <2> QED
    BY <1>3, <1>8, <1>16, <2>1, CalmKeeps DEF durable
<1>18. Answers'
  BY <1>1, <1>3, <1>13, <1>16, CalmAnswers DEF Fates
<1>19. Reported'
  <2>1. open /\ session'[conn].stage \in {"catchup", "checking"} =>
          session'[conn].unacked = helloUnacked
    BY <1>1, <1>2, <1>5, <1>13 DEF Fates, Reported
  <2>2. open /\ session'[conn].stage = "open" => up'[conn][1].unacked = helloUnacked
    BY <1>1, <1>2, <1>5, <1>6, <1>13 DEF Fates, Reported
  <2>3. \A f : Had(f) => Had(f)'
    BY <1>3, <1>11 DEF Had
  <2>4. \A f \in ToSet(control) \cup ToSet(gate) : f.kind = "have" => Had(f)
    BY <1>1 DEF Fates, Reported
  <2>5. \A i \in helloUnacked : i[2] < conn /\ i[1] \in 1..typed
    BY <1>1 DEF Fates, Reported
  <2> QED
    BY <1>3, <2>1, <2>2, <2>3, <2>4, <2>5 DEF Reported
<1> QED
  BY <1>8, <1>9, <1>12, <1>14, <1>15, <1>17, <1>18, <1>19 DEF IInv, Fates

\* The steps of a handshake keep the invariant.
LEMMA HandshakeStep ==
  ASSUME IInv, NEW n \in Connections, Handshake(n)
  PROVE  IInv'
<1>1. Types /\ Talks /\ Successions
  BY DEF IInv
<1>2. CASE Admit(n)
  BY <1>1, <1>2, AdmitTurns, TurnStep
<1>3. CASE SendCatchup(n)
  BY <1>1, <1>3, SendCatchupTurns, TurnStep
<1>4. CASE SendAlreadyHave(n)
  BY <1>1, <1>4, SendAlreadyHaveTurns, TurnStep
<1>5. CASE CloseMalformed(n) \/ NoticeClose(n)
  BY <1>5, ClosesStep DEF Closes
<1> QED
  BY <1>2, <1>3, <1>4, <1>5 DEF Handshake

-----------------------------------------------------------------------------
(* The server takes operations *)

\* Answers and relays are sent, or nothing is.
MaySend(n, frames) == Sends(n, frames) \/ UNCHANGED <<ops, control>>

\* They make no engine and are no ALREADY_HAVE.
LEMMA LanesKept ==
  ASSUME IInv, NEW n, NEW frames \in Seq(Frames), MaySend(n, frames),
         \A f \in ToSet(frames) : f.kind \in {"op", "ack", "reject"} /\ Told(f)',
         UNCHANGED <<session, open, conn, gate, engine>>, ToSet(log) \subseteq ToSet(log')
  PROVE  /\ ops' \in Seq(Frames) /\ control' \in Seq(Frames)
         /\ Successions' /\ Renewals' /\ Carried'
         /\ \A f \in ToSet(ops') \cup ToSet(control') :
              f \in ToSet(ops) \cup ToSet(control) \/ (Reaches(n) /\ f \in ToSet(frames))
         /\ \A f \in ToSet(control') : f.kind = "have" => f \in ToSet(control)
<1>1. Types /\ Successions /\ Renewals /\ Carried
  BY DEF IInv
<1>2. ops \in Seq(Frames) /\ control \in Seq(Frames)
  BY <1>1, TypeParts
<1>3. /\ ops' \in Seq(Frames) /\ control' \in Seq(Frames)
      /\ ~Reaches(n) => UNCHANGED <<ops, control>>
      /\ \A f \in ToSet(ops') : f \in ToSet(ops) \/ (Reaches(n) /\ f \in ToSet(frames))
      /\ \A f \in ToSet(control') : f \in ToSet(control) \/ (Reaches(n) /\ f \in ToSet(frames))
      /\ \A i \in DOMAIN control : i \in DOMAIN control' /\ control'[i] = control[i]
      /\ \A i \in DOMAIN control' : i \in DOMAIN control \/ control'[i] \in ToSet(frames)
  <2>1. CASE Sends(n, frames)
    BY <1>1, <2>1, SendsIs
  <2>2. CASE UNCHANGED <<ops, control>>
    BY <1>2, <2>2
  <2> QED
    BY <2>1, <2>2 DEF MaySend
<1>4. \A f \in ToSet(frames) : ~Renews(f) /\ f.kind # "have"
  BY DEF Renews
<1>5. \A i \in DOMAIN control' : Renews(control'[i]) \/ control'[i].kind = "have" =>
        i \in DOMAIN control /\ control[i] = control'[i]
  BY <1>3, <1>4
<1>6. Successions'
  BY <1>1, <1>5 DEF Successions, Alone
<1>7. Renewals'
  <2>1. open' /\ session'[conn'].stage \in {"checking", "joined"} =>
          engine'.replica = conn' \/ \E i \in DOMAIN control' : Renews(control'[i])
    BY <1>1, <1>3 DEF Renewals
  <2>2. ASSUME NEW i \in DOMAIN control', control'[i].kind = "have"
        PROVE  engine'.replica = conn' \/ \E j \in 1..(i - 1) : Renews(control'[j])
    <3>1. i \in DOMAIN control /\ control[i].kind = "have"
      BY <1>5, <2>2
    <3>2. engine.replica = conn \/ \E j \in 1..(i - 1) : Renews(control[j])
      BY <1>1, <3>1 DEF Renewals
    <3>3. \A j \in 1..(i - 1) : j \in DOMAIN control
      BY <1>2, <3>1
    <3> QED
      BY <1>3, <3>2, <3>3
  <2>3. \A i \in DOMAIN gate' : gate'[i].kind = "have" => engine'.replica = conn'
    BY <1>1 DEF Renewals
  <2> QED
    BY <2>1, <2>2, <2>3 DEF Renewals
<1>8. Carried'
  <2>1. ~open' => ops' = <<>> /\ control' = <<>>
    BY <1>1, <1>3 DEF Carried, Reaches
  <2>2. \A i \in DOMAIN ops' : ops'[i].kind \in {"op", "ack", "reject"}
    <3> SUFFICES ASSUME NEW i \in DOMAIN ops' PROVE ops'[i].kind \in {"op", "ack", "reject"}
      OBVIOUS
    <3>1. ops'[i] \in ToSet(ops) \/ ops'[i] \in ToSet(frames)
      BY <1>3 DEF ToSet
    <3> QED
      BY <1>1, <3>1 DEF Carried, ToSet
  <2>3. \A f : Told(f) => Told(f)'
    BY DEF Told, IdsOf
  <2>4. \A f \in ToSet(ops) \cup ToSet(control) \cup ToSet(gate) : Told(f)
    BY <1>1 DEF Carried
  <2>5. \A f \in ToSet(ops') \cup ToSet(control') \cup ToSet(gate') : Told(f)'
    BY <1>3, <2>3, <2>4
  <2> QED
    BY <2>1, <2>2, <2>5 DEF Carried
<1> QED
  BY <1>3, <1>4, <1>6, <1>7, <1>8

\* What HELLO reported is what it was, if the log has not grown by any of it.
LEMMA ReportedKept ==
  ASSUME IInv, UNCHANGED <<helloUnacked, conn, typed, open, session, gate, unacked>>,
         \A m \in Connections : session[m].stage = "open" => up'[m] = up[m],
         \A f \in ToSet(control') : f.kind = "have" => f \in ToSet(control),
         \A o \in ToSet(unacked) : o.id \in helloUnacked /\ Alone(conn) =>
           (o.id[1] \in EditsOf(ToSet(log')) <=> o.id[1] \in EditsOf(ToSet(log)))
  PROVE  Reported'
<1>1. Types /\ Successions /\ Reported
  BY DEF IInv, Fates
<1>2. open => conn \in Connections
  BY <1>1, TypeParts, Bounds DEF Successions, Connections
<1>3. \A f : Had(f) => Had(f)'
  BY DEF Had, Alone
<1>4. \A f \in ToSet(control') \cup ToSet(gate') : f.kind = "have" => Had(f)'
  BY <1>1, <1>3 DEF Reported
<1> QED
  BY <1>1, <1>2, <1>4 DEF Reported

\* The log with one more entry.
LEMMA GrownLog ==
  ASSUME Types, NEW op \in Operations, log' = log \o <<op>>
  PROVE  /\ log' \in Seq(Operations) /\ Len(log) \in Nat
         /\ DOMAIN log = 1..Len(log) /\ DOMAIN log' = 1..Len(log) + 1 /\ Len(log') = Len(log) + 1
         /\ \A i \in 1..Len(log) : log'[i] = log[i]
         /\ log'[Len(log) + 1] = op
         /\ ToSet(log') = ToSet(log) \cup {op}
         /\ IdsOf(ToSet(log')) = IdsOf(ToSet(log)) \cup {op.id}
         /\ EditsOf(ToSet(log')) = EditsOf(ToSet(log)) \cup {op.id[1]}
<1>1. log \in Seq(Operations) /\ Len(log) \in Nat /\ DOMAIN log = 1..Len(log)
  BY TypeParts
<1>2. PICK one \in Seq(Operations) : one = <<op>>
  <2>1. <<op>> \in Seq(Operations)
    OBVIOUS
  <2> QED
    BY <2>1
<1>3. Len(one) = 1 /\ one[1] = op /\ DOMAIN one = 1..1 /\ ToSet(one) = {op}
  BY <1>2 DEF ToSet
<1>4. log' = log \o one
  BY <1>2
<1>5. /\ log' \in Seq(Operations) /\ DOMAIN log' = 1..Len(log) + 1
      /\ \A i \in DOMAIN log : log'[i] = log[i]
      /\ log'[Len(log) + 1] = op
  BY <1>1, <1>3, <1>4, Continued
<1>6. ToSet(log') = ToSet(log) \cup {op}
  BY <1>1, <1>3, <1>4, Joins
<1>7. Len(log') = Len(log) + 1
  BY <1>1, <1>5
<1> QED
  BY <1>1, <1>5, <1>6, <1>7 DEF IdsOf, EditsOf

\* The frames tell the client of an operation, under the number it is given.
Relays(frames, op) ==
  \A f \in ToSet(frames) : f.kind = "op" /\ f.seq = Len(log) + 1 /\ f.op = op /\ Told(f)'

\* An operation that nothing parked waits for is integrated alone.
LEMMA IntegratesIs ==
  ASSUME IInv, NEW op \in Operations, Integrate(op),
         \A o \in parked : o.parent # op.id /\ o # op
  PROVE  /\ log' = log \o <<op>> /\ parked' = parked
         /\ \E frames \in Seq(Frames) : MaySend(conn, frames) /\ Relays(frames, op)
<1>1. Types /\ Hopeless /\ \A o \in parked : Descends(o)
  BY DEF IInv, Fates, Identity, Descent
<1>2. Resolved(ToSet(log) \cup {op}, parked) = {}
  <2> SUFFICES ASSUME NEW S \in SUBSET parked, S # {},
                      \A o \in S : o.parent \in IdsOf(ToSet(log) \cup {op} \cup S) \cup {Root}
               PROVE  FALSE
    BY DEF Resolved
  <2>1. \A o \in S : o \in parked /\ o \in Operations /\ Descends(o)
    BY <1>1, TypeParts
  <2>2. ASSUME NEW o \in S PROVE \E p \in S : p.id[1] < o.id[1]
    <3>1. o.parent # Root /\ o.parent \notin IdsOf(ToSet(log)) /\ o.parent # op.id
      BY <1>1, <2>1 DEF Hopeless
    <3>2. PICK p \in S : p.id = o.parent
      BY <3>1 DEF IdsOf
    <3>3. p.id[2] # 0
      BY <2>1 DEF Descends
    <3>4. o.parent[1] < o.id[1]
      BY <2>1, <3>2, <3>3 DEF Descends
    <3> QED
      BY <3>2, <3>4
  <2> DEFINE T == {o.id[1] : o \in S}
  <2>3. T \in SUBSET Nat /\ T # {}
    <3>1. \A o \in S : o.id[1] \in Nat
      BY <2>1, OperationFields, IdFields
    <3> QED
      BY <3>1
  <2>4. \A x \in T : \E y \in T : y < x
    BY <2>2
  <2> HIDE DEF T
  <2>5. PICK x \in T : \A y \in T : x <= y
    BY <2>3, LeastNatural
  <2> QED
    BY <2>3, <2>4, <2>5
<1>3. InOrder({}) = <<>>
  <2>1. InOrder({}) \in Seq(Operations) /\ ToSet(InOrder({})) = {}
    BY InOrderIs
  <2>2. DOMAIN InOrder({}) = {}
    BY <2>1 DEF ToSet
  <2> QED
    BY <2>1, <2>2
<1>4. Integrated(op) = <<op>>
  <2>1. Integrated(op) = <<op>> \o <<>>
    BY <1>2, <1>3 DEF Integrated
  <2> QED
    BY <2>1, NothingAdded
<1> DEFINE relays == [i \in DOMAIN <<op>> |-> ToWireMessage(<<op>>[i], Len(log) + i)]
           foreign == {frame \in ToSet(relays) : frame.op.id[2] # conn}
           frames == Kept(relays, foreign)
<1>5. /\ log' = log \o <<op>> /\ parked' = parked \ ToSet(<<op>>)
      /\ IF conn > 0 /\ Joined(conn) THEN SendOps(conn, frames) ELSE UNCHANGED <<ops, control>>
  BY <1>4 DEF Integrate
<1>6. parked' = parked
  <2>1. ToSet(<<op>>) = {op}
    BY DEF ToSet
  <2> QED
    BY <1>5, <2>1
<1>7. /\ relays \in Seq(Frames)
      /\ \A f \in ToSet(relays) : f.kind = "op" /\ f.seq = Len(log) + 1 /\ f.op = op
  <2> DEFINE f == ToWireMessage(op, Len(log) + 1)
  <2>1. f \in Frames /\ f.kind = "op" /\ f.seq = Len(log) + 1 /\ f.op = op
    <3>1. Len(log) + 1 \in Nat
      BY <1>1, TypeParts
    <3> QED
      BY <3>1 DEF ToWireMessage, Frames
  <2>2. DOMAIN <<op>> = 1..1 /\ <<op>>[1] = op
    OBVIOUS
  <2>3. relays = [i \in 1..1 |-> f]
    BY <2>2
  <2> HIDE DEF f, relays
  <2>4. relays \in [1..1 -> Frames]
    BY <2>1, <2>3
  <2>5. relays \in Seq(Frames)
    <3>1. PICK m \in Nat : m = 1
      OBVIOUS
    <3>2. relays \in [1..m -> Frames]
      BY <2>4, <3>1
    <3> QED
      BY <3>2
  <2>6. ToSet(relays) = {f}
    BY <2>3 DEF ToSet
  <2> QED
    BY <2>1, <2>5, <2>6
<1>8. frames \in Seq(Frames) /\ ToSet(frames) \subseteq ToSet(relays)
  <2> HIDE DEF relays, foreign
  <2> QED
    BY <1>7, KeptIs
<1> HIDE DEF relays, foreign, frames
<1>9. MaySend(conn, frames)
  BY <1>5, SendOpsIs DEF MaySend
<1>10. Relays(frames, op)
  <2>1. op \in ToSet(log')
    BY <1>1, <1>5, GrownLog
  <2> QED
    BY <1>7, <1>8, <2>1 DEF Relays, Told
<1> QED
  BY <1>5, <1>6, <1>8, <1>9, <1>10

\* The operation that is taken was the only copy of its edit under way.
LEMMA TakenAlone ==
  ASSUME IInv, NEW n \in Connections, TakeOperation(n, 1)
  PROVE  /\ Fewer
         /\ 1 \in LiveAt(n) => \A m \in Connections : \A i \in LiveAt(m)' :
                                 up'[m][i].op.id[1] # up[n][1].op.id[1]
<1>1. Types /\ Talks /\ Single
  BY DEF IInv, Fates
<1>2. /\ up[n] # <<>> /\ 1 \in OpsAt(n) /\ n <= conn /\ Joined(n)
      /\ up' = [up EXCEPT ![n] = Tail(up[n])]
      /\ session' = session
  BY <1>1, TakesIs
<1>3. Fewer
  BY <1>1, <1>2, FewerWhen
<1>4. up \in [Connections -> Seq(ClientFrames)] /\ up[n] \in Seq(ClientFrames)
  BY <1>1, TypeParts
<1>5. \A i \in DOMAIN Tail(up[n]) : i + 1 \in DOMAIN up[n] /\ Tail(up[n])[i] = up[n][i + 1]
                                    /\ i \in Nat /\ i >= 1
  BY <1>2, <1>4
<1>6. ASSUME 1 \in LiveAt(n), NEW m \in Connections, NEW i \in LiveAt(m)'
      PROVE  up'[m][i].op.id[1] # up[n][1].op.id[1]
  <2>1. CASE m = n
    <3>1. i \in DOMAIN Tail(up[n]) /\ up'[n][i] = up[n][i + 1]
      BY <1>2, <1>4, <1>5, <2>1 DEF LiveAt, OpsAt
    <3>2. i + 1 \in LiveAt(n) /\ i + 1 # 1
      BY <1>2, <1>5, <2>1, <3>1 DEF LiveAt, OpsAt
    <3> QED
      BY <1>1, <1>6, <2>1, <3>1, <3>2 DEF Single
  <2>2. CASE m # n
    <3>1. up'[m] = up[m] /\ i \in LiveAt(m)
      BY <1>2, <1>4, <2>2 DEF LiveAt, OpsAt
    <3> QED
      BY <1>1, <1>6, <2>2, <3>1 DEF Single
  <2> QED
    BY <2>1, <2>2
<1> QED
  BY <1>3, <1>6

\* An operation of another replica than the connection's is refused.
LEMMA RejectMismatchStep ==
  ASSUME IInv, NEW n \in Connections, RejectMismatch(n, 1)
  PROVE  IInv'
<1>1. Types /\ Talks /\ Successions /\ Renewals /\ Carried /\ Identity /\ Fates
  BY DEF IInv
<1> DEFINE op == up[n][1].op
<1>2. /\ TakeOperation(n, 1) /\ up[n] # <<>> /\ 1 \in OpsAt(n) /\ op \in Operations /\ op.id[2] # n
      /\ n <= conn /\ Joined(n)
      /\ up' = [up EXCEPT ![n] = Tail(up[n])]
      /\ UNCHANGED <<faults, session, committed, conn, open, synced, client, log, parked>>
      /\ SendOpReject(n, op)
  BY <1>1, TakesIs DEF RejectMismatch
<1>3. PICK f \in Frames : f.kind = "reject" /\ f.op = op /\ Sends(n, <<f>>)
  BY <1>2, RejectIs
<1>4. <<f>> \in Seq(Frames) /\ ToSet(<<f>>) = {f}
  BY DEF ToSet
<1>5. PICK frames \in Seq(Frames) : ToSet(frames) = {f} /\ MaySend(n, frames)
  BY <1>3, <1>4 DEF MaySend
<1>6. /\ engine' = engine /\ unacked' = unacked /\ helloUnacked' = helloUnacked /\ seqs' = seqs
      /\ gate' = gate /\ rejected' = rejected /\ stored' = stored /\ flushing' = flushing /\ unstored' = unstored
      /\ typed' = typed /\ reloads' = reloads
  BY <1>2 DEF client, durable
<1>7. \A g \in ToSet(frames) : g.kind \in {"op", "ack", "reject"} /\ Told(g)'
  BY <1>3, <1>5 DEF Told
<1>8. /\ ops' \in Seq(Frames) /\ control' \in Seq(Frames)
      /\ Successions' /\ Renewals' /\ Carried'
      /\ \A g \in ToSet(ops') \cup ToSet(control') :
           g \in ToSet(ops) \cup ToSet(control) \/ (Reaches(n) /\ g \in ToSet(frames))
      /\ \A g \in ToSet(control') : g.kind = "have" => g \in ToSet(control)
  BY <1>2, <1>5, <1>6, <1>7, LanesKept
<1>9. up \in [Connections -> Seq(ClientFrames)] /\ conn \in 0..MaxConnections /\ n \in Nat
  BY <1>1, TypeParts DEF Connections
<1>10. Types'
  <2>1. up' \in [Connections -> Seq(ClientFrames)]
    <3>1. Tail(up[n]) \in Seq(ClientFrames)
      BY <1>2, <1>9
    <3> QED
      BY <1>2, <1>9, <3>1
  <2> QED
    BY <1>1, <1>2, <1>6, <1>8, <2>1, TypeParts, TypePartsNext
<1>11. session[n].stage # "open" /\ session[n].stage # "closed"
  BY <1>2 DEF Joined
<1>12. Talks'
  BY <1>1, <1>2, <1>11, TalksOn
<1>13. Calm /\ Fed
  BY <1>2, <1>6, TakenAlone DEF Calm, Fed
<1>14. /\ Identity'
       /\ Lively' /\ Single' /\ Forward' /\ Hopeless' /\ Distinct' /\ Unsaved' /\ Stored' /\ Refusals'
  <2>1. conn' >= conn
    BY <1>2, <1>9
  <2> QED
    BY <1>6, <1>10, <1>13, <2>1, CalmKeeps DEF durable
<1>15. Alone(n)
  BY <1>1, <1>11 DEF Successions
<1>16. ASSUME open, n = conn PROVE Answerable(op)
  <2>1. Awaited(op) /\ op.id \notin helloUnacked
    BY <1>1, <1>2, <1>16 DEF Fates, Answers
  <2>2. Met(op.id) /\ op.id \in Ids
    BY <1>2, OperationFields DEF Met
  <2>3. op.id[2] # 0
    BY <1>1, <1>2 DEF Identity, Descent, Descends
  <2>4. op.id[1] \in 1..typed /\ op.id[2] <= conn
    BY <1>1, <2>2, <2>3 DEF Identity, Minted
  <2>5. ASSUME NEW m \in Connections, NEW i \in LiveAt(m), up[m][i].op.id[1] = op.id[1]
        PROVE  FALSE
    <3>1. up[m] # <<>> /\ session[m].stage # "closed" /\ i \in OpsAt(m) /\ up[m][i].op.id[2] = m
      BY <1>9 DEF LiveAt, OpsAt
    <3>2. m <= conn
      BY <1>1, <3>1, Opened
    <3>3. m = n
      <4>1. m \in Nat /\ (m \notin 1..(n - 1) => m >= n) /\ m >= 1
        BY <1>9 DEF Connections
      <4> QED
        BY <1>9, <1>15, <1>16, <3>1, <3>2, <4>1 DEF Alone
    <3>4. CASE op \in ToSet(unacked)
      <4>1. up[m][i] \in ClientFrames /\ up[m][i].kind = "op"
        BY <1>9, <3>1 DEF OpsAt
      <4>2. up[m][i].op.id \in Ids /\ Met(up[m][i].op.id)
        BY <3>1, <4>1, ClientFrameFields, OperationFields DEF Met
      <4>3. up[m][i].op.id[2] <= op.id[2]
        BY <1>1, <2>5, <3>4, <4>2 DEF Identity, Newest
      <4>4. op.id[2] \in Nat
        BY <2>2, IdFields, Bounds
      <4> QED
        BY <1>2, <1>9, <1>16, <2>4, <3>1, <3>3, <4>3, <4>4
    <3>5. CASE op.id[1] \in EditsOf(ToSet(log) \cup rejected)
      BY <1>1, <2>5, <3>5 DEF Fates, Lively
    <3> QED
      BY <2>1, <3>4, <3>5 DEF Awaited
  <2> QED
    BY <2>1, <2>4, <2>5 DEF Answerable
<1>17. open => conn \in Connections
  BY <1>1, <1>9, Bounds DEF Successions, Connections
<1>18. Answers'
  <2>1. \A o : Awaited(o) => AwaitedNext(o)
    BY <1>2, <1>6 DEF Awaited, AwaitedNext
  <2>2. \A g \in ToSet(ops') \cup ToSet(control') :
          g.kind = "reject" /\ open => g \in ToSet(ops) \cup ToSet(control) \/ Answerable(g.op)
    BY <1>3, <1>5, <1>8, <1>16 DEF Reaches
  <2> QED
    BY <1>1, <1>2, <1>6, <1>13, <1>17, <2>1, <2>2, AnswersOn DEF Fates, Calm
<1>19. Reported'
  <2>1. \A m \in Connections : session[m].stage = "open" => up'[m] = up[m]
    BY <1>2, <1>9, <1>11
  <2> QED
    BY <1>2, <1>6, <1>8, <2>1, ReportedKept
<1> QED
  BY <1>8, <1>10, <1>12, <1>14, <1>18, <1>19 DEF IInv, Fates

\* The commit of an entry tells its author.
LEMMA CommitStep ==
  ASSUME IInv, Commit
  PROVE  IInv'
<1>1. Types /\ Talks /\ Successions /\ Renewals /\ Carried /\ Identity /\ Fates
  BY DEF IInv
<1> DEFINE op == log[committed + 1]
           author == op.id[2]
<1>2. log \in Seq(Operations) /\ committed \in Nat /\ committed < Len(log) /\ Len(log) \in Nat
  BY <1>1, TypeParts DEF Commit
<1>3. op \in Operations /\ op \in ToSet(log)
  BY <1>2 DEF ToSet
<1>4. PICK ack \in Frames :
        /\ ack = [kind |-> "ack", seq |-> committed + 1, id |-> op.id]
        /\ ack.kind = "ack" /\ ack.id = op.id
  <2>1. committed + 1 \in Nat /\ op.id \in Ids
    BY <1>2, <1>3, OperationFields
  <2> DEFINE a == [kind |-> "ack", seq |-> committed + 1, id |-> op.id]
  <2>2. a \in Frames /\ a.kind = "ack" /\ a.id = op.id
    BY <2>1 DEF Frames
  <2> QED
    BY <2>2
<1>5. /\ committed' = committed + 1
      /\ MaySend(author, <<ack>>)
      /\ faults' = faults /\ log' = log /\ parked' = parked /\ session' = session /\ up' = up
      /\ conn' = conn /\ open' = open /\ synced' = synced
  BY <1>4, SendOpsIs DEF Commit, MaySend
<1>6. /\ engine' = engine /\ unacked' = unacked /\ helloUnacked' = helloUnacked /\ seqs' = seqs
      /\ gate' = gate /\ rejected' = rejected /\ stored' = stored /\ flushing' = flushing /\ unstored' = unstored
      /\ typed' = typed /\ reloads' = reloads
  BY DEF Commit, client, durable
<1>7. <<ack>> \in Seq(Frames) /\ ToSet(<<ack>>) = {ack}
  BY <1>4 DEF ToSet
<1>8. PICK frames \in Seq(Frames) : ToSet(frames) = {ack} /\ MaySend(author, frames)
  BY <1>5, <1>7
<1>9. Told(ack)'
  <2>1. ack.id \in IdsOf(ToSet(log'))
    BY <1>3, <1>4, <1>5 DEF IdsOf
  <2> QED
    BY <1>4, <2>1 DEF Told
<1>10. /\ ops' \in Seq(Frames) /\ control' \in Seq(Frames)
       /\ Successions' /\ Renewals' /\ Carried'
       /\ \A g \in ToSet(ops') \cup ToSet(control') :
            g \in ToSet(ops) \cup ToSet(control) \/ (Reaches(author) /\ g \in ToSet(frames))
       /\ \A g \in ToSet(control') : g.kind = "have" => g \in ToSet(control)
  BY <1>4, <1>5, <1>6, <1>8, <1>9, LanesKept
<1>11. Types'
  BY <1>1, <1>2, <1>5, <1>6, <1>10, TypeParts, TypePartsNext, SMTT(20)
<1>12. Talks'
  BY <1>1, <1>5 DEF Talks
<1>13. 1 \in Connections
  BY Bounds DEF Connections
<1>14. Calm /\ Fed
  <2>1. Fewer
    BY <1>1, <1>5, <1>13, FewerWhen
  <2> QED
    BY <1>5, <1>6, <2>1 DEF Calm, Fed
<1>15. conn \in 0..MaxConnections
  BY <1>1, TypeParts
<1>16. /\ Identity'
       /\ Lively' /\ Single' /\ Forward' /\ Hopeless' /\ Distinct' /\ Unsaved' /\ Stored' /\ Refusals'
  <2>1. conn' >= conn
    BY <1>5, <1>15
  <2> QED
    BY <1>6, <1>11, <1>14, <2>1, CalmKeeps DEF durable
<1>17. open => conn \in Connections
  BY <1>1, <1>15, Bounds DEF Successions, Connections
<1>18. Answers'
  <2>1. \A f \in ToSet(ops') \cup ToSet(control') :
          f.kind = "reject" => f \in ToSet(ops) \cup ToSet(control)
    BY <1>4, <1>8, <1>10
  <2> QED
    BY <1>1, <1>5, <1>6, <1>14, <1>17, <2>1, CalmAnswers DEF Fates
<1>19. Reported'
  BY <1>5, <1>6, <1>10, ReportedKept
<1> QED
  BY <1>10, <1>11, <1>12, <1>16, <1>18, <1>19 DEF IInv, Fates

\* The sweep refuses a parked operation.
LEMMA SweepStep ==
  ASSUME IInv, NEW op \in parked, Sweep(op)
  PROVE  IInv'
<1>1. Types /\ Talks /\ Successions /\ Renewals /\ Carried /\ Identity /\ Fates
  BY DEF IInv
<1> DEFINE author == op.id[2]
<1>2. op \in Operations /\ op.id \in Ids /\ conn \in 0..MaxConnections
  BY <1>1, TypeParts, OperationFields
<1>3. author # 0
  BY <1>1 DEF Identity, Descent, Descends
<1>4. author \in Connections /\ author \in Nat
  BY <1>2, <1>3, IdFields, Bounds
<1>5. op.id[1] \in 1..typed /\ op.id[2] <= conn
  <2>1. Met(op.id)
    BY DEF Met, IdsOf
  <2> QED
    BY <1>1, <1>2, <1>3, <2>1 DEF Identity, Minted
<1>6. /\ parked' = parked \ {op}
      /\ (Joined(author) /\ SendOpReject(author, op)) \/ UNCHANGED <<ops, control>>
      /\ faults' = faults /\ log' = log /\ committed' = committed /\ session' = session /\ up' = up
      /\ conn' = conn /\ open' = open /\ synced' = synced
  BY DEF Sweep
<1>7. /\ engine' = engine /\ unacked' = unacked /\ helloUnacked' = helloUnacked /\ seqs' = seqs
      /\ gate' = gate /\ rejected' = rejected /\ stored' = stored /\ flushing' = flushing /\ unstored' = unstored
      /\ typed' = typed /\ reloads' = reloads
  BY DEF Sweep, client, durable
<1>8. \E frames \in Seq(Frames) :
        /\ MaySend(author, frames)
        /\ \A f \in ToSet(frames) : f.kind = "reject" /\ f.op = op /\ Joined(author)
  <2>1. CASE Joined(author) /\ SendOpReject(author, op)
    <3>1. PICK f \in Frames : f.kind = "reject" /\ f.op = op /\ Sends(author, <<f>>)
      BY <1>2, <2>1, RejectIs
    <3>2. <<f>> \in Seq(Frames) /\ ToSet(<<f>>) = {f}
      BY DEF ToSet
    <3> QED
      BY <2>1, <3>1, <3>2 DEF MaySend
  <2>2. CASE UNCHANGED <<ops, control>>
    <3>1. <<>> \in Seq(Frames) /\ ToSet(<<>>) = {}
      BY NoMembers
    <3> QED
      BY <2>2, <3>1 DEF MaySend
  <2> QED
    BY <1>6, <2>1, <2>2
<1>9. PICK frames \in Seq(Frames) :
        /\ MaySend(author, frames)
        /\ \A f \in ToSet(frames) : f.kind = "reject" /\ f.op = op /\ Joined(author)
  BY <1>8
<1>10. /\ ops' \in Seq(Frames) /\ control' \in Seq(Frames)
       /\ Successions' /\ Renewals' /\ Carried'
       /\ \A g \in ToSet(ops') \cup ToSet(control') :
            g \in ToSet(ops) \cup ToSet(control) \/ (Reaches(author) /\ g \in ToSet(frames))
       /\ \A g \in ToSet(control') : g.kind = "have" => g \in ToSet(control)
  <2>1. \A f \in ToSet(frames) : f.kind \in {"op", "ack", "reject"} /\ Told(f)'
    BY <1>9 DEF Told
  <2> QED
    BY <1>6, <1>7, <1>9, <2>1, LanesKept
<1>11. Types'
  BY <1>1, <1>6, <1>7, <1>10, TypeParts, TypePartsNext
<1>12. Talks'
  BY <1>1, <1>6 DEF Talks
<1>13. Calm /\ Fed
  <2>1. Fewer
    BY <1>1, <1>4, <1>6, FewerWhen
  <2> QED
    BY <1>6, <1>7, <2>1 DEF Calm, Fed
<1>14. /\ Identity'
       /\ Lively' /\ Single' /\ Forward' /\ Hopeless' /\ Distinct' /\ Unsaved' /\ Stored' /\ Refusals'
  <2>1. conn' >= conn
    BY <1>2, <1>6
  <2> QED
    BY <1>7, <1>11, <1>13, <2>1, CalmKeeps DEF durable
<1>15. ASSUME open, author = conn, Joined(author) PROVE Answerable(op)
  <2>1. Awaited(op)
    BY <1>1, <1>15 DEF Fates, Answers
  <2>2. op.id \notin helloUnacked
    BY <1>1, <1>2, <1>15 DEF Fates, Reported
  <2>3. Alone(author)
    BY <1>1, <1>4, <1>15 DEF Successions, Joined
  <2>4. ASSUME NEW m \in Connections, NEW i \in LiveAt(m), up[m][i].op.id[1] = op.id[1]
        PROVE  FALSE
    <3>1. up[m] # <<>> /\ session[m].stage # "closed" /\ i \in OpsAt(m) /\ up[m][i].op.id[2] = m
      BY DEF LiveAt, OpsAt
    <3>2. m <= conn
      BY <1>1, <3>1, Opened
    <3>3. m = author
      <4>1. m \in Nat /\ (m \notin 1..(author - 1) => m >= author) /\ m >= 1
        BY <1>4 DEF Connections
      <4> QED
        BY <1>4, <1>15, <2>3, <3>1, <3>2, <4>1 DEF Alone
    <3>4. up[m][i].op \in Operations
      <4>1. up[m] \in Seq(ClientFrames)
        BY <1>1, TypeParts
      <4>2. up[m][i] \in ClientFrames /\ up[m][i].kind = "op"
        BY <3>1, <4>1 DEF OpsAt
      <4> QED
        BY <4>2, ClientFrameFields
    <3>5. up[m][i].op.id = op.id
      <4>1. up[m][i].op.id \in Ids
        BY <3>4, OperationFields
      <4>2. up[m][i].op.id = <<op.id[1], op.id[2]>> /\ op.id = <<op.id[1], op.id[2]>>
        BY <1>2, <2>4, <3>1, <3>3, <4>1, IdFields
      <4> QED
        BY <4>2
    <3>6. up[m][i].op.id \notin IdsOf(parked)
      BY <1>1 DEF Fates, Lively
    <3> QED
      BY <3>5, <3>6 DEF IdsOf
  <2> QED
    BY <1>5, <2>1, <2>2, <2>4 DEF Answerable
<1>16. open => conn \in Connections
  BY <1>1, <1>2, Bounds DEF Successions, Connections
<1>17. Answers'
  <2>1. \A o : Awaited(o) => AwaitedNext(o)
    BY <1>6, <1>7 DEF Awaited, AwaitedNext
  <2>2. \A g \in ToSet(ops') \cup ToSet(control') :
          g.kind = "reject" /\ open => g \in ToSet(ops) \cup ToSet(control) \/ Answerable(g.op)
    BY <1>9, <1>10, <1>15 DEF Reaches
  <2> QED
    BY <1>1, <1>6, <1>7, <1>13, <1>16, <2>1, <2>2, AnswersOn DEF Fates, Calm
<1>18. Reported'
  BY <1>6, <1>7, <1>10, ReportedKept
<1> QED
  BY <1>10, <1>11, <1>12, <1>14, <1>17, <1>18 DEF IInv, Fates

\* What the growth of the log keeps: an entry of an edit that was not in it, and
\* that is met nowhere else.
LEMMA GrowthKeeps ==
  ASSUME IInv, Types', NEW op \in Operations, Fewer, log' = log \o <<op>>, parked' = parked,
         UNCHANGED <<engine, unacked, rejected, durable, typed, conn, open, helloUnacked>>,
         \A m \in Connections : \A i \in LiveAt(m)' : up'[m][i].op.id[1] # op.id[1],
         op.id[1] \notin EditsOf(ToSet(log)),
         \A o \in parked : o.parent # op.id,
         \A o \in ToSet(unacked) : o.id[1] = op.id[1] => o.id = op.id,
         Met(op.id) \/ op.id[2] = 0,
         PeersCounted',
         \A f \in ToSet(ops') \cup ToSet(control') : f.kind = "reject" => f \in ToSet(ops) \cup ToSet(control)
  PROVE  /\ Identity'
         /\ Lively' /\ Single' /\ Forward' /\ Hopeless' /\ Distinct' /\ Unsaved' /\ Stored' /\ Refusals'
         /\ Answers'
<1>1. Types /\ Successions /\ Identity /\ Fates
  BY DEF IInv
<1>2. /\ DOMAIN log = 1..Len(log) /\ DOMAIN log' = 1..Len(log) + 1 /\ Len(log) \in Nat
      /\ \A i \in 1..Len(log) : log'[i] = log[i]
      /\ log'[Len(log) + 1] = op
      /\ ToSet(log') = ToSet(log) \cup {op}
      /\ IdsOf(ToSet(log')) = IdsOf(ToSet(log)) \cup {op.id}
      /\ EditsOf(ToSet(log')) = EditsOf(ToSet(log)) \cup {op.id[1]}
  BY <1>1, GrownLog
<1>3. /\ engine' = engine /\ unacked' = unacked /\ rejected' = rejected /\ typed' = typed
      /\ conn' = conn /\ open' = open /\ helloUnacked' = helloUnacked
      /\ stored' = stored /\ flushing' = flushing /\ unstored' = unstored
  BY DEF durable
<1>4. /\ Single' /\ Forward'
      /\ \A m \in Connections : \A i \in LiveAt(m)' : \E j \in LiveAt(m) : up'[m][i].op = up[m][j].op
  BY <1>1, FewerFates DEF Fates
<1>5. ASSUME NEW k, Met(k)' PROVE Met(k) \/ k = op.id
  <2>1. CASE k \in IdsOf(ToSet(log) \cup parked \cup ToSet(unacked) \cup engine.nodes \cup engine.pending)'
    <3>1. PICK o \in ToSet(log') \cup parked \cup ToSet(unacked) \cup engine.nodes \cup engine.pending :
            k = o.id
      BY <1>3, <2>1 DEF IdsOf
    <3> QED
      BY <1>2, <3>1 DEF Met, IdsOf
  <2>2. CASE \E o \in parked' : k = o.parent
    BY <2>2 DEF Met
  <2>3. ASSUME NEW n \in Connections, NEW i \in OpsAt(n)', k \in {up'[n][i].op.id, up'[n][i].op.parent}
        PROVE  Met(k)
    <3>1. PICK d \in Nat : i + d \in OpsAt(n) /\ up'[n][i].op = up[n][i + d].op
      BY DEF Fewer
    <3> QED
      BY <2>3, <3>1 DEF Met
  <2> QED
    BY <1>5, <2>1, <2>2, <2>3 DEF Met
<1>6. \A k : Met(k)' => Met(k) \/ (k = op.id /\ k[2] = 0)
  BY <1>5
<1>7. Minted'
  <2> SUFFICES ASSUME NEW k \in Ids, Met(k)'
               PROVE  IF k[2] = 0 THEN k \in IdsOf(ToSet(log'))
                      ELSE k[1] \in 1..typed' /\ k[2] <= conn'
    BY DEF Minted
  <2>1. CASE Met(k)
    BY <1>1, <1>2, <1>3, <2>1 DEF Identity, Minted
  <2>2. CASE k = op.id /\ k[2] = 0
    BY <1>2, <2>2
  <2> QED
    BY <1>6, <2>1, <2>2
<1>8. Newest'
  <2> SUFFICES ASSUME NEW k \in Ids, NEW o \in ToSet(unacked), Met(k)', k[1] = o.id[1]
               PROVE  k[2] <= o.id[2]
    BY <1>3 DEF Newest
  <2>1. CASE Met(k)
    BY <1>1, <2>1 DEF Identity, Newest
  <2>2. CASE k[2] = 0
    <3>1. o \in Operations
      BY <1>1, TypeParts, Queues
    <3>2. o.id[2] \in Nat
      BY <3>1, OperationFields, IdFields, Bounds
    <3> QED
      BY <2>2, <3>2
  <2> QED
    BY <1>6, <2>1, <2>2
<1>9. Descent'
  <2>1. \A o \in parked' \cup ToSet(unacked') : Descends(o)
    BY <1>1, <1>3 DEF Identity, Descent
  <2>2. ASSUME NEW n \in Connections, NEW i \in OpsAt(n)' PROVE Descends(up'[n][i].op)
    <3>1. PICK d \in Nat : i + d \in OpsAt(n) /\ up'[n][i].op = up[n][i + d].op
      BY DEF Fewer
    <3> QED
      BY <1>1, <3>1 DEF Identity, Descent
  <2> QED
    BY <2>1, <2>2 DEF Descent
<1>10. LoggedOnce'
  <2> SUFFICES ASSUME NEW i \in 1..Len(log) + 1, NEW j \in 1..Len(log) + 1, i < j
               PROVE  log'[i].id[1] # log'[j].id[1]
    BY <1>2 DEF LoggedOnce
  <2>1. i \in 1..Len(log) /\ log'[i] = log[i]
    BY <1>2
  <2>2. CASE j \in 1..Len(log)
    BY <1>1, <1>2, <2>1, <2>2 DEF Identity, LoggedOnce
  <2>3. CASE j = Len(log) + 1
    <3>1. log[i].id[1] \in EditsOf(ToSet(log))
      BY <1>2, <2>1 DEF EditsOf, ToSet
    <3> QED
      BY <1>2, <2>1, <2>3, <3>1
  <2> QED
    BY <1>2, <2>2, <2>3
<1>11. Lively'
  <2> SUFFICES ASSUME NEW m \in Connections, NEW i \in LiveAt(m)'
               PROVE  /\ up'[m][i].op.id[1] \notin EditsOf(ToSet(log') \cup rejected')
                      /\ up'[m][i].op.id \notin IdsOf(parked')
    BY DEF Lively
  <2>1. PICK j \in LiveAt(m) : up'[m][i].op = up[m][j].op
    BY <1>4
  <2>2. up[m][j].op.id[1] \notin EditsOf(ToSet(log) \cup rejected) /\ up[m][j].op.id \notin IdsOf(parked)
    BY <1>1 DEF Fates, Lively
  <2>3. up'[m][i].op.id[1] # op.id[1]
    OBVIOUS
  <2>4. \A e \in EditsOf(ToSet(log') \cup rejected') : e \in EditsOf(ToSet(log) \cup rejected) \/ e = op.id[1]
    BY <1>2, <1>3 DEF EditsOf
  <2> QED
    BY <2>1, <2>2, <2>3, <2>4
<1>12. Hopeless'
  BY <1>1, <1>2, <1>4 DEF Fates, Hopeless
<1>13. Unsaved'
  <2> SUFFICES ASSUME NEW o \in ToSet(unacked)
               PROVE  /\ o.id[1] \in EditsOf(ToSet(log')) => o.id \in IdsOf(ToSet(log'))
                      /\ o.id[1] \notin EditsOf(rejected)
                      /\ \A n \in Connections : \A i \in LiveAt(n)' :
                           up'[n][i].op.id[1] = o.id[1] => up'[n][i].op.id = o.id
    BY <1>3 DEF Unsaved
  <2>1. /\ o.id[1] \in EditsOf(ToSet(log)) => o.id \in IdsOf(ToSet(log))
        /\ o.id[1] \notin EditsOf(rejected)
        /\ \A n \in Connections : \A i \in LiveAt(n) :
             up[n][i].op.id[1] = o.id[1] => up[n][i].op.id = o.id
    BY <1>1 DEF Fates, Unsaved
  <2> QED
    BY <1>2, <1>4, <2>1
<1>14. ParentsFirst' /\ Distinct' /\ Stored' /\ Refusals'
  BY <1>1, <1>3 DEF Identity, ParentsFirst, Fates, Distinct, Stored, Noted, Refusals
<1>15. Answers'
  <2>1. open => conn \in Connections
    BY <1>1, TypeParts, Bounds DEF Successions, Connections
  <2>2. \A o : Awaited(o) => AwaitedNext(o)
    BY <1>2, <1>3 DEF Awaited, AwaitedNext, EditsOf
  <2> QED
    BY <1>1, <1>3, <2>1, <2>2, AnswersOn DEF Fates
<1> QED
  BY <1>4, <1>7, <1>8, <1>9, <1>10, <1>11, <1>12, <1>13, <1>14, <1>15 DEF Identity

\* An operation enters the log, or waits for its parent.
Saves(op) == log' = log \o <<op>> /\ parked' = parked
Parks(op) == log' = log /\ parked' = parked \cup {op}

\* An operation that is taken is saved, alone, if its parent is there, and parked if not.
LEMMA AcceptIs ==
  ASSUME IInv, NEW n \in Connections, AcceptOperation(n, 1)
  PROVE  \E op \in Operations :
           /\ op = up[n][1].op /\ op.id[2] = n /\ 1 \in LiveAt(n) /\ n <= conn /\ Joined(n)
           /\ up[n] # <<>> /\ up' = [up EXCEPT ![n] = Tail(up[n])]
           /\ UNCHANGED <<faults, session, committed, conn, open, synced, client>>
           /\ \/ /\ op.parent \in IdsOf(ToSet(log)) \cup {Root} /\ Saves(op)
                 /\ \E frames \in Seq(Frames) : MaySend(conn, frames) /\ Relays(frames, op)
              \/ /\ op.parent \notin IdsOf(ToSet(log)) \cup {Root} /\ Parks(op)
                 /\ UNCHANGED <<ops, control>>
<1>1. Types /\ Talks /\ Hopeless /\ Lively
  BY DEF IInv, Fates
<1>2. TakeOperation(n, 1)
  BY DEF AcceptOperation
<1>3. PICK op \in Operations :
        /\ op = up[n][1].op /\ op = Head(up[n]).op
        /\ 1 \in OpsAt(n) /\ n <= conn /\ Joined(n)
        /\ up[n] # <<>> /\ up' = [up EXCEPT ![n] = Tail(up[n])]
        /\ UNCHANGED <<faults, session, committed, conn, open, synced, client>>
  BY <1>1, <1>2, TakesIs
<1>4. op.id[2] = n
  BY <1>3 DEF AcceptOperation
<1>5. 1 \in LiveAt(n)
  BY <1>3, <1>4 DEF LiveAt, Joined
<1>6. IF op.parent \in IdsOf(ToSet(log)) \cup {Root} THEN Integrate(op)
      ELSE parked' = parked \cup {op} /\ UNCHANGED <<log, ops, control>>
  BY <1>3 DEF AcceptOperation
<1>7. CASE op.parent \in IdsOf(ToSet(log)) \cup {Root}
  <2>1. \A o \in parked : o.parent # op.id /\ o # op
    BY <1>1, <1>3, <1>5 DEF Hopeless, Lively, IdsOf
  <2>2. /\ Saves(op)
        /\ \E frames \in Seq(Frames) : MaySend(conn, frames) /\ Relays(frames, op)
    BY <1>6, <1>7, <2>1, IntegratesIs DEF Saves
  <2> QED
    BY <1>3, <1>4, <1>5, <1>7, <2>2
<1>8. CASE op.parent \notin IdsOf(ToSet(log)) \cup {Root}
  BY <1>3, <1>4, <1>5, <1>6, <1>8 DEF Parks
<1> QED
  BY <1>7, <1>8

\* Taking an operation keeps the invariant.
LEMMA AcceptStep ==
  ASSUME IInv, NEW n \in Connections, AcceptOperation(n, 1)
  PROVE  IInv'
<1>1. Types /\ Talks /\ Successions /\ Renewals /\ Carried /\ Identity /\ Fates
  BY DEF IInv
<1>2. PICK op \in Operations :
        /\ op = up[n][1].op /\ op.id[2] = n /\ 1 \in LiveAt(n) /\ n <= conn /\ Joined(n)
        /\ up[n] # <<>> /\ up' = [up EXCEPT ![n] = Tail(up[n])]
        /\ UNCHANGED <<faults, session, committed, conn, open, synced, client>>
        /\ \/ /\ op.parent \in IdsOf(ToSet(log)) \cup {Root} /\ Saves(op)
              /\ \E frames \in Seq(Frames) :
                   /\ MaySend(conn, frames)
                   /\ \A f \in ToSet(frames) : f.kind = "op" /\ Told(f)'
           \/ /\ op.parent \notin IdsOf(ToSet(log)) \cup {Root} /\ Parks(op)
              /\ UNCHANGED <<ops, control>>
  BY AcceptIs DEF Relays
<1>3. /\ engine' = engine /\ unacked' = unacked /\ helloUnacked' = helloUnacked /\ seqs' = seqs
      /\ gate' = gate /\ rejected' = rejected /\ stored' = stored /\ flushing' = flushing /\ unstored' = unstored
      /\ typed' = typed /\ reloads' = reloads
  BY <1>2 DEF client, durable
<1>4. up \in [Connections -> Seq(ClientFrames)] /\ conn \in 0..MaxConnections /\ n \in Nat /\ n # 0
  BY <1>1, TypeParts DEF Connections
<1>5. session[n].stage # "open" /\ session[n].stage # "closed"
  BY <1>2 DEF Joined
<1>6. up' \in [Connections -> Seq(ClientFrames)]
  <2>1. Tail(up[n]) \in Seq(ClientFrames)
    BY <1>2, <1>4
  <2> QED
    BY <1>2, <1>4, <2>1
<1>7. Talks'
  BY <1>1, <1>2, <1>5, TalksOn
<1>8. /\ Fewer
      /\ \A m \in Connections : \A i \in LiveAt(m)' : up'[m][i].op.id[1] # op.id[1]
  <2>1. TakeOperation(n, 1)
    BY DEF AcceptOperation
  <2> QED
    BY <1>2, <2>1, TakenAlone
<1>9. \A m \in Connections : session[m].stage = "open" => up'[m] = up[m]
  BY <1>2, <1>4, <1>5
<1>10. op.id \in Ids /\ Met(op.id) /\ Met(op.parent) /\ op.parent \in Ids \cup {Root}
  BY <1>2, OperationFields DEF Met, LiveAt
<1>11. /\ op.id[1] \notin EditsOf(ToSet(log) \cup rejected) /\ op.id \notin IdsOf(parked)
       /\ \A o \in parked : o.parent # op.id
       /\ \A o \in ToSet(unacked) : o.id[1] = op.id[1] => o.id = op.id
       /\ Descends(op)
  BY <1>1, <1>2 DEF Fates, Lively, Hopeless, Unsaved, Identity, Descent, LiveAt
<1>12. CASE op.parent \in IdsOf(ToSet(log)) \cup {Root} /\ Saves(op)
  <2>1. PICK frames \in Seq(Frames) :
          /\ MaySend(conn, frames)
          /\ \A f \in ToSet(frames) : f.kind = "op" /\ Told(f)'
    BY <1>2, <1>12 DEF Saves, Parks
  <2>2. /\ log' \in Seq(Operations) /\ Len(log') = Len(log) + 1 /\ Len(log) \in Nat
        /\ DOMAIN log = 1..Len(log) /\ DOMAIN log' = 1..Len(log) + 1
        /\ \A i \in 1..Len(log) : log'[i] = log[i]
        /\ log'[Len(log) + 1] = op
        /\ ToSet(log') = ToSet(log) \cup {op}
        /\ EditsOf(ToSet(log')) = EditsOf(ToSet(log)) \cup {op.id[1]}
        /\ parked' = parked
    BY <1>1, <1>12, GrownLog DEF Saves
  <2>3. /\ ops' \in Seq(Frames) /\ control' \in Seq(Frames)
        /\ Successions' /\ Renewals' /\ Carried'
        /\ \A g \in ToSet(ops') \cup ToSet(control') :
             g \in ToSet(ops) \cup ToSet(control) \/ (Reaches(conn) /\ g \in ToSet(frames))
        /\ \A g \in ToSet(control') : g.kind = "have" => g \in ToSet(control)
    BY <1>2, <1>3, <2>1, <2>2, LanesKept
  <2>4. Types'
    <3>1. committed' \in 0..Len(log') /\ \A m \in Connections : session'[m].to <= Len(log')
      <4>1. \A m \in Connections : session[m].to <= Len(log) /\ session[m].to \in Nat
        BY <1>1, TypeParts DEF Session
      <4> QED
        BY <1>1, <1>2, <2>2, <4>1, TypeParts, SMTT(20)
    <3> QED
      BY <1>1, <1>2, <1>3, <1>6, <2>2, <2>3, <3>1, TypeParts, TypePartsNext
  <2>5. PeersCounted'
    <3>1. Made' = Made
      BY <1>2, <1>4, <2>2 DEF Made
    <3> QED
      BY <1>1, <2>2, <3>1 DEF Identity, PeersCounted, Made
  <2>6. /\ Identity'
        /\ Lively' /\ Single' /\ Forward' /\ Hopeless' /\ Distinct' /\ Unsaved' /\ Stored' /\ Refusals'
        /\ Answers'
    <3>1. log' = log \o <<op>>
      BY <1>12 DEF Saves
    <3>2. op.id[1] \notin EditsOf(ToSet(log))
      BY <1>11 DEF EditsOf
    <3>3. \A f \in ToSet(ops') \cup ToSet(control') : f.kind = "reject" => f \in ToSet(ops) \cup ToSet(control)
      BY <2>1, <2>3
    <3>4. UNCHANGED <<engine, unacked, rejected, durable, typed, conn, open, helloUnacked>>
      BY <1>2, <1>3 DEF durable
    <3> QED
      BY <1>8, <1>10, <1>11, <2>2, <2>4, <2>5, <3>1, <3>2, <3>3, <3>4, GrowthKeeps
  <2>7. Reported'
    <3>1. ASSUME NEW o \in ToSet(unacked), o.id \in helloUnacked, Alone(conn)
          PROVE  o.id[1] \in EditsOf(ToSet(log')) <=> o.id[1] \in EditsOf(ToSet(log))
      <4>1. ASSUME o.id[1] = op.id[1] PROVE FALSE
        <5>1. o.id = op.id
          BY <1>11, <4>1
        <5>2. o.id[2] < conn
          BY <1>1, <3>1 DEF Fates, Reported
        <5>3. n \in 1..(conn - 1)
          BY <1>2, <1>4, <5>1, <5>2
        <5> QED
          BY <1>5, <3>1, <5>3 DEF Alone
      <4> QED
        BY <2>2, <4>1
    <3> QED
      BY <1>2, <1>3, <1>9, <2>3, <3>1, ReportedKept
  <2> QED
    BY <1>7, <2>3, <2>4, <2>6, <2>7 DEF IInv, Fates
<1>13. CASE op.parent \notin IdsOf(ToSet(log)) \cup {Root} /\ Parks(op)
  <2>1. log' = log /\ parked' = parked \cup {op} /\ ops' = ops /\ control' = control
    BY <1>2, <1>13 DEF Parks
  <2>2. Types'
    BY <1>1, <1>2, <1>3, <1>6, <2>1, TypeParts, TypePartsNext
  <2>3. Successions' /\ Renewals' /\ Carried'
    BY <1>1, <1>2, <1>3, <2>1 DEF Successions, Renewals, Carried, Alone, Told
  <2>4. /\ Single' /\ Forward'
        /\ \A m \in Connections : \A i \in LiveAt(m)' : \E j \in LiveAt(m) : up'[m][i].op = up[m][j].op
    BY <1>1, <1>8, <2>2, FewerFates DEF Fates
  <2>5. \A k : Met(k)' => Met(k)
    <3> SUFFICES ASSUME NEW k, Met(k)' PROVE Met(k)
      OBVIOUS
    <3>1. CASE k \in IdsOf(ToSet(log) \cup parked \cup ToSet(unacked) \cup engine.nodes \cup engine.pending)'
      <4>1. PICK o \in ToSet(log) \cup parked \cup {op} \cup ToSet(unacked) \cup engine.nodes \cup engine.pending :
              k = o.id
        BY <1>3, <2>1, <3>1 DEF IdsOf
      <4> QED
        BY <1>10, <4>1 DEF Met, IdsOf
    <3>2. CASE \E o \in parked' : k = o.parent
      BY <1>10, <2>1, <3>2 DEF Met
    <3>3. ASSUME NEW m \in Connections, NEW i \in OpsAt(m)', k \in {up'[m][i].op.id, up'[m][i].op.parent}
          PROVE  Met(k)
      <4>1. PICK d \in Nat : i + d \in OpsAt(m) /\ up'[m][i].op = up[m][i + d].op
        BY <1>8 DEF Fewer
      <4> QED
        BY <3>3, <4>1 DEF Met
    <3> QED
      BY <3>1, <3>2, <3>3 DEF Met
  <2>6. Minted' /\ Newest'
    BY <1>1, <1>2, <1>3, <2>1, <2>5 DEF Identity, Minted, Newest
  <2>7. Descent'
    <3>1. \A o \in parked' \cup ToSet(unacked') : Descends(o)
      BY <1>1, <1>3, <1>11, <2>1 DEF Identity, Descent
    <3>2. ASSUME NEW m \in Connections, NEW i \in OpsAt(m)' PROVE Descends(up'[m][i].op)
      <4>1. PICK d \in Nat : i + d \in OpsAt(m) /\ up'[m][i].op = up[m][i + d].op
        BY <1>8 DEF Fewer
      <4> QED
        BY <1>1, <4>1 DEF Identity, Descent
    <3> QED
      BY <3>1, <3>2 DEF Descent
  <2>8. ParentsFirst' /\ PeersCounted' /\ LoggedOnce' /\ Distinct' /\ Stored' /\ Refusals'
    BY <1>1, <1>3, <2>1
       DEF Identity, ParentsFirst, PeersCounted, LoggedOnce, Made, Fates, Distinct, Stored, Noted, Refusals
  <2>9. Lively'
    <3> SUFFICES ASSUME NEW m \in Connections, NEW i \in LiveAt(m)'
                 PROVE  /\ up'[m][i].op.id[1] \notin EditsOf(ToSet(log) \cup rejected)
                        /\ up'[m][i].op.id \notin IdsOf(parked \cup {op})
      BY <1>3, <2>1 DEF Lively
    <3>1. PICK j \in LiveAt(m) : up'[m][i].op = up[m][j].op
      BY <2>4
    <3>2. up[m][j].op.id[1] \notin EditsOf(ToSet(log) \cup rejected) /\ up[m][j].op.id \notin IdsOf(parked)
      BY <1>1 DEF Fates, Lively
    <3>3. up'[m][i].op.id # op.id
      BY <1>8
    <3> QED
      BY <3>1, <3>2, <3>3 DEF IdsOf
  <2>10. Hopeless'
    <3>1. ASSUME NEW o \in parked
          PROVE  /\ o.parent # Root /\ o.parent \notin IdsOf(ToSet(log))
                 /\ \A m \in Connections : \A i \in LiveAt(m)' : up'[m][i].op.id # o.parent
      BY <1>1, <2>4 DEF Fates, Hopeless
    <3>2. ASSUME NEW m \in Connections, NEW i \in LiveAt(m)', up'[m][i].op.id = op.parent
          PROVE  FALSE
      <4>1. PICK j \in LiveAt(m) : up'[m][i].op = up[m][j].op
        BY <2>4
      <4>2. n = m /\ j < 1
        BY <1>1, <1>2, <3>2, <4>1 DEF Fates, Forward
      <4>3. j \in DOMAIN up[m] /\ up[m] \in Seq(ClientFrames)
        BY <1>4 DEF LiveAt, OpsAt
      <4> QED
        BY <4>2, <4>3
    <3> QED
      BY <1>13, <2>1, <3>1, <3>2 DEF Hopeless
  <2>11. Unsaved'
    BY <1>1, <1>3, <2>1, <2>4 DEF Fates, Unsaved
  <2>12. open => conn \in Connections
    BY <1>1, <1>4, Bounds DEF Successions, Connections
  <2>13. Answers'
    <3>1. \A o : Awaited(o) => AwaitedNext(o)
      BY <1>3, <2>1 DEF Awaited, AwaitedNext
    <3>2. \A o \in parked' : o \in parked \/ (open /\ o.id[2] = conn => Awaited(o))
      <4>1. open /\ op.id[2] = conn => Awaited(op)
        BY <1>1, <1>2 DEF Fates, Answers, LiveAt
      <4> QED
        BY <2>1, <4>1
    <3> QED
      BY <1>1, <1>2, <1>3, <1>8, <2>1, <2>12, <3>1, <3>2, AnswersOn DEF Fates
  <2>14. Reported'
    BY <1>2, <1>3, <1>9, <2>1, ReportedKept
  <2> QED
    BY <1>7, <2>2, <2>3, <2>4, <2>6, <2>7, <2>8, <2>9, <2>10, <2>11, <2>13, <2>14
       DEF IInv, Identity, Fates
<1> QED
  BY <1>2, <1>12, <1>13

\* What the others make is new.
LEMMA PeerEditIs ==
  ASSUME IInv, PeerEdit
  PROVE  \E op \in Operations, frames \in Seq(Frames) :
           /\ Saves(op) /\ op.id = <<MaxEdits + Cardinality(Made) + 1, 0>> /\ IsFiniteSet(Made)
           /\ op.parent \in IdsOf(ToSet(log)) \cup {Root}
           /\ MaySend(conn, frames) /\ Relays(frames, op)
           /\ UNCHANGED <<faults, committed, session, up, conn, open, synced, client>>
<1>1. Types /\ Identity /\ Hopeless
  BY DEF IInv, Fates
<1>2. IsFiniteSet(Made) /\ Cardinality(Made) \in Nat
  <2>1. Len(log) \in Nat /\ Made \in SUBSET (1..Len(log))
    BY <1>1, TypeParts DEF Made
  <2>2. IsFiniteSet(1..Len(log))
    BY <2>1, FS_Interval
  <2> QED
    BY <2>1, <2>2, FS_Subset, FS_CardinalityType
<1>3. PICK parent \in IdsOf(ToSet(log)) \cup {Root} :
        /\ Cardinality(Made) < MaxPeerEdits
        /\ Integrate(Op(<<MaxEdits + Cardinality(Made) + 1, 0>>, parent))
        /\ UNCHANGED <<faults, committed, session, up, conn, open, synced, client>>
  BY DEF PeerEdit, Made
<1>4. PICK k \in PeerEdits \X {0} : k = <<MaxEdits + Cardinality(Made) + 1, 0>>
  <2>1. MaxEdits + Cardinality(Made) + 1 \in PeerEdits
    BY <1>2, <1>3, Bounds DEF PeerEdits
  <2> QED
    BY <2>1
<1>5. PICK op \in Operations : op = Op(k, parent) /\ op.id = k /\ op.parent = parent
  <2>1. IdsOf(ToSet(log)) \subseteq Ids
    <3>1. ToSet(log) \subseteq Operations
      BY <1>1, TypeParts, Queues
    <3> QED
      BY <3>1, OperationFields DEF IdsOf
  <2>2. parent \in Ids \cup {Root} /\ k \in Ids
    BY <2>1 DEF Ids
  <2>3. Op(k, parent) \in Operations /\ Op(k, parent).id = k /\ Op(k, parent).parent = parent
    BY <2>2 DEF Op, Operations
  <2> QED
    BY <2>3
<1>6. Integrate(op)
  BY <1>3, <1>4, <1>5
<1>7. \A o \in parked : o.parent # op.id /\ o # op
  <2> SUFFICES ASSUME NEW o \in parked PROVE o.parent # op.id /\ o # op
    OBVIOUS
  <2>1. op.id[2] = 0
    BY <1>4, <1>5
  <2>2. o # op
    BY <1>1, <2>1 DEF Identity, Descent, Descends
  <2>3. o.parent # op.id
    <3>1. ASSUME o.parent = op.id PROVE FALSE
      <4>1. op.id \in Ids /\ Met(op.id)
        BY <1>5, <3>1, OperationFields DEF Met
      <4>2. op.id \in IdsOf(ToSet(log))
        BY <1>1, <2>1, <4>1 DEF Identity, Minted
      <4> QED
        BY <1>1, <3>1, <4>2 DEF Hopeless
    <3> QED
      BY <3>1
  <2> QED
    BY <2>2, <2>3
<1>8. /\ Saves(op)
      /\ \E frames \in Seq(Frames) : MaySend(conn, frames) /\ Relays(frames, op)
  BY <1>6, <1>7, IntegratesIs DEF Saves
<1> QED
  BY <1>2, <1>3, <1>4, <1>5, <1>8

\* What the others make keeps the invariant.
LEMMA PeerEditStep ==
  ASSUME IInv, PeerEdit
  PROVE  IInv'
<1>1. Types /\ Talks /\ Successions /\ Renewals /\ Carried /\ Identity /\ Fates
  BY DEF IInv
<1>2. PICK op \in Operations, frames \in Seq(Frames) :
        /\ Saves(op) /\ op.id = <<MaxEdits + Cardinality(Made) + 1, 0>> /\ IsFiniteSet(Made)
        /\ MaySend(conn, frames) /\ \A f \in ToSet(frames) : f.kind = "op" /\ Told(f)'
        /\ UNCHANGED <<faults, committed, session, up, conn, open, synced, client>>
  BY PeerEditIs DEF Relays
<1>3. /\ engine' = engine /\ unacked' = unacked /\ helloUnacked' = helloUnacked /\ seqs' = seqs
      /\ gate' = gate /\ rejected' = rejected /\ stored' = stored /\ flushing' = flushing /\ unstored' = unstored
      /\ typed' = typed /\ reloads' = reloads
  BY <1>2 DEF client, durable
<1>4. /\ log' \in Seq(Operations) /\ Len(log') = Len(log) + 1 /\ Len(log) \in Nat
      /\ DOMAIN log = 1..Len(log) /\ DOMAIN log' = 1..Len(log) + 1
      /\ \A i \in 1..Len(log) : log'[i] = log[i]
      /\ log'[Len(log) + 1] = op
      /\ ToSet(log') = ToSet(log) \cup {op}
      /\ EditsOf(ToSet(log')) = EditsOf(ToSet(log)) \cup {op.id[1]}
      /\ parked' = parked
  BY <1>1, <1>2, GrownLog DEF Saves
<1>5. /\ ops' \in Seq(Frames) /\ control' \in Seq(Frames)
      /\ Successions' /\ Renewals' /\ Carried'
      /\ \A g \in ToSet(ops') \cup ToSet(control') :
           g \in ToSet(ops) \cup ToSet(control) \/ (Reaches(conn) /\ g \in ToSet(frames))
      /\ \A g \in ToSet(control') : g.kind = "have" => g \in ToSet(control)
  BY <1>2, <1>3, <1>4, LanesKept
<1>6. Types'
  <2>1. committed' \in 0..Len(log') /\ \A m \in Connections : session'[m].to <= Len(log')
    <3>1. \A m \in Connections : session[m].to <= Len(log) /\ session[m].to \in Nat
      BY <1>1, TypeParts DEF Session
    <3> QED
      BY <1>1, <1>2, <1>4, <3>1, TypeParts
  <2> QED
    BY <1>1, <1>2, <1>3, <1>4, <1>5, <2>1, TypeParts, TypePartsNext
<1>7. Talks'
  BY <1>1, <1>2 DEF Talks
<1>8. Fewer
  <2>1. 1 \in Connections
    BY Bounds DEF Connections
  <2> QED
    BY <1>1, <1>2, <2>1, FewerWhen
<1>9. Cardinality(Made) \in Nat
  BY <1>2, FS_CardinalityType
<1>10. op.id[2] = 0 /\ op.id[1] = MaxEdits + Cardinality(Made) + 1 /\ op.id[1] > MaxEdits
       /\ op.id[1] \in Nat
  BY <1>2, <1>9, Bounds
<1>11. \A o \in Operations : o.id[2] # 0 => o.id[1] <= MaxEdits /\ o.id[1] # op.id[1]
  <2> SUFFICES ASSUME NEW o \in Operations, o.id[2] # 0 PROVE o.id[1] <= MaxEdits /\ o.id[1] # op.id[1]
    OBVIOUS
  <2>1. o.id[1] \in Edits
    BY OperationFields, IdFields
  <2> QED
    BY <1>10, <2>1, Bounds DEF Edits
<1>12. op.id[1] \notin EditsOf(ToSet(log))
  <2>1. ASSUME NEW i \in 1..Len(log) PROVE log[i].id[1] # op.id[1]
    <3>1. log[i] \in Operations
      BY <1>1, <1>4, TypeParts
    <3>2. CASE log[i].id[2] # 0
      BY <1>11, <3>1, <3>2
    <3>3. CASE log[i].id[2] = 0
      <4>1. i \in Made
        BY <1>4, <3>3 DEF Made
      <4>2. log[i].id[1] <= MaxEdits + Cardinality(Made)
        BY <1>1, <4>1 DEF Identity, PeersCounted
      <4>3. log[i].id[1] \in Nat
        BY <3>1, OperationFields, IdFields
      <4> QED
        BY <1>9, <1>10, <4>2, <4>3, Bounds
    <3> QED
      BY <3>2, <3>3
  <2> QED
    BY <1>4, <2>1 DEF EditsOf, ToSet
<1>13. PeersCounted'
  <2>1. Made' = Made \cup {Len(log) + 1} /\ Len(log) + 1 \notin Made
    <3>1. ASSUME NEW i PROVE i \in Made' <=> i \in Made \cup {Len(log) + 1}
      <4>1. i \in 1..Len(log) + 1 <=> i \in 1..Len(log) \/ i = Len(log) + 1
        BY <1>4
      <4> QED
        BY <1>4, <1>10, <4>1 DEF Made
    <3>2. Len(log) + 1 \notin Made
      BY <1>4 DEF Made
    <3> QED
      BY <3>1, <3>2
  <2>2. Cardinality(Made') = Cardinality(Made) + 1
    BY <1>2, <2>1, FS_AddElement
  <2>3. ASSUME NEW i \in Made' PROVE log'[i].id[1] <= MaxEdits + Cardinality(Made')
    <3>1. CASE i \in Made
      <4>1. log[i].id[1] <= MaxEdits + Cardinality(Made) /\ i \in 1..Len(log)
        BY <1>1, <1>4, <3>1 DEF Identity, PeersCounted, Made
      <4>2. log[i] \in Operations
        BY <1>1, <1>4, <4>1, TypeParts
      <4>3. log[i].id[1] \in Nat
        BY <4>2, OperationFields, IdFields
      <4> QED
        BY <1>4, <1>9, <2>2, <4>1, <4>3, Bounds
    <3>2. CASE i = Len(log) + 1
      BY <1>4, <1>9, <1>10, <2>2, <3>2, Bounds
    <3> QED
      BY <2>1, <3>1, <3>2
  <2> QED
    BY <2>3 DEF PeersCounted
<1>14. \A m \in Connections : \A i \in LiveAt(m)' : up'[m][i].op.id[1] # op.id[1]
  <2> SUFFICES ASSUME NEW m \in Connections, NEW i \in LiveAt(m)' PROVE up'[m][i].op.id[1] # op.id[1]
    OBVIOUS
  <2>1. up'[m] = up[m] /\ i \in DOMAIN up[m] /\ up[m][i].kind = "op" /\ i \in OpsAt(m)
    BY <1>2 DEF LiveAt, OpsAt
  <2>2. up[m] \in Seq(ClientFrames)
    BY <1>1, TypeParts
  <2>3. up[m][i].op \in Operations
    BY <2>1, <2>2, ClientFrameFields
  <2>4. up[m][i].op.id[2] # 0
    BY <1>1, <2>1 DEF Identity, Descent, Descends
  <2> QED
    BY <1>11, <2>1, <2>3, <2>4
<1>15. \A o \in ToSet(unacked) : o.id[1] # op.id[1]
  <2>1. \A o \in ToSet(unacked) : o \in Operations
    BY <1>1, TypeParts, Queues
  <2> QED
    BY <1>1, <1>11, <2>1 DEF Identity, Descent, Descends
<1>16. \A o \in parked : o.parent # op.id
  <2>1. ASSUME NEW o \in parked, o.parent = op.id PROVE FALSE
    <3>1. op.id \in Ids /\ Met(op.id)
      BY <2>1, OperationFields DEF Met
    <3>2. op.id \in IdsOf(ToSet(log))
      BY <1>1, <1>10, <3>1 DEF Identity, Minted
    <3> QED
      BY <1>12, <3>2 DEF IdsOf, EditsOf
  <2> QED
    BY <2>1
<1>17. /\ Identity'
       /\ Lively' /\ Single' /\ Forward' /\ Hopeless' /\ Distinct' /\ Unsaved' /\ Stored' /\ Refusals'
       /\ Answers'
  <2>1. log' = log \o <<op>>
    BY <1>2 DEF Saves
  <2>2. \A f \in ToSet(ops') \cup ToSet(control') : f.kind = "reject" => f \in ToSet(ops) \cup ToSet(control)
    BY <1>2, <1>5
  <2>3. UNCHANGED <<engine, unacked, rejected, durable, typed, conn, open, helloUnacked>>
    BY <1>2, <1>3 DEF durable
  <2>4. \A o \in ToSet(unacked) : o.id[1] = op.id[1] => o.id = op.id
    BY <1>15
  <2> QED
    BY <1>4, <1>6, <1>8, <1>10, <1>12, <1>13, <1>14, <1>16, <2>1, <2>2, <2>3, <2>4, GrowthKeeps
<1>18. Reported'
  <2>1. \A o \in ToSet(unacked) :
          o.id[1] \in EditsOf(ToSet(log')) <=> o.id[1] \in EditsOf(ToSet(log))
    BY <1>4, <1>15
  <2> QED
    BY <1>2, <1>3, <1>5, <2>1, ReportedKept
<1> QED
  BY <1>5, <1>6, <1>7, <1>17, <1>18 DEF IInv, Fates

-----------------------------------------------------------------------------
(* The client's connections *)

\* A new connection says what is queued, and carries no operation yet.
LEMMA OpenSocketStep ==
  ASSUME IInv, OpenSocket
  PROVE  IInv'
<1>1. Types /\ Talks /\ Successions /\ Renewals /\ Carried /\ Identity /\ Fates
  BY DEF IInv
<1>2. conn \in 0..MaxConnections /\ conn < MaxConnections /\ conn \in Nat
      /\ up \in [Connections -> Seq(ClientFrames)] /\ session \in [Connections -> Session]
  BY <1>1, TypeParts, Bounds DEF OpenSocket
<1>3. PICK c \in Connections : c = conn + 1
  <2>1. conn + 1 \in Connections
    BY <1>2, Bounds DEF Connections
  <2> QED
    BY <2>1
<1>4. IdsOf(ToSet(unacked)) \in SUBSET Ids
  <2>1. \A o \in ToSet(unacked) : o \in Operations
    BY <1>1, TypeParts, Queues
  <2> QED
    BY <2>1, OperationFields DEF IdsOf
<1>5. PICK hello \in ClientFrames :
        /\ hello = [kind |-> "hello", seq |-> seqs.applied, unacked |-> IdsOf(ToSet(unacked)),
                    resident |-> HasEngine]
        /\ hello.kind = "hello" /\ hello.unacked = IdsOf(ToSet(unacked))
  <2> DEFINE h == [kind |-> "hello", seq |-> seqs.applied, unacked |-> IdsOf(ToSet(unacked)),
                   resident |-> HasEngine]
  <2>1. seqs.applied \in Nat
    BY <1>1, TypeParts DEF Seqs
  <2>2. HasEngine \in BOOLEAN
    BY DEF HasEngine
  <2>3. h \in ClientFrames /\ h.kind = "hello" /\ h.unacked = IdsOf(ToSet(unacked))
    BY <1>4, <2>1, <2>2 DEF ClientFrames
  <2> QED
    BY <2>3
<1>6. /\ ~open /\ conn' = c /\ open' = TRUE /\ gate' = <<>> /\ helloUnacked' = IdsOf(ToSet(unacked))
      /\ up' = [up EXCEPT ![c] = <<hello>>]
      /\ faults' = faults /\ log' = log /\ committed' = committed /\ parked' = parked
      /\ session' = session /\ ops' = ops /\ control' = control /\ synced' = synced
      /\ engine' = engine /\ unacked' = unacked /\ seqs' = seqs
      /\ rejected' = rejected /\ stored' = stored /\ flushing' = flushing /\ unstored' = unstored
      /\ typed' = typed /\ reloads' = reloads
  BY <1>3, <1>5 DEF OpenSocket, server, durable
<1>7. ops = <<>> /\ control = <<>>
  BY <1>1, <1>6 DEF Carried
<1>8. \A m \in Connections : up'[m] = IF m = c THEN <<hello>> ELSE up[m]
  BY <1>2, <1>6
<1>9. up[c] = <<>> /\ session[c] = NewSession /\ c > conn
  BY <1>1, <1>2, <1>3 DEF Talks
<1>10. Types'
  <2>1. <<hello>> \in Seq(ClientFrames)
    OBVIOUS
  <2>2. up' \in [Connections -> Seq(ClientFrames)]
    BY <1>2, <1>6, <2>1
  <2>3. gate' \in Seq(Frames) /\ open' \in BOOLEAN /\ conn' \in 0..MaxConnections
        /\ helloUnacked' \in SUBSET Ids
    BY <1>4, <1>6, Bounds DEF Connections
  <2> QED
    BY <1>1, <1>6, <2>2, <2>3, TypeParts, TypePartsNext
<1>11. DOMAIN <<hello>> = 1..1 /\ <<hello>>[1] = hello /\ <<hello>> # <<>>
  OBVIOUS
<1>12. Talks'
  <2> SUFFICES ASSUME NEW m \in Connections
               PROVE  /\ m > c => up'[m] = <<>> /\ session[m] = NewSession
                      /\ m <= c /\ session[m].stage = "open" => up'[m] # <<>> /\ up'[m][1].kind = "hello"
                      /\ \A i \in DOMAIN up'[m] : up'[m][i].kind = "hello" => i = 1 /\ session[m].stage = "open"
    BY <1>6 DEF Talks
  <2>1. CASE m = c
    <3>1. session[m].stage = "open"
      BY <1>9, <2>1 DEF NewSession
    <3> QED
      BY <1>5, <1>8, <1>11, <2>1, <3>1 DEF Connections
  <2>2. CASE m # c
    <3>1. up'[m] = up[m]
      BY <1>8, <2>2
    <3>2. (m > c => m > conn) /\ (m <= c => m <= conn)
      BY <1>2, <1>3, <2>2 DEF Connections
    <3> QED
      BY <1>1, <3>1, <3>2 DEF Talks
  <2> QED
    BY <2>1, <2>2
<1>13. DOMAIN control = {} /\ engine.replica < c /\ c > 0
  <2>1. engine.replica \in Nat /\ engine.replica <= conn
    BY <1>1, TypeParts, Bounds DEF Engine, Successions
  <2> QED
    BY <1>2, <1>3, <1>7, <2>1
<1>14. Successions'
  <2>1. engine.replica \in Nat /\ c \in Nat
    BY <1>1, TypeParts, Bounds DEF Engine, Connections
  <2>2. engine.replica # c /\ engine.replica <= c
    BY <1>13, <2>1
  <2> QED
    BY <1>1, <1>6, <1>13, <2>2 DEF Successions, Alone
<1>15. Renewals'
  <2>1. session[c].stage = "open"
    BY <1>9 DEF NewSession
  <2>2. DOMAIN gate' = {}
    BY <1>6
  <2> QED
    BY <1>6, <1>13, <2>1, <2>2 DEF Renewals
<1>16. Carried'
  <2>1. DOMAIN ops = {} /\ ToSet(ops) = {} /\ ToSet(control) = {} /\ ToSet(gate') = {}
    BY <1>6, <1>7, NoMembers
  <2> QED
    BY <1>6, <2>1 DEF Carried
<1>17. Fewer
  <2> SUFFICES ASSUME NEW m \in Connections
               PROVE  \E d \in Nat : \A i \in OpsAt(m)' :
                        /\ i + d \in OpsAt(m) /\ up'[m][i].op = up[m][i + d].op
                        /\ i \in LiveAt(m)' => i + d \in LiveAt(m)
    BY DEF Fewer
  <2>1. CASE m = c
    <3>1. OpsAt(m)' = {}
      BY <1>5, <1>8, <1>11, <2>1 DEF OpsAt
    <3> QED
      BY <3>1
  <2>2. CASE m # c
    <3>1. up'[m] = up[m] /\ up[m] \in Seq(ClientFrames)
      BY <1>2, <1>8, <2>2
    <3>2. \A i \in OpsAt(m)' : i + 0 = i /\ i \in OpsAt(m)
      BY <3>1 DEF OpsAt
    <3>3. \A i \in OpsAt(m)' :
            /\ i + 0 \in OpsAt(m) /\ up'[m][i].op = up[m][i + 0].op
            /\ i \in LiveAt(m)' => i + 0 \in LiveAt(m)
      BY <1>6, <3>1, <3>2 DEF LiveAt
    <3> QED
      BY <3>3
  <2> QED
    BY <2>1, <2>2
<1>18. /\ Identity'
       /\ Lively' /\ Single' /\ Forward' /\ Hopeless' /\ Distinct' /\ Unsaved' /\ Stored' /\ Refusals'
  <2>1. Calm /\ Fed
    BY <1>6, <1>17 DEF Calm, Fed
  <2>2. conn' >= conn
    BY <1>2, <1>3, <1>6
  <2> QED
    BY <1>6, <1>10, <2>1, <2>2, CalmKeeps DEF durable
<1>19. Answers'
  <2>1. OpsAt(c)' = {}
    BY <1>5, <1>8, <1>11 DEF OpsAt
  <2>2. ASSUME NEW o \in parked, o.id[2] = c PROVE FALSE
    <3>1. Met(o.id) /\ o.id \in Ids
      BY <1>1, TypeParts, OperationFields DEF Met, IdsOf
    <3>2. o.id[2] <= conn
      BY <1>1, <2>2, <3>1, <1>13 DEF Identity, Minted
    <3> QED
      BY <1>2, <1>3, <2>2, <3>2
  <2>3. ToSet(ops') \cup ToSet(control') = {}
    BY <1>6, <1>7, NoMembers
  <2> QED
    BY <1>6, <2>1, <2>2, <2>3, AnswersNext
<1>20. Reported'
  <2>1. ASSUME NEW o \in ToSet(unacked) PROVE o.id[2] < c /\ o.id[1] \in 1..typed
    <3>1. o \in Operations
      BY <1>1, TypeParts, Queues
    <3>2. Met(o.id) /\ o.id \in Ids /\ o.id[2] # 0
      BY <1>1, <3>1, OperationFields DEF Met, IdsOf, Identity, Descent, Descends
    <3>3. o.id[2] <= conn /\ o.id[1] \in 1..typed
      BY <1>1, <3>2 DEF Identity, Minted
    <3>4. o.id[2] \in Nat
      BY <3>2, IdFields, Bounds
    <3> QED
      BY <1>2, <1>3, <3>3, <3>4
  <2>2. \A k \in helloUnacked' : k[2] < conn' /\ k[1] \in 1..typed'
    BY <1>6, <2>1 DEF IdsOf
  <2>3. session[c].stage = "open" /\ up'[c][1].unacked = helloUnacked'
    BY <1>5, <1>6, <1>8, <1>9, <1>11 DEF NewSession
  <2>4. ToSet(control') \cup ToSet(gate') = {}
    BY <1>6, <1>7, NoMembers
  <2> QED
    BY <1>6, <2>2, <2>3, <2>4 DEF Reported
<1> QED
  BY <1>10, <1>12, <1>14, <1>15, <1>16, <1>18, <1>19, <1>20 DEF IInv, Fates

\* A step that touches neither the frames to the server nor its sessions.
Aside == UNCHANGED <<faults, log, committed, parked, session, up, conn, typed>>

\* It disturbs no connection.
LEMMA AsideKeeps ==
  ASSUME Types, Talks, Aside, ToSet(unacked') \subseteq ToSet(unacked)
  PROVE  Talks' /\ Calm /\ (\A c : Alone(c) => Alone(c)') /\ (Alone(conn) => Alone(conn)')
<1>1. Talks'
  BY DEF Talks, Aside
<1>2. Fewer
  <2>1. 1 \in Connections
    BY Bounds DEF Connections
  <2> QED
    BY <2>1, FewerWhen DEF Aside
<1>3. Calm
  BY <1>2 DEF Calm, Aside
<1>4. (\A c : Alone(c) => Alone(c)') /\ (Alone(conn) => Alone(conn)')
  BY DEF Alone, Aside
<1> QED
  BY <1>1, <1>3, <1>4

\* The connection breaks.
LEMMA DropStep ==
  ASSUME IInv, Drop
  PROVE  IInv'
<1>1. Types /\ Talks /\ Successions /\ Renewals /\ Carried /\ Identity /\ Fates
  BY DEF IInv
<1>2. /\ faults' = faults /\ log' = log /\ committed' = committed /\ parked' = parked
      /\ session' = session /\ up' = up /\ conn' = conn
      /\ open' = FALSE /\ synced' = FALSE /\ ops' = <<>> /\ control' = <<>>
      /\ engine' = engine /\ unacked' = unacked
      /\ helloUnacked' = helloUnacked /\ seqs' = seqs /\ gate' = gate /\ rejected' = rejected
      /\ stored' = stored /\ flushing' = flushing /\ unstored' = unstored /\ typed' = typed /\ reloads' = reloads
      /\ open
  BY DEF Drop, LoseConnection, server, client, durable
<1>3. Types'
  <2>1. ops' \in Seq(Frames) /\ control' \in Seq(Frames)
    BY <1>2
  <2> QED
    BY <1>1, <1>2, <2>1, TypeParts, TypePartsNext
<1>4. Talks' /\ Calm /\ (\A c : Alone(c) => Alone(c)') /\ (Alone(conn) => Alone(conn)')
  BY <1>1, <1>2, AsideKeeps DEF Aside
<1>5. DOMAIN control' = {} /\ DOMAIN ops' = {} /\ ToSet(ops') = {} /\ ToSet(control') = {}
  BY <1>2, NoMembers
<1>6. Successions'
  BY <1>1, <1>2, <1>4, <1>5 DEF Successions, Alone
<1>7. Renewals'
  BY <1>1, <1>2, <1>5 DEF Renewals
<1>8. Carried'
  BY <1>1, <1>2, <1>5 DEF Carried, Told
<1>9. /\ Identity'
      /\ Lively' /\ Single' /\ Forward' /\ Hopeless' /\ Distinct' /\ Unsaved' /\ Stored' /\ Refusals'
  <2>1. conn' >= conn
    BY <1>1, <1>2, TypeParts
  <2>2. Fed
    BY <1>2 DEF Fed
  <2> QED
    BY <1>2, <1>3, <1>4, <2>1, <2>2, CalmKeeps DEF durable
<1>10. Answers'
  BY <1>2 DEF Answers
<1>11. Reported'
  <2>1. \A f : Had(f) => Had(f)'
    BY <1>2, <1>4 DEF Had
  <2>2. \A f \in ToSet(gate) : f.kind = "have" => Had(f)
    BY <1>1 DEF Fates, Reported
  <2>3. \A k \in helloUnacked : k[2] < conn /\ k[1] \in 1..typed
    BY <1>1 DEF Fates, Reported
  <2> QED
    BY <1>2, <1>5, <2>1, <2>2, <2>3 DEF Reported
<1> QED
  BY <1>3, <1>4, <1>6, <1>7, <1>8, <1>9, <1>10, <1>11 DEF IInv, Fates

\* What the page finds when it opens again: what was queued, parents first, and
\* no edit twice.
LEMMA LoadedIs ==
  ASSUME IInv, RowsMayLag
  PROVE  /\ LoadUnacked \in Seq(Operations) /\ LoadRejected \in SUBSET Operations
         /\ ToSet(LoadUnacked) \subseteq ToSet(unacked) /\ LoadRejected \subseteq rejected
         /\ \A o \in Operations : UnackedRow(o) \in stored <=> o \in ToSet(LoadUnacked)
         /\ \A o \in Operations : RejectedRow(o) \in stored <=> o \in LoadRejected
         /\ \A i, j \in DOMAIN LoadUnacked : LoadUnacked[i].parent = LoadUnacked[j].id => j < i
         /\ \A i, j \in DOMAIN LoadUnacked : i # j => LoadUnacked[i].id[1] # LoadUnacked[j].id[1]
<1> DEFINE U == StoredAs("unacked")
<1>1. Types /\ Identity /\ Fates
  BY DEF IInv
<1>2. stored \in SUBSET ({"unacked", "rejected"} \X Operations) /\ unacked \in Seq(Operations)
  BY <1>1, TypeParts DEF Rows
<1>3. \A o \in Operations : UnackedRow(o) \in stored <=> o \in U
  BY <1>2 DEF UnackedRow, StoredAs
<1>4. \A o \in Operations : RejectedRow(o) \in stored <=> o \in LoadRejected
  BY <1>2 DEF RejectedRow, LoadRejected, StoredAs
<1>5. U \in SUBSET Operations /\ LoadRejected \in SUBSET Operations
  BY <1>2 DEF LoadRejected, StoredAs
<1>6. U \subseteq ToSet(unacked) /\ LoadRejected \subseteq rejected
  <2>1. "lagging_rows" \notin faults /\ "stale_rows" \notin faults
    BY <1>1, TypeParts
  <2>2. U \subseteq ToSet(unacked)
    BY <2>1 DEF RowsMayLag
  <2>3. \A o \in Operations : RejectedRow(o) \in stored => o \in rejected
    BY <1>1 DEF Fates, Stored, Noted
  <2> QED
    BY <1>4, <1>5, <2>2, <2>3
<1>7. \A a, b \in ToSet(unacked) : a.id[1] = b.id[1] => a = b
  <2> SUFFICES ASSUME NEW a \in ToSet(unacked), NEW b \in ToSet(unacked), a.id[1] = b.id[1] PROVE a = b
    OBVIOUS
  <2>1. PICK i \in DOMAIN unacked, j \in DOMAIN unacked : a = unacked[i] /\ b = unacked[j]
    BY DEF ToSet
  <2> QED
    BY <1>1, <2>1 DEF Fates, Distinct
<1>8. LoadUnacked = InOrder(U)
  BY DEF LoadUnacked
<1> HIDE DEF U
<1>9. /\ LoadUnacked \in Seq(Operations) /\ ToSet(LoadUnacked) = U
      /\ \A k, l \in DOMAIN LoadUnacked : k < l => Older(LoadUnacked[k], LoadUnacked[l])
  <2>1. \A a, b \in U : a.id = b.id => a = b
    BY <1>6, <1>7
  <2> QED
    BY <1>5, <1>8, <2>1, InOrderIs
<1>10. PICK q \in Seq(Operations) : q = LoadUnacked
  BY <1>9
<1>11. \A i \in DOMAIN q : i \in Int /\ q[i] \in ToSet(q)
  BY DEF ToSet
<1>12. \A i \in DOMAIN q : /\ q[i] \in ToSet(unacked) /\ q[i].id \in Ids /\ q[i].id[1] \in Nat
                           /\ q[i].id[2] \in Nat /\ q[i].id[2] # 0
                           /\ (q[i].parent[2] # 0 => q[i].parent[1] < q[i].id[1])
  <2> SUFFICES ASSUME NEW i \in DOMAIN q
               PROVE  /\ q[i] \in ToSet(unacked) /\ q[i].id \in Ids /\ q[i].id[1] \in Nat
                      /\ q[i].id[2] \in Nat /\ q[i].id[2] # 0
                      /\ (q[i].parent[2] # 0 => q[i].parent[1] < q[i].id[1])
    OBVIOUS
  <2>1. q[i] \in U
    BY <1>9, <1>10, <1>11
  <2>2. q[i] \in ToSet(unacked) /\ q[i] \in Operations
    BY <1>5, <1>6, <2>1
  <2>3. Descends(q[i]) /\ q[i].id \in Ids
    BY <1>1, <2>2, OperationFields DEF Identity, Descent
  <2>4. q[i].id[1] \in Nat /\ q[i].id[2] \in Nat
    BY <2>3, IdFields, Bounds
  <2> QED
    BY <2>2, <2>3, <2>4 DEF Descends
<1>13. \A k, l \in DOMAIN q : k < l => Older(q[k], q[l])
  BY <1>9, <1>10
<1>14. \A i, j \in DOMAIN q : q[i].parent = q[j].id => j < i
  <2> SUFFICES ASSUME NEW i \in DOMAIN q, NEW j \in DOMAIN q, q[i].parent = q[j].id, ~(j < i)
               PROVE  FALSE
    OBVIOUS
  <2>1. q[j].id[1] < q[i].id[1]
    BY <1>12
  <2>2. i = j \/ i < j
    BY <1>11
  <2>3. CASE i < j
    BY <1>12, <1>13, <2>1, <2>3 DEF Older
  <2> QED
    BY <1>12, <2>1, <2>2, <2>3
<1>15. \A i, j \in DOMAIN q : i # j => q[i].id[1] # q[j].id[1]
  <2> SUFFICES ASSUME NEW i \in DOMAIN q, NEW j \in DOMAIN q, i # j, q[i].id[1] = q[j].id[1]
               PROVE  FALSE
    OBVIOUS
  <2>1. q[i] = q[j]
    BY <1>7, <1>12
  <2>2. i < j \/ j < i
    BY <1>11
  <2> QED
    BY <1>12, <1>13, <2>1, <2>2 DEF Older
<1> QED
  BY <1>3, <1>4, <1>5, <1>6, <1>9, <1>10, <1>14, <1>15

\* The page closes and opens again.
LEMMA ReloadStep ==
  ASSUME IInv, Reload
  PROVE  IInv'
<1>1. Types /\ Talks /\ Successions /\ Renewals /\ Carried /\ Identity /\ Fates
  BY DEF IInv
<1>2. /\ faults' = faults /\ log' = log /\ committed' = committed /\ parked' = parked
      /\ session' = session /\ up' = up /\ conn' = conn
      /\ open' = FALSE /\ synced' = FALSE /\ ops' = <<>> /\ control' = <<>>
      /\ engine' = NoEngine /\ unacked' = LoadUnacked
      /\ helloUnacked' = {} /\ seqs' = ResetSeqs(0) /\ gate' = <<>> /\ rejected' = LoadRejected
      /\ stored' = stored /\ flushing' = <<>> /\ unstored' = {}
      /\ typed' = typed /\ reloads' = reloads + 1
      /\ PageMayClose /\ RowsMayLag
  BY DEF Reload, LoseConnection, server, LoadUnacked, LoadRejected
<1>3. /\ unacked' \in Seq(Operations) /\ rejected' \in SUBSET Operations
      /\ ToSet(unacked') \subseteq ToSet(unacked) /\ rejected' \subseteq rejected
      /\ \A o \in Operations : UnackedRow(o) \in stored <=> o \in ToSet(unacked')
      /\ \A o \in Operations : RejectedRow(o) \in stored <=> o \in rejected'
      /\ \A i, j \in DOMAIN unacked' : unacked'[i].parent = unacked'[j].id => j < i
      /\ \A i, j \in DOMAIN unacked' : i # j => unacked'[i].id[1] # unacked'[j].id[1]
  BY <1>2, LoadedIs
<1>4. NoEngine \in Engine /\ NoEngine.replica = 0 /\ NoEngine.nodes = {} /\ NoEngine.pending = {}
  BY Bounds DEF NoEngine, Engine
<1>5. Types'
  <2>1. ops' \in Seq(Frames) /\ control' \in Seq(Frames) /\ gate' \in Seq(Frames)
    BY <1>2
  <2>2. seqs' \in Seqs /\ IsFiniteSet(seqs'.confirmed) /\ IsFiniteSet(seqs'.livePending)
    BY <1>2, ResetSeqsType
  <2>3. reloads' \in 0..MaxReloads /\ flushing' \in Seq(Transactions)
    BY <1>1, <1>2, TypeParts, Bounds DEF PageMayClose
  <2> QED
    BY <1>1, <1>2, <1>3, <1>4, <2>1, <2>2, <2>3, TypeParts, TypePartsNext
<1>6. Talks' /\ Calm /\ (\A c : Alone(c) => Alone(c)')
  BY <1>1, <1>2, <1>3, AsideKeeps DEF Aside
<1>7. DOMAIN control' = {} /\ DOMAIN ops' = {} /\ DOMAIN gate' = {}
      /\ ToSet(ops') = {} /\ ToSet(control') = {} /\ ToSet(gate') = {}
  BY <1>2, NoMembers
<1>8. conn \in Nat
  BY <1>1, TypeParts
<1>9. Successions'
  <2>1. conn = 0 => Alone(conn)'
    BY <1>2 DEF Alone
  <2> QED
    BY <1>1, <1>2, <1>4, <1>6, <1>7, <1>8, <2>1 DEF Successions, Alone
<1>10. Renewals'
  BY <1>2, <1>7 DEF Renewals
<1>11. Carried'
  BY <1>7 DEF Carried
<1>12. Fed
  BY <1>2, <1>4 DEF Fed
<1>13. Identity'
  <2>1. conn' \in Nat /\ conn' >= conn
    BY <1>2, <1>8
  <2>2. Minted' /\ Newest' /\ Descent' /\ PeersCounted' /\ LoggedOnce'
    BY <1>1, <1>6, <1>12, <2>1, CalmIdentity
  <2>3. ParentsFirst'
    BY <1>1, <1>3 DEF Identity, ParentsFirst
  <2> QED
    BY <2>2, <2>3 DEF Identity
<1>14. Lively' /\ Single' /\ Forward' /\ Hopeless' /\ Unsaved'
  BY <1>1, <1>3, <1>5, <1>6, CalmFates
<1>15. Distinct'
  BY <1>3 DEF Distinct
<1>16. Stored'
  <2>1. Noted' = stored
    BY <1>2, NoMembers DEF Noted
  <2> QED
    BY <1>3, <2>1 DEF Stored
<1>17. Refusals'
  BY <1>1, <1>2, <1>3 DEF Fates, Refusals
<1>18. Answers'
  BY <1>2 DEF Answers
<1>19. Reported'
  BY <1>2, <1>7 DEF Reported
<1> QED
  BY <1>5, <1>6, <1>9, <1>10, <1>11, <1>13, <1>14, <1>15, <1>16, <1>17, <1>18, <1>19 DEF IInv, Fates

\* The client takes a frame from the front of a lane.
Consumed(f) ==
  /\ open /\ f \in ToSet(ops) \cup ToSet(control)
  /\ ops' \in Seq(Frames) /\ ToSet(ops') \subseteq ToSet(ops)
  /\ control' \in Seq(Frames) /\ ToSet(control') \subseteq ToSet(control)
  /\ \/ control' = control /\ f.kind \in {"op", "ack", "reject"}
     \/ control # <<>> /\ f = control[1] /\ control' = Tail(control)
  /\ UNCHANGED <<open, synced, reloads>> /\ Aside

\* This is how every frame is received.
LEMMA ReceivesIs ==
  ASSUME Types, Carried, NEW kind, Receives(kind)
  PROVE  \E f \in Frames : f = Frame /\ f.kind = kind /\ Consumed(f)
<1>1. ops \in Seq(Frames) /\ control \in Seq(Frames)
  BY TypeParts
<1>2. /\ open /\ ops \o control # <<>> /\ Frame.kind = kind
      /\ UNCHANGED <<open, synced, reloads>> /\ Aside
  BY DEF Receives, Frame, Aside, server
<1>3. CASE ops # <<>>
  <2>1. Frame = ops[1] /\ ops[1] \in Frames /\ 1 \in DOMAIN ops /\ ops[1] \in ToSet(ops)
    BY <1>1, <1>3 DEF Frame, ToSet
  <2>2. ops' = Tail(ops) /\ control' = control
    BY <1>3 DEF Receives
  <2>3. ops' \in Seq(Frames) /\ ToSet(ops') \subseteq ToSet(ops)
    BY <1>1, <1>3, <2>2, Queues
  <2>4. ops[1].kind \in {"op", "ack", "reject"}
    BY <2>1 DEF Carried
  <2> QED
    BY <1>1, <1>2, <2>1, <2>2, <2>3, <2>4 DEF Consumed
<1>4. CASE ops = <<>>
  <2>1. ops \o control = control
    BY <1>1, <1>4
  <2>2. control # <<>> /\ Frame = control[1]
    BY <1>1, <1>2, <2>1 DEF Frame
  <2>3. control[1] \in Frames /\ control[1] \in ToSet(control)
    BY <1>1, <2>2 DEF ToSet
  <2>4. control' = Tail(control) /\ ops' = ops
    BY <1>4 DEF Receives
  <2>5. control' \in Seq(Frames) /\ ToSet(control') \subseteq ToSet(control)
    BY <1>1, <2>2, <2>4, Queues
  <2> QED
    BY <1>1, <1>2, <2>2, <2>3, <2>4, <2>5 DEF Consumed
<1> QED
  BY <1>3, <1>4

\* What receiving keeps, whatever is made of the frame: a frame that makes an
\* engine makes that of the connection.
LEMMA ConsumedKeeps ==
  ASSUME IInv, NEW f \in Frames, Consumed(f), Types',
         engine'.replica = IF Renews(f) THEN conn ELSE engine.replica,
         gate' = gate \/ gate' = Append(gate, f),
         ToSet(unacked') \subseteq ToSet(unacked)
  PROVE  /\ Talks' /\ Calm /\ Successions' /\ Renewals' /\ Carried'
         /\ Alone(conn) => Alone(conn)'
         /\ \A g \in ToSet(control') \cup ToSet(gate') : g \in ToSet(control) \cup ToSet(gate)
                                                       \/ g.kind # "have"
<1>1. Types /\ Talks /\ Successions /\ Renewals /\ Carried
  BY DEF IInv
<1>2. Talks' /\ Calm /\ (\A c : Alone(c) => Alone(c)') /\ (Alone(conn) => Alone(conn)')
  BY <1>1, AsideKeeps DEF Consumed
<1>3. /\ conn' = conn /\ open' = open /\ open /\ log' = log /\ session' = session
      /\ control \in Seq(Frames) /\ gate \in Seq(Frames) /\ conn \in Nat /\ conn > 0
  BY <1>1, TypeParts DEF Consumed, Aside, Successions
<1>4. \/ control' = control /\ f.kind \in {"op", "ack", "reject"}
      \/ /\ f = control[1] /\ 1 \in DOMAIN control
         /\ \A i \in DOMAIN control' : i \in Nat /\ i > 0 /\ i + 1 \in DOMAIN control /\ control'[i] = control[i + 1]
         /\ \A i \in DOMAIN control : i \in Nat /\ (i = 1 \/ (i - 1 \in DOMAIN control' /\ i - 1 > 0
                                                            /\ control'[i - 1] = control[i]))
  <2>1. CASE control' = control /\ f.kind \in {"op", "ack", "reject"}
    BY <2>1
  <2>2. CASE control # <<>> /\ f = control[1] /\ control' = Tail(control)
    <3>1. PICK m \in Nat : m = Len(control) /\ m > 0 /\ DOMAIN control = 1..m
      BY <1>3, <2>2
    <3>2. DOMAIN control' = 1..(m - 1) /\ \A i \in 1..(m - 1) : control'[i] = control[i + 1]
      BY <1>3, <2>2, <3>1
    <3>3. 1 \in DOMAIN control
      BY <3>1
    <3>4. \A i \in DOMAIN control' : i \in Nat /\ i > 0 /\ i + 1 \in DOMAIN control /\ control'[i] = control[i + 1]
      BY <3>1, <3>2
    <3>5. \A i \in DOMAIN control : i \in Nat /\ (i = 1 \/ (i - 1 \in DOMAIN control' /\ i - 1 > 0
                                                           /\ control'[i - 1] = control[i]))
      <4> SUFFICES ASSUME NEW i \in 1..m, i # 1
                   PROVE  i - 1 \in 1..(m - 1) /\ i - 1 > 0 /\ control'[i - 1] = control[i]
        BY <3>1, <3>2
      <4>1. PICK j \in 1..(m - 1) : j = i - 1
        BY <3>1
      <4>2. control'[j] = control[j + 1] /\ j + 1 = i
        BY <3>2, <4>1
      <4> QED
        BY <4>1, <4>2
    <3> QED
      BY <2>2, <3>3, <3>4, <3>5
  <2> QED
    BY <2>1, <2>2 DEF Consumed
<1>5. f.kind \in {"op", "ack", "reject"} => ~Renews(f)
  BY DEF Renews
<1>6. \A i \in DOMAIN control' : \E j \in DOMAIN control : control'[i] = control[j]
  BY <1>4
<1>7. \A i \in DOMAIN control : Renews(control[i]) =>
        engine'.replica = conn \/ \E j \in DOMAIN control' : Renews(control'[j])
  BY <1>4
<1>8. engine.replica = conn => engine'.replica = conn
  OBVIOUS
<1>9. Renews(f) => \E i \in DOMAIN control : Renews(control[i])
  BY <1>4, <1>5
<1>10. Successions'
  <2>1. engine'.replica <= conn
    BY <1>1, <1>3 DEF Successions
  <2>2. engine'.replica = conn \/ (\E i \in DOMAIN control' : Renews(control'[i])) => Alone(conn)'
    BY <1>1, <1>2, <1>6, <1>9 DEF Successions
  <2> QED
    BY <1>1, <1>2, <1>3, <2>1, <2>2 DEF Successions, Alone
<1>11. f.kind = "have" => engine.replica = conn
  <2> SUFFICES ASSUME f.kind = "have" PROVE engine.replica = conn
    OBVIOUS
  <2>1. control[1].kind = "have" /\ 1 \in DOMAIN control
    BY <1>4
  <2>2. 1..(1 - 1) = {}
    OBVIOUS
  <2> QED
    BY <1>1, <2>1, <2>2 DEF Renewals
<1>12. Renewals'
  <2>1. open /\ session[conn].stage \in {"checking", "joined"} =>
          engine'.replica = conn \/ \E i \in DOMAIN control' : Renews(control'[i])
    BY <1>1, <1>7, <1>8 DEF Renewals
  <2>2. ASSUME NEW i \in DOMAIN control', control'[i].kind = "have"
        PROVE  engine'.replica = conn \/ \E j \in 1..(i - 1) : Renews(control'[j])
    <3>1. CASE control' = control
      BY <1>1, <1>8, <2>2, <3>1 DEF Renewals
    <3>2. CASE control' # control
      <4>1. i \in Nat /\ i + 1 \in DOMAIN control /\ control[i + 1].kind = "have"
        BY <1>4, <2>2, <3>2
      <4>2. CASE engine.replica = conn
        BY <1>8, <4>2
      <4>3. CASE engine.replica # conn
        <5>1. PICK j \in 1..((i + 1) - 1) : Renews(control[j])
          BY <1>1, <4>1, <4>3 DEF Renewals
        <5>2. j \in DOMAIN control
          BY <1>3, <4>1, <5>1
        <5>3. CASE j = 1
          BY <1>4, <3>2, <5>1, <5>3
        <5>4. CASE j # 1
          <6>1. control'[j - 1] = control[j] /\ j - 1 \in 1..(i - 1)
            BY <1>4, <3>2, <4>1, <5>1, <5>2, <5>4, SMTT(20)
          <6> QED
            BY <5>1, <6>1
        <5> QED
          BY <5>3, <5>4
      <4> QED
        BY <4>2, <4>3
    <3> QED
      BY <3>1, <3>2
  <2>3. ASSUME NEW i \in DOMAIN gate', gate'[i].kind = "have" PROVE engine'.replica = conn
    <3>1. CASE gate' = gate
      BY <1>1, <1>8, <2>3, <3>1 DEF Renewals
    <3>2. CASE gate' = Append(gate, f)
      <4>1. (i \in DOMAIN gate /\ gate'[i] = gate[i]) \/ gate'[i] = f
        BY <1>3, <2>3, <3>2
      <4> QED
        BY <1>1, <1>8, <1>11, <2>3, <4>1 DEF Renewals
    <3> QED
      BY <3>1, <3>2
  <2> QED
    BY <1>3, <2>1, <2>2, <2>3 DEF Renewals
<1>13. ToSet(gate') \subseteq ToSet(gate) \cup {f}
  <2>1. ToSet(Append(gate, f)) = ToSet(gate) \cup {f}
    BY <1>3, Queues
  <2> QED
    BY <2>1
<1>14. Carried'
  <2>1. \A i \in DOMAIN ops' : ops'[i].kind \in {"op", "ack", "reject"}
    <3>1. ASSUME NEW i \in DOMAIN ops' PROVE ops'[i].kind \in {"op", "ack", "reject"}
      <4>1. ops'[i] \in ToSet(ops')
        BY DEF ToSet
      <4>2. PICK j \in DOMAIN ops : ops'[i] = ops[j]
        BY <4>1 DEF Consumed, ToSet
      <4> QED
        BY <1>1, <4>2 DEF Carried
    <3> QED
      BY <3>1
  <2>2. \A g \in ToSet(ops') \cup ToSet(control') \cup ToSet(gate') :
          g \in ToSet(ops) \cup ToSet(control) \cup ToSet(gate)
    BY <1>13 DEF Consumed
  <2>3. \A g : Told(g) => Told(g)'
    BY <1>3 DEF Told
  <2> QED
    BY <1>1, <1>3, <2>1, <2>2, <2>3 DEF Carried
<1>15. \A g \in ToSet(control') \cup ToSet(gate') : g \in ToSet(control) \cup ToSet(gate) \/ g.kind # "have"
  <2>1. f \in ToSet(control) \/ f.kind # "have"
    BY <1>1 DEF Consumed, Carried, ToSet
  <2> QED
    BY <1>13, <2>1 DEF Consumed
<1> QED
  BY <1>2, <1>10, <1>12, <1>14, <1>15

\* A frame that changes the engine at most, or waits its turn.
LEMMA ConsumedStep ==
  ASSUME IInv, NEW f \in Frames, Consumed(f), Types', Fed,
         engine'.replica = IF Renews(f) THEN conn ELSE engine.replica,
         gate' = gate \/ gate' = Append(gate, f),
         UNCHANGED <<unacked, helloUnacked, rejected, durable>>
  PROVE  IInv'
<1>1. Types /\ Successions /\ Fates
  BY DEF IInv
<1>2. /\ Talks' /\ Calm /\ Successions' /\ Renewals' /\ Carried'
      /\ Alone(conn) => Alone(conn)'
      /\ \A g \in ToSet(control') \cup ToSet(gate') : g \in ToSet(control) \cup ToSet(gate) \/ g.kind # "have"
  BY ConsumedKeeps
<1>3. conn' = conn /\ open' = open /\ log' = log /\ session' = session /\ typed' = typed /\ up' = up
      /\ conn \in 0..MaxConnections /\ unacked' = unacked /\ helloUnacked' = helloUnacked
  BY <1>1, TypeParts DEF Consumed, Aside
<1>4. /\ Identity'
      /\ Lively' /\ Single' /\ Forward' /\ Hopeless' /\ Distinct' /\ Unsaved' /\ Stored' /\ Refusals'
  <2>1. conn' >= conn
    BY <1>3
  <2> QED
    BY <1>2, <2>1, CalmKeeps
<1>5. Answers'
  <2>1. open => conn \in Connections
    BY <1>1, <1>3, Bounds DEF Successions, Connections
  <2>2. \A g \in ToSet(ops') \cup ToSet(control') : g \in ToSet(ops) \cup ToSet(control)
    BY DEF Consumed
  <2> QED
    BY <1>1, <1>2, <1>3, <2>1, <2>2, CalmAnswers DEF Fates
<1>6. Reported'
  <2>1. \A g : Had(g) => Had(g)'
    BY <1>2, <1>3 DEF Had
  <2>2. \A g \in ToSet(control) \cup ToSet(gate) : g.kind = "have" => Had(g)
    BY <1>1 DEF Fates, Reported
  <2>3. \A g \in ToSet(control') \cup ToSet(gate') : g.kind = "have" => Had(g)'
    BY <1>2, <2>1, <2>2
  <2>4. /\ \A k \in helloUnacked : k[2] < conn /\ k[1] \in 1..typed
        /\ open /\ session[conn].stage \in {"catchup", "checking"} => session[conn].unacked = helloUnacked
        /\ open /\ session[conn].stage = "open" => up[conn][1].unacked = helloUnacked
    BY <1>1 DEF Fates, Reported
  <2> QED
    BY <1>3, <2>3, <2>4 DEF Reported
<1> QED
  BY <1>2, <1>4, <1>5, <1>6 DEF IInv, Fates

\* The types, once a frame was received.
LEMMA ConsumedTypes ==
  ASSUME Types, NEW f \in Frames, Consumed(f), helloUnacked' = helloUnacked,
         engine' \in Engine, gate' = gate \/ gate' = Append(gate, f), unacked' \in Seq(Operations),
         seqs' \in Seqs, IsFiniteSet(seqs'.confirmed), IsFiniteSet(seqs'.livePending),
         rejected' \in SUBSET Operations,
         stored' \in SUBSET Rows, unstored' \in SUBSET Rows, flushing' \in Seq(Transactions)
  PROVE  Types'
<1>1. gate' \in Seq(Frames)
  <2>1. gate \in Seq(Frames)
    BY TypeParts
  <2>2. Append(gate, f) \in Seq(Frames)
    BY <2>1
  <2> QED
    BY <2>1, <2>2
<1> QED
  BY <1>1, TypeParts, TypePartsNext DEF Consumed, Aside

\* An engine made from the clean base holds what the engine before it held.
LEMMA RebuildIs ==
  ASSUME Types, Rebuild
  PROVE  /\ engine' \in Engine /\ engine'.replica = conn /\ Fed
         /\ seqs' \in Seqs /\ IsFiniteSet(seqs'.confirmed) /\ IsFiniteSet(seqs'.livePending)
<1>1. conn \in 0..MaxConnections /\ engine \in Engine /\ seqs \in Seqs
  BY TypeParts
<1>2. PICK base \in SUBSET Operations : base = CleanCatchupBase(engine.nodes, unacked) /\ base \subseteq engine.nodes
  <2>1. CleanCatchupBase(engine.nodes, unacked) \subseteq engine.nodes
    BY DEF CleanCatchupBase
  <2>2. engine.nodes \in SUBSET Operations
    BY <1>1 DEF Engine
  <2> QED
    BY <2>1, <2>2
<1>3. engine' = Seeded(conn, base)
  BY <1>2 DEF Rebuild
<1>4. engine' \in Engine /\ engine'.replica = conn /\ engine'.nodes \cup engine'.pending = base
  BY <1>1, <1>3, SeededIs DEF Engine
<1>5. seqs.applied \in Nat
  BY <1>1 DEF Seqs
<1> QED
  BY <1>2, <1>4, <1>5, ResetSeqsType DEF Rebuild, Fed

\* WELCOME, which makes the engine when the client is up to date.
LEMMA WelcomeStep ==
  ASSUME IInv, ReceiveWelcome
  PROVE  IInv'
<1>1. Types /\ Carried
  BY DEF IInv
<1>2. PICK f \in Frames : f = Frame /\ f.kind = "welcome" /\ Consumed(f)
  BY <1>1, ReceivesIs DEF ReceiveWelcome
<1>3. /\ unacked' = unacked /\ helloUnacked' = helloUnacked /\ gate' = gate /\ rejected' = rejected
      /\ stored' = stored /\ flushing' = flushing /\ unstored' = unstored
      /\ IF Renews(f) THEN Rebuild ELSE engine' = engine /\ seqs' = seqs
  BY <1>2 DEF ReceiveWelcome, durable, Renews
<1>4. /\ engine' \in Engine /\ engine'.replica = (IF Renews(f) THEN conn ELSE engine.replica) /\ Fed
      /\ seqs' \in Seqs /\ IsFiniteSet(seqs'.confirmed) /\ IsFiniteSet(seqs'.livePending)
  <2>1. CASE Renews(f)
    BY <1>1, <1>3, <2>1, RebuildIs
  <2>2. CASE ~Renews(f)
    BY <1>1, <1>3, <2>2, TypeParts DEF Fed
  <2> QED
    BY <2>1, <2>2
<1>5. Types'
  BY <1>1, <1>2, <1>3, <1>4, ConsumedTypes, TypeParts
<1> QED
  BY <1>2, <1>3, <1>4, <1>5, ConsumedStep DEF durable

\* A catch-up begins, and makes the engine.
LEMMA BeginStep ==
  ASSUME IInv, ReceiveBegin
  PROVE  IInv'
<1>1. Types /\ Carried
  BY DEF IInv
<1>2. PICK f \in Frames : f = Frame /\ f.kind = "begin" /\ Consumed(f)
  BY <1>1, ReceivesIs DEF ReceiveBegin
<1>3. /\ unacked' = unacked /\ helloUnacked' = helloUnacked /\ gate' = gate /\ rejected' = rejected
      /\ stored' = stored /\ flushing' = flushing /\ unstored' = unstored /\ Rebuild /\ Renews(f)
  BY <1>2 DEF ReceiveBegin, durable, Renews
<1>4. /\ engine' \in Engine /\ engine'.replica = conn /\ Fed
      /\ seqs' \in Seqs /\ IsFiniteSet(seqs'.confirmed) /\ IsFiniteSet(seqs'.livePending)
  BY <1>1, <1>3, RebuildIs
<1>5. Types'
  BY <1>1, <1>2, <1>3, <1>4, ConsumedTypes, TypeParts
<1> QED
  BY <1>2, <1>3, <1>4, <1>5, ConsumedStep DEF durable

\* A snapshot makes the engine of what is in the log.
LEMMA SnapshotStep ==
  ASSUME IInv, ReceiveSnapshot
  PROVE  IInv'
<1>1. Types /\ Carried
  BY DEF IInv
<1>2. PICK f \in Frames : f = Frame /\ f.kind = "snapshot" /\ Consumed(f)
  BY <1>1, ReceivesIs DEF ReceiveSnapshot
<1>3. /\ unacked' = unacked /\ helloUnacked' = helloUnacked /\ gate' = gate /\ rejected' = rejected
      /\ stored' = stored /\ flushing' = flushing /\ unstored' = unstored /\ Renews(f)
      /\ engine' = Seeded(conn, f.nodes) /\ seqs' = ResetSeqs(f.seq)
  BY <1>2 DEF ReceiveSnapshot, durable, Renews
<1>4. f.nodes \in SUBSET Operations /\ f.seq \in Nat /\ f.nodes \subseteq ToSet(log)
  BY <1>1, <1>2, FrameFields DEF Carried, Told, Consumed
<1>5. engine' \in Engine /\ engine'.replica = conn /\ Fed
  <2>1. conn \in 0..MaxConnections
    BY <1>1, TypeParts
  <2>2. PICK nodes \in SUBSET Operations : nodes = f.nodes
    BY <1>4
  <2>3. engine' \in Engine /\ engine'.replica = conn /\ engine'.nodes \cup engine'.pending = nodes
    BY <1>3, <2>1, <2>2, SeededIs DEF Engine
  <2> QED
    BY <1>4, <2>2, <2>3 DEF Fed
<1>6. seqs' \in Seqs /\ IsFiniteSet(seqs'.confirmed) /\ IsFiniteSet(seqs'.livePending)
  BY <1>3, <1>4, ResetSeqsType
<1>7. Types'
  BY <1>1, <1>2, <1>3, <1>5, <1>6, ConsumedTypes, TypeParts
<1> QED
  BY <1>2, <1>3, <1>5, <1>7, ConsumedStep DEF durable

\* A chunk, the end of the catch-up and ALREADY_HAVE wait for their turn.
LEMMA ChainedStep ==
  ASSUME IInv, ReceiveChained
  PROVE  IInv'
<1>1. Types /\ Carried
  BY DEF IInv
<1>2. PICK f \in Frames : f = Frame /\ f.kind \in {"chunk", "end", "have"} /\ Consumed(f)
  BY <1>1, ReceivesIs DEF ReceiveChained
<1>3. /\ unacked' = unacked /\ helloUnacked' = helloUnacked /\ rejected' = rejected
      /\ stored' = stored /\ flushing' = flushing /\ unstored' = unstored /\ engine' = engine /\ seqs' = seqs
      /\ gate' = Append(gate, f)
  BY <1>2 DEF ReceiveChained, durable
<1>4. ~Renews(f) /\ Fed
  BY <1>2, <1>3 DEF Renews, Fed
<1>5. Types'
  BY <1>1, <1>2, <1>3, ConsumedTypes, TypeParts
<1> QED
  BY <1>2, <1>3, <1>4, <1>5, ConsumedStep DEF durable

\* An operation of the log is applied, if there is an engine.
LEMMA OperationStep ==
  ASSUME IInv, ReceiveOp
  PROVE  IInv'
<1>1. Types /\ Carried
  BY DEF IInv
<1>2. PICK f \in Frames : f = Frame /\ f.kind = "op" /\ Consumed(f)
  BY <1>1, ReceivesIs DEF ReceiveOp
<1>3. f.op \in Operations /\ f.seq \in Nat /\ f.op \in ToSet(log)
  BY <1>1, <1>2, FrameFields DEF Carried, Told, Consumed
<1>4. engine \in Engine /\ seqs \in Seqs /\ IsFiniteSet(seqs.confirmed) /\ IsFiniteSet(seqs.livePending)
  BY <1>1, TypeParts
<1> DEFINE noted(e) == IF f.op \in e.pending
                       THEN [seqs EXCEPT !.livePending = @ \cup {[seq |-> f.seq, op |-> f.op]}]
                       ELSE [seqs EXCEPT !.confirmed = @ \cup {f.seq}]
<1>5. /\ unacked' = unacked /\ helloUnacked' = helloUnacked /\ rejected' = rejected /\ gate' = gate
      /\ stored' = stored /\ flushing' = flushing /\ unstored' = unstored
      /\ engine' = IF HasEngine THEN ApplyAll(engine, {f.op}) ELSE engine
      /\ seqs' = IF HasEngine THEN AdvanceLiveSeqCeiling(noted(ApplyAll(engine, {f.op})), ApplyAll(engine, {f.op}))
                 ELSE seqs
  BY <1>2 DEF ReceiveOp, durable
<1>6. engine' \in Engine /\ engine'.replica = engine.replica /\ Fed
  <2>1. {f.op} \in SUBSET Operations
    BY <1>3
  <2>2. /\ ApplyAll(engine, {f.op}) \in Engine /\ ApplyAll(engine, {f.op}).replica = engine.replica
        /\ ApplyAll(engine, {f.op}).nodes \cup ApplyAll(engine, {f.op}).pending =
             engine.nodes \cup engine.pending \cup {f.op}
    BY <1>4, <2>1, ApplyAllIs DEF Engine
  <2> QED
    BY <1>3, <1>4, <1>5, <2>2 DEF Fed
<1>7. seqs' \in Seqs /\ IsFiniteSet(seqs'.confirmed) /\ IsFiniteSet(seqs'.livePending)
  <2>1. ASSUME NEW e
        PROVE  noted(e) \in Seqs /\ IsFiniteSet(noted(e).confirmed) /\ IsFiniteSet(noted(e).livePending)
    <3>1. IsFiniteSet(seqs.confirmed \cup {f.seq}) /\ IsFiniteSet(seqs.livePending \cup {[seq |-> f.seq, op |-> f.op]})
      BY <1>4, FS_AddElement
    <3>2. [seq |-> f.seq, op |-> f.op] \in Numbered
      BY <1>3 DEF Numbered
    <3>3. /\ [seqs EXCEPT !.livePending = @ \cup {[seq |-> f.seq, op |-> f.op]}] \in Seqs
          /\ [seqs EXCEPT !.confirmed = @ \cup {f.seq}] \in Seqs
      BY <1>3, <1>4, <3>2 DEF Seqs
    <3>4. /\ [seqs EXCEPT !.livePending = @ \cup {[seq |-> f.seq, op |-> f.op]}].confirmed = seqs.confirmed
          /\ [seqs EXCEPT !.livePending = @ \cup {[seq |-> f.seq, op |-> f.op]}].livePending =
               seqs.livePending \cup {[seq |-> f.seq, op |-> f.op]}
          /\ [seqs EXCEPT !.confirmed = @ \cup {f.seq}].confirmed = seqs.confirmed \cup {f.seq}
          /\ [seqs EXCEPT !.confirmed = @ \cup {f.seq}].livePending = seqs.livePending
      BY <1>4 DEF Seqs
    <3> QED
      BY <1>4, <3>1, <3>3, <3>4
  <2> HIDE DEF noted
  <2>2. \A e : /\ AdvanceLiveSeqCeiling(noted(e), e) \in Seqs
               /\ IsFiniteSet(AdvanceLiveSeqCeiling(noted(e), e).confirmed)
               /\ IsFiniteSet(AdvanceLiveSeqCeiling(noted(e), e).livePending)
    BY <2>1, AdvanceType
  <2> QED
    BY <1>4, <1>5, <2>2
<1>8. ~Renews(f)
  BY <1>2 DEF Renews
<1>9. Types'
  BY <1>1, <1>2, <1>5, <1>6, <1>7, ConsumedTypes, TypeParts
<1> QED
  BY <1>2, <1>5, <1>6, <1>8, <1>9, ConsumedStep DEF durable

\* Queued operations of one edit are one operation.
LEMMA OnceQueued ==
  ASSUME Distinct, NEW a \in ToSet(unacked), NEW b \in ToSet(unacked), a.id[1] = b.id[1]
  PROVE  a = b
<1>1. PICK i \in DOMAIN unacked, j \in DOMAIN unacked : a = unacked[i] /\ b = unacked[j]
  BY DEF ToSet
<1> QED
  BY <1>1 DEF Distinct

\* What an answer to an operation keeps, whatever the answer is: some of the
\* queue is dropped.
LEMMA AnsweredKeeps ==
  ASSUME IInv, NEW f \in Frames, Consumed(f), Types', NEW S, unacked' = Dropped(unacked, S),
         helloUnacked' = helloUnacked, gate' = gate, engine'.replica = engine.replica, ~Renews(f),
         engine'.nodes \subseteq engine.nodes, engine'.pending = engine.pending
  PROVE  /\ Talks' /\ Calm /\ Successions' /\ Renewals' /\ Carried' /\ Identity'
         /\ Single' /\ Forward' /\ Hopeless' /\ Distinct' /\ Reported'
         /\ rejected' = rejected => Lively' /\ Unsaved'
<1>1. Types /\ Identity /\ Fates
  BY DEF IInv
<1>2. unacked \in Seq(Operations)
  BY <1>1, TypeParts
<1>3. ToSet(unacked') = ToSet(unacked) \ S
      /\ \E from : KeptFrom(unacked, ToSet(unacked) \ S, unacked', from)
  BY <1>2, DroppedIs
<1>4. /\ Talks' /\ Calm /\ Successions' /\ Renewals' /\ Carried'
      /\ Alone(conn) => Alone(conn)'
      /\ \A g \in ToSet(control') \cup ToSet(gate') : g \in ToSet(control) \cup ToSet(gate) \/ g.kind # "have"
  BY <1>3, ConsumedKeeps
<1>5. conn' = conn /\ open' = open /\ log' = log /\ session' = session /\ typed' = typed /\ up' = up
      /\ conn \in Nat
  BY <1>1, TypeParts DEF Consumed, Aside
<1>6. PICK from : KeptFrom(unacked, ToSet(unacked) \ S, unacked', from)
  BY <1>3
<1>7. unacked' \in Seq(Operations)
  BY TypePartsNext
<1>8. PICK q \in Seq(Operations) : q = unacked'
  BY <1>7
<1>9. \A i \in DOMAIN q : i \in Int /\ from[i] \in DOMAIN unacked /\ from[i] \in Int /\ q[i] = unacked[from[i]]
  BY <1>2, <1>6, <1>8 DEF KeptFrom
<1>10. \A i, j \in DOMAIN q : i < j => from[i] < from[j]
  BY <1>6, <1>8 DEF KeptFrom
<1>11. Distinct'
  <2>1. \A i, j \in DOMAIN q : i # j => q[i].id[1] # q[j].id[1]
    <3> SUFFICES ASSUME NEW i \in DOMAIN q, NEW j \in DOMAIN q, i # j PROVE q[i].id[1] # q[j].id[1]
      OBVIOUS
    <3>1. from[i] # from[j]
      BY <1>9, <1>10
    <3> QED
      BY <1>1, <1>9, <3>1 DEF Fates, Distinct
  <2> QED
    BY <1>8, <2>1 DEF Distinct
<1>12. ParentsFirst'
  <2>1. \A i, j \in DOMAIN q : q[i].parent = q[j].id => j < i
    <3> SUFFICES ASSUME NEW i \in DOMAIN q, NEW j \in DOMAIN q, q[i].parent = q[j].id PROVE j < i
      OBVIOUS
    <3>1. from[j] < from[i]
      BY <1>1, <1>9 DEF Identity, ParentsFirst
    <3> QED
      BY <1>9, <1>10, <3>1
  <2>2. \A o, p \in ToSet(unacked') : o.parent[1] = p.id[1] => o.parent[2] <= p.id[2]
    BY <1>1, <1>3 DEF Identity, ParentsFirst
  <2> QED
    BY <1>8, <2>1, <2>2 DEF ParentsFirst
<1>13. Identity'
  <2>1. Fed /\ conn' \in Nat /\ conn' >= conn
    BY <1>5 DEF Fed
  <2> QED
    BY <1>1, <1>4, <1>12, <2>1, CalmIdentity DEF Identity
<1>14. Single' /\ Forward' /\ Hopeless' /\ (rejected' = rejected => Lively' /\ Unsaved')
  BY <1>1, <1>4, CalmFates
<1>15. Reported'
  <2>1. \A g : Had(g) => Had(g)'
    BY <1>3, <1>4, <1>5 DEF Had
  <2>2. \A g \in ToSet(control) \cup ToSet(gate) : g.kind = "have" => Had(g)
    BY <1>1 DEF Fates, Reported
  <2>3. \A g \in ToSet(control') \cup ToSet(gate') : g.kind = "have" => Had(g)'
    BY <1>4, <2>1, <2>2
  <2>4. /\ \A k \in helloUnacked : k[2] < conn /\ k[1] \in 1..typed
        /\ open /\ session[conn].stage \in {"catchup", "checking"} => session[conn].unacked = helloUnacked
        /\ open /\ session[conn].stage = "open" => up[conn][1].unacked = helloUnacked
    BY <1>1 DEF Fates, Reported
  <2> QED
    BY <1>5, <2>3, <2>4 DEF Reported
<1> QED
  BY <1>4, <1>11, <1>13, <1>14, <1>15

\* Transactions that put what was waiting, and rows that wait now: what is noted
\* was noted before or is new.
LEMMA RowsWritten ==
  ASSUME Types, NEW transactions \in Seq(Transactions), NEW waiting \in SUBSET Rows,
         NEW new \in SUBSET Rows, waiting \subseteq unstored \cup new,
         \A t \in ToSet(transactions) : t.put \subseteq unstored,
         WriteRows(transactions, waiting)
  PROVE  /\ stored' \in SUBSET Rows /\ unstored' \in SUBSET Rows /\ flushing' \in Seq(Transactions)
         /\ Noted' \subseteq Noted \cup new
<1>1. stored \in SUBSET Rows /\ unstored \in SUBSET Rows /\ flushing \in Seq(Transactions)
  BY TypeParts
<1>2. CASE PageMayClose
  <2>1. stored' = stored /\ unstored' = waiting /\ flushing' = flushing \o transactions
    BY <1>2 DEF WriteRows
  <2>2. ToSet(flushing') = ToSet(flushing) \cup ToSet(transactions)
    BY <1>1, <2>1, Joins
  <2>3. Noted' \subseteq Noted \cup new
    BY <2>1, <2>2 DEF Noted
  <2> QED
    BY <1>1, <2>1, <2>3
<1>3. CASE ~PageMayClose
  <2>1. stored' = stored /\ unstored' = unstored /\ flushing' = flushing
    BY <1>3 DEF WriteRows, durable
  <2> QED
    BY <1>1, <2>1 DEF Noted
<1> QED
  BY <1>2, <1>3

\* A transaction of rows and removals.
LEMMA TransactionIs ==
  ASSUME NEW put \in SUBSET Rows, NEW removed \in SUBSET Ids
  PROVE  Transaction(put, removed) \in Transactions /\ Transaction(put, removed).put = put
<1>1. Transaction(put, removed) = [put |-> put, removed |-> removed]
  BY DEF Transaction
<1>2. [put |-> put, removed |-> removed] \in Transactions
  BY DEF Transactions
<1> QED
  BY <1>1, <1>2

\* The removal of one operation takes the rows that wait along.
LEMMA OneRemoval ==
  ASSUME Types, NEW id \in Ids
  PROVE  /\ <<Transaction(unstored, {id})>> \in Seq(Transactions)
         /\ \A t \in ToSet(<<Transaction(unstored, {id})>>) : t.put \subseteq unstored
<1>1. unstored \in SUBSET Rows
  BY TypeParts
<1>2. PICK t \in Transactions : t = Transaction(unstored, {id}) /\ t.put = unstored
  <2>1. {id} \in SUBSET Ids
    OBVIOUS
  <2> QED
    BY <1>1, <2>1, TransactionIs
<1>3. <<t>> \in Seq(Transactions) /\ ToSet(<<t>>) = {t}
  BY DEF ToSet
<1> QED
  BY <1>2, <1>3

\* An acknowledged operation leaves the queue, and its row is to leave with it.
LEMMA AckStep ==
  ASSUME IInv, ReceiveAck
  PROVE  IInv'
<1>1. Types /\ Successions /\ Carried /\ Identity /\ Fates
  BY DEF IInv
<1>2. PICK f \in Frames : f = Frame /\ f.kind = "ack" /\ Consumed(f)
  BY <1>1, ReceivesIs DEF ReceiveAck
<1>3. PICK S : S = {op \in ToSet(unacked) : op.id = f.id}
  OBVIOUS
<1>4. /\ unacked' = Dropped(unacked, S) /\ helloUnacked' = helloUnacked /\ rejected' = rejected
      /\ gate' = gate /\ engine' = engine
      /\ WriteRows(<<Transaction(unstored, {f.id})>>, {})
      /\ seqs' = AdvanceLiveSeqCeiling([seqs EXCEPT !.confirmed = @ \cup {f.seq}], engine)
  BY <1>2, <1>3 DEF ReceiveAck, Without
<1>5. f.id \in Ids /\ f.seq \in Nat /\ f.id \in IdsOf(ToSet(log))
  BY <1>1, <1>2, FrameFields DEF Carried, Told, Consumed
<1>6. unacked \in Seq(Operations) /\ seqs \in Seqs /\ IsFiniteSet(seqs.confirmed) /\ IsFiniteSet(seqs.livePending)
  BY <1>1, TypeParts
<1>7. ToSet(unacked') = ToSet(unacked) \ S /\ unacked' \in Seq(Operations)
  BY <1>4, <1>6, DroppedIs
<1>8. seqs' \in Seqs /\ IsFiniteSet(seqs'.confirmed) /\ IsFiniteSet(seqs'.livePending)
  <2>1. IsFiniteSet(seqs.confirmed \cup {f.seq})
    BY <1>6, FS_AddElement
  <2>2. PICK noted \in Seqs : /\ noted = [seqs EXCEPT !.confirmed = @ \cup {f.seq}]
                              /\ IsFiniteSet(noted.confirmed) /\ IsFiniteSet(noted.livePending)
    <3>1. [seqs EXCEPT !.confirmed = @ \cup {f.seq}] \in Seqs
      BY <1>5, <1>6 DEF Seqs
    <3>2. /\ [seqs EXCEPT !.confirmed = @ \cup {f.seq}].confirmed = seqs.confirmed \cup {f.seq}
          /\ [seqs EXCEPT !.confirmed = @ \cup {f.seq}].livePending = seqs.livePending
      BY <1>6 DEF Seqs
    <3> QED
      BY <1>6, <2>1, <3>1, <3>2
  <2> QED
    BY <1>4, <2>2, AdvanceType
<1>9. Types' /\ Noted' \subseteq Noted
  <2>1. /\ stored' \in SUBSET Rows /\ unstored' \in SUBSET Rows /\ flushing' \in Seq(Transactions)
        /\ Noted' \subseteq Noted \cup {}
    <3>1. PICK transactions \in Seq(Transactions) :
            /\ transactions = <<Transaction(unstored, {f.id})>>
            /\ \A t \in ToSet(transactions) : t.put \subseteq unstored
      BY <1>1, <1>5, OneRemoval
    <3>2. {} \in SUBSET Rows /\ {} \subseteq unstored \cup {}
      OBVIOUS
    <3> QED
      BY <1>1, <1>4, <3>1, <3>2, RowsWritten
  <2>2. rejected' \in SUBSET Operations /\ engine' \in Engine
    BY <1>1, <1>4, TypeParts
  <2> QED
    BY <1>1, <1>2, <1>4, <1>7, <1>8, <2>1, <2>2, ConsumedTypes
<1>10. /\ Talks' /\ Calm /\ Successions' /\ Renewals' /\ Carried' /\ Identity'
       /\ Single' /\ Forward' /\ Hopeless' /\ Distinct' /\ Reported'
       /\ Lively' /\ Unsaved'
  <2>1. ~Renews(f)
    BY <1>2 DEF Renews
  <2> QED
    BY <1>2, <1>4, <1>9, <2>1, AnsweredKeeps
<1>11. Stored'
  BY <1>1, <1>4, <1>9 DEF Fates, Stored
<1>12. Refusals'
  BY <1>1, <1>2, <1>4 DEF Fates, Refusals, Consumed, Aside
<1>13. ASSUME NEW o, Awaited(o) PROVE AwaitedNext(o)
  <2>1. log' = log
    BY <1>2 DEF Consumed, Aside
  <2>2. EditsOf(ToSet(unacked')) \subseteq EditsOf(ToSet(unacked))
    BY <1>7 DEF EditsOf
  <2>3. CASE o \in ToSet(unacked) /\ o \in S
    <3>1. o.id[1] \in EditsOf(ToSet(log))
      BY <1>3, <1>5, <2>3 DEF EditsOf, IdsOf
    <3>2. o.id[1] \notin EditsOf(ToSet(unacked'))
      <4> SUFFICES ASSUME NEW p \in ToSet(unacked'), p.id[1] = o.id[1] PROVE FALSE
        BY DEF EditsOf
      <4>1. p = o
        BY <1>1, <1>7, <2>3, OnceQueued DEF Fates
      <4> QED
        BY <1>7, <2>3, <4>1
    <3> QED
      BY <2>1, <3>1, <3>2 DEF AwaitedNext, EditsOf
  <2>4. CASE o \in ToSet(unacked) /\ o \notin S
    BY <1>7, <2>4 DEF AwaitedNext
  <2>5. CASE o \notin ToSet(unacked)
    BY <1>4, <1>13, <2>1, <2>2, <2>5 DEF Awaited, AwaitedNext
  <2> QED
    BY <2>3, <2>4, <2>5
<1>14. Answers'
  <2>1. open => conn \in Connections
    BY <1>1, TypeParts, Bounds DEF Successions, Connections
  <2>2. \A g \in ToSet(ops') \cup ToSet(control') : g \in ToSet(ops) \cup ToSet(control)
    BY <1>2 DEF Consumed
  <2>3. UNCHANGED <<helloUnacked, conn, open, typed>> /\ parked' = parked
    BY <1>2, <1>4 DEF Consumed, Aside
  <2>4. Fewer
    BY <1>10 DEF Calm
  <2> QED
    BY <1>1, <1>13, <2>1, <2>2, <2>3, <2>4, AnswersOn DEF Fates
<1> QED
  BY <1>9, <1>10, <1>11, <1>12, <1>14 DEF IInv, Fates

\* A rejected operation leaves the queue and is preserved.
LEMMA RejectStep ==
  ASSUME IInv, ReceiveReject
  PROVE  IInv'
<1>1. Types /\ Successions /\ Carried /\ Identity /\ Fates
  BY DEF IInv
<1>2. PICK f \in Frames : f = Frame /\ f.kind = "reject" /\ Consumed(f)
  BY <1>1, ReceivesIs DEF ReceiveReject
<1>3. PICK op \in Operations : op = f.op
  BY <1>2, FrameFields
<1>4. PICK S : S = {o \in ToSet(unacked) : o.id = op.id}
  OBVIOUS
<1>5. /\ unacked' = Dropped(unacked, S) /\ helloUnacked' = helloUnacked /\ rejected' = rejected \cup {op}
      /\ gate' = gate /\ engine' = Reverted(engine, op) /\ seqs' = seqs
      /\ WriteRows(<<Transaction(unstored, {op.id})>>, {RejectedRow(op)})
  BY <1>2, <1>3, <1>4 DEF ReceiveReject, Without, PreserveRejected
<1>6. unacked \in Seq(Operations) /\ engine \in Engine
  BY <1>1, TypeParts
<1>7. ToSet(unacked') = ToSet(unacked) \ S /\ unacked' \in Seq(Operations)
  BY <1>5, <1>6, DroppedIs
<1>8. engine' \in Engine /\ engine'.replica = engine.replica
      /\ engine'.nodes \subseteq engine.nodes /\ engine'.pending = engine.pending
  <2>1. engine' = engine \/ engine' = [engine EXCEPT !.nodes = @ \ {op}]
    BY <1>5 DEF Reverted
  <2>2. /\ [engine EXCEPT !.nodes = @ \ {op}] \in Engine
        /\ [engine EXCEPT !.nodes = @ \ {op}].replica = engine.replica
        /\ [engine EXCEPT !.nodes = @ \ {op}].nodes = engine.nodes \ {op}
        /\ [engine EXCEPT !.nodes = @ \ {op}].pending = engine.pending
    BY <1>6 DEF Engine
  <2> QED
    BY <1>6, <2>1, <2>2
<1>9. Types' /\ Noted' \subseteq Noted \cup {RejectedRow(op)}
  <2>1. {RejectedRow(op)} \in SUBSET Rows /\ op.id \in Ids
    BY OperationFields DEF RejectedRow, Rows
  <2>2. /\ stored' \in SUBSET Rows /\ unstored' \in SUBSET Rows /\ flushing' \in Seq(Transactions)
        /\ Noted' \subseteq Noted \cup {RejectedRow(op)}
    BY <1>1, <1>5, <2>1, OneRemoval, RowsWritten
  <2>3. rejected' \in SUBSET Operations /\ seqs' \in Seqs /\ IsFiniteSet(seqs'.confirmed) /\ IsFiniteSet(seqs'.livePending)
    BY <1>1, <1>5, TypeParts
  <2> QED
    BY <1>1, <1>2, <1>5, <1>7, <1>8, <2>2, <2>3, ConsumedTypes
<1>10. /\ Talks' /\ Calm /\ Successions' /\ Renewals' /\ Carried' /\ Identity'
       /\ Single' /\ Forward' /\ Hopeless' /\ Distinct' /\ Reported'
  <2>1. ~Renews(f)
    BY <1>2 DEF Renews
  <2> QED
    BY <1>2, <1>5, <1>8, <1>9, <2>1, AnsweredKeeps
<1>11. log' = log /\ parked' = parked /\ session' = session /\ up' = up /\ typed' = typed
       /\ conn' = conn /\ open' = open /\ open
  BY <1>2 DEF Consumed, Aside
<1>12. /\ Awaited(op) /\ op.id[1] \in 1..typed
       /\ \A n \in Connections : \A i \in LiveAt(n) : up[n][i].op.id[1] # op.id[1]
  <2>1. f \in ToSet(ops) \cup ToSet(control)
    BY <1>2 DEF Consumed
  <2> QED
    BY <1>1, <1>2, <1>3, <1>11, <2>1 DEF Fates, Answers, Answerable
<1>13. \A o \in ToSet(unacked) : o.id[1] = op.id[1] <=> o = op
  <2> SUFFICES ASSUME NEW o \in ToSet(unacked), o.id[1] = op.id[1] PROVE o = op
    OBVIOUS
  <2>1. o.id[1] \in EditsOf(ToSet(unacked))
    BY DEF EditsOf
  <2>2. op \in ToSet(unacked)
    BY <1>12, <2>1 DEF Awaited
  <2> QED
    BY <1>1, <2>2, OnceQueued DEF Fates
<1>14. \A o : o \in ToSet(unacked') <=> o \in ToSet(unacked) /\ o # op
  BY <1>4, <1>7, <1>13
<1>15. EditsOf(rejected') = EditsOf(rejected) \cup {op.id[1]}
  BY <1>5 DEF EditsOf
<1>16. op.id[1] \notin EditsOf(ToSet(unacked')) /\ EditsOf(ToSet(unacked')) \subseteq EditsOf(ToSet(unacked))
  BY <1>13, <1>14 DEF EditsOf
<1>17. Lively'
  <2>1. \A n \in Connections : \A i \in LiveAt(n) :
          /\ up[n][i].op.id[1] \notin EditsOf(ToSet(log))
          /\ up[n][i].op.id[1] \notin EditsOf(rejected) \cup {op.id[1]}
          /\ up[n][i].op.id \notin IdsOf(parked)
    BY <1>1, <1>12 DEF Fates, Lively, EditsOf
  <2>2. \A n : LiveAt(n)' = LiveAt(n)
    BY <1>11 DEF LiveAt, OpsAt
  <2>3. \A k : k \in EditsOf(ToSet(log) \cup rejected)' => k \in EditsOf(ToSet(log)) \/ k \in EditsOf(rejected')
    BY <1>11 DEF EditsOf
  <2> QED
    BY <1>11, <1>15, <2>1, <2>2, <2>3 DEF Lively, IdsOf
<1>18. Unsaved'
  <2> SUFFICES ASSUME NEW o \in ToSet(unacked')
               PROVE  /\ o.id[1] \in EditsOf(ToSet(log)) => o.id \in IdsOf(ToSet(log))
                      /\ o.id[1] \notin EditsOf(rejected')
                      /\ \A n \in Connections : \A i \in LiveAt(n) :
                           up[n][i].op.id[1] = o.id[1] => up[n][i].op.id = o.id
    BY <1>11 DEF Unsaved, LiveAt, OpsAt
  <2>1. o \in ToSet(unacked) /\ o.id[1] # op.id[1]
    BY <1>13, <1>14
  <2> QED
    BY <1>1, <1>15, <2>1 DEF Fates, Unsaved
<1>19. Stored'
  <2> SUFFICES ASSUME NEW o \in Operations, RejectedRow(o) \in Noted' PROVE o \in rejected'
    BY DEF Stored
  <2>1. CASE RejectedRow(o) \in Noted
    BY <1>1, <1>5, <2>1 DEF Fates, Stored
  <2>2. CASE RejectedRow(o) = RejectedRow(op)
    <3>1. o = op
      BY <2>2 DEF RejectedRow
    <3> QED
      BY <1>5, <3>1
  <2> QED
    BY <1>9, <2>1, <2>2
<1>20. Refusals'
  BY <1>1, <1>5, <1>11, <1>12 DEF Fates, Refusals
<1>21. ASSUME NEW o, Awaited(o) PROVE AwaitedNext(o)
  <2>1. CASE o = op
    BY <1>5, <1>11, <1>16, <2>1 DEF AwaitedNext, EditsOf
  <2>2. CASE o \in ToSet(unacked) /\ o # op
    BY <1>14, <2>2 DEF AwaitedNext
  <2>3. CASE o \notin ToSet(unacked)
    <3>1. o.id[1] \in EditsOf(ToSet(log) \cup rejected) /\ o.id[1] \notin EditsOf(ToSet(unacked))
      BY <1>21, <2>3 DEF Awaited
    <3>2. o.id[1] \in EditsOf(ToSet(log') \cup rejected')
      BY <1>5, <1>11, <3>1 DEF EditsOf
    <3> QED
      BY <1>16, <3>1, <3>2 DEF AwaitedNext
  <2> QED
    BY <2>1, <2>2, <2>3
<1>22. Answers'
  <2>1. open => conn \in Connections
    BY <1>1, TypeParts, Bounds DEF Successions, Connections
  <2>2. \A g \in ToSet(ops') \cup ToSet(control') : g \in ToSet(ops) \cup ToSet(control)
    BY <1>2 DEF Consumed
  <2>3. UNCHANGED <<helloUnacked, conn, open, typed>>
    BY <1>5, <1>11
  <2>4. Fewer
    BY <1>10 DEF Calm
  <2> QED
    BY <1>1, <1>11, <1>21, <2>1, <2>2, <2>3, <2>4, AnswersOn DEF Fates
<1> QED
  BY <1>9, <1>10, <1>17, <1>18, <1>19, <1>20, <1>22 DEF IInv, Fates

\* What is received keeps the invariant.
LEMMA ReceiveStep ==
  ASSUME IInv, Receive
  PROVE  IInv'
BY WelcomeStep, SnapshotStep, BeginStep, ChainedStep, AckStep, RejectStep, OperationStep DEF Receive

\* Of the callbacks that wait, some were run, and a macrotask may be waited for.
LEMMA RunStep ==
  ASSUME IInv, Types', Aside, Fed, engine'.replica = engine.replica, gate # <<>>,
         \A g \in ToSet(gate') : g \in ToSet(gate) \/ g.kind = "yield",
         UNCHANGED <<ops, control, open, unacked, helloUnacked, rejected, durable>>
  PROVE  IInv'
<1>1. Types /\ Talks /\ Successions /\ Renewals /\ Carried /\ Fates
  BY DEF IInv
<1>2. Talks' /\ Calm /\ (Alone(conn) => Alone(conn)') /\ (\A c : Alone(c) => Alone(c)')
  BY <1>1, AsideKeeps
<1>3. conn' = conn /\ log' = log /\ session' = session /\ typed' = typed /\ up' = up /\ open' = open
      /\ ops' = ops /\ control' = control /\ conn \in 0..MaxConnections /\ unacked' = unacked
      /\ helloUnacked' = helloUnacked
  BY <1>1, TypeParts DEF Aside
<1>4. Successions'
  BY <1>1, <1>2, <1>3 DEF Successions, Alone
<1>5. Renewals'
  <2>1. ASSUME NEW i \in DOMAIN gate', gate'[i].kind = "have" PROVE engine'.replica = conn
    <3>1. gate'[i] \in ToSet(gate)
      BY <2>1 DEF ToSet
    <3>2. PICK j \in DOMAIN gate : gate[j] = gate'[i]
      BY <3>1 DEF ToSet
    <3> QED
      BY <1>1, <2>1, <3>2 DEF Renewals
  <2> QED
    BY <1>1, <1>3, <2>1 DEF Renewals
<1>6. Carried'
  <2>1. \A g : Told(g) => Told(g)'
    BY <1>3 DEF Told
  <2>2. \A g : g.kind = "yield" => Told(g)'
    BY DEF Told
  <2> QED
    BY <1>1, <1>3, <2>1, <2>2 DEF Carried
<1>7. /\ Identity'
      /\ Lively' /\ Single' /\ Forward' /\ Hopeless' /\ Distinct' /\ Unsaved' /\ Stored' /\ Refusals'
  <2>1. conn' >= conn
    BY <1>3
  <2> QED
    BY <1>2, <2>1, CalmKeeps
<1>8. Answers'
  <2>1. open => conn \in Connections
    BY <1>1, <1>3, Bounds DEF Successions, Connections
  <2> QED
    BY <1>1, <1>2, <1>3, <2>1, CalmAnswers DEF Fates
<1>9. Reported'
  <2>1. \A g : Had(g) => Had(g)'
    BY <1>2, <1>3 DEF Had
  <2>2. \A g \in ToSet(control) \cup ToSet(gate) : g.kind = "have" => Had(g)
    BY <1>1 DEF Fates, Reported
  <2>3. \A g \in ToSet(control') \cup ToSet(gate') : g.kind = "have" => Had(g)'
    BY <1>3, <2>1, <2>2
  <2>4. /\ \A k \in helloUnacked : k[2] < conn /\ k[1] \in 1..typed
        /\ open /\ session[conn].stage \in {"catchup", "checking"} => session[conn].unacked = helloUnacked
        /\ open /\ session[conn].stage = "open" => up[conn][1].unacked = helloUnacked
    BY <1>1 DEF Fates, Reported
  <2> QED
    BY <1>3, <2>3, <2>4 DEF Reported
<1> QED
  BY <1>2, <1>4, <1>5, <1>6, <1>7, <1>8, <1>9 DEF IInv, Fates

\* The next callback and the ones after it.
LEMMA GateIs ==
  ASSUME Types, Carried, gate # <<>>
  PROVE  /\ gate[1] \in Frames /\ gate[1] \in ToSet(gate) /\ Told(gate[1])
         /\ Tail(gate) \in Seq(Frames) /\ ToSet(Tail(gate)) \subseteq ToSet(gate)
         /\ 1 \in DOMAIN gate
<1>1. gate \in Seq(Frames)
  BY TypeParts
<1>2. Tail(gate) \in Seq(Frames) /\ Head(gate) = gate[1] /\ Head(gate) \in Frames
      /\ ToSet(gate) = {Head(gate)} \cup ToSet(Tail(gate))
  BY <1>1, Queues
<1> QED
  BY <1>1, <1>2 DEF Carried

\* The page does other work first.
LEMMA RunYieldStep ==
  ASSUME IInv, RunYield
  PROVE  IInv'
<1>1. Types /\ Carried
  BY DEF IInv
<1>2. /\ faults' = faults /\ log' = log /\ committed' = committed /\ parked' = parked
      /\ session' = session /\ up' = up /\ ops' = ops /\ control' = control /\ conn' = conn
      /\ open' = open /\ synced' = synced /\ engine' = engine /\ unacked' = unacked
      /\ helloUnacked' = helloUnacked /\ seqs' = seqs /\ rejected' = rejected
      /\ stored' = stored /\ flushing' = flushing /\ unstored' = unstored /\ typed' = typed /\ reloads' = reloads
      /\ gate # <<>> /\ gate' = Tail(gate)
  BY DEF RunYield, server, network, durable
<1>3. gate' \in Seq(Frames) /\ ToSet(gate') \subseteq ToSet(gate)
  BY <1>1, <1>2, GateIs
<1>4. Types'
  BY <1>1, <1>2, <1>3, TypeParts, TypePartsNext
<1>5. Fed /\ Aside
  BY <1>2 DEF Fed, Aside
<1> QED
  BY <1>2, <1>3, <1>4, <1>5, RunStep DEF durable

\* The operations of a chunk are applied.
LEMMA RunChunkStep ==
  ASSUME IInv, RunChunk
  PROVE  IInv'
<1>1. Types /\ Carried
  BY DEF IInv
<1>2. PICK f \in Frames : f = gate[1] /\ f.kind = "chunk" /\ Told(f) /\ gate # <<>>
                          /\ ToSet(Tail(gate)) \subseteq ToSet(gate) /\ Tail(gate) \in Seq(Frames)
  BY <1>1, GateIs DEF RunChunk
<1>3. f.through \in Nat /\ f.entries \in SUBSET Numbered
  BY <1>2, FrameFields
<1>4. PICK new \in SUBSET Operations : new = {entry.op : entry \in f.entries} /\ new \subseteq ToSet(log)
  <2>1. {entry.op : entry \in f.entries} \in SUBSET Operations
    BY <1>3 DEF Numbered
  <2>2. {entry.op : entry \in f.entries} \subseteq ToSet(log)
    BY <1>2 DEF Told
  <2> QED
    BY <2>1, <2>2
<1> DEFINE noted == [seqs EXCEPT !.catchupPending = @ \cup f.entries, !.seen = Max({@, f.through})]
<1>5. /\ faults' = faults /\ log' = log /\ committed' = committed /\ parked' = parked
      /\ session' = session /\ up' = up /\ ops' = ops /\ control' = control /\ conn' = conn
      /\ open' = open /\ synced' = synced /\ unacked' = unacked
      /\ helloUnacked' = helloUnacked /\ rejected' = rejected
      /\ stored' = stored /\ flushing' = flushing /\ unstored' = unstored /\ typed' = typed /\ reloads' = reloads
      /\ engine' = ApplyAll(engine, new)
      /\ seqs' = RecomputeCatchupSeqCeiling(noted, engine')
      /\ gate' = <<[kind |-> "yield"]>> \o Tail(gate)
  BY <1>2, <1>4 DEF RunChunk, server, network, durable
<1>6. engine \in Engine /\ seqs \in Seqs /\ IsFiniteSet(seqs.confirmed) /\ IsFiniteSet(seqs.livePending)
  BY <1>1, TypeParts
<1>7. engine' \in Engine /\ engine'.replica = engine.replica /\ Fed
  <2>1. /\ ApplyAll(engine, new) \in Engine /\ ApplyAll(engine, new).replica = engine.replica
        /\ ApplyAll(engine, new).nodes \cup ApplyAll(engine, new).pending =
             engine.nodes \cup engine.pending \cup new
    BY <1>6, ApplyAllIs DEF Engine
  <2> QED
    BY <1>4, <1>5, <2>1 DEF Fed
<1>8. PICK q \in Seqs : q = noted /\ q.confirmed = seqs.confirmed /\ q.livePending = seqs.livePending
  <2>1. seqs.seen \in Nat /\ seqs.catchupPending \in SUBSET Numbered
    BY <1>6 DEF Seqs
  <2>2. Max({seqs.seen, f.through}) \in Nat
    <3>1. {seqs.seen, f.through} \in SUBSET Int /\ {seqs.seen, f.through} # {}
      BY <1>3, <2>1
    <3>2. IsFiniteSet({seqs.seen, f.through})
      <4>1. IsFiniteSet({seqs.seen}) /\ {seqs.seen, f.through} = {seqs.seen} \cup {f.through}
        BY FS_Singleton
      <4> QED
        BY <4>1, FS_AddElement
    <3>3. Max({seqs.seen, f.through}) \in {seqs.seen, f.through}
      BY <3>1, <3>2, MaxIs
    <3> QED
      BY <1>3, <2>1, <3>3
  <2>3. seqs.catchupPending \cup f.entries \in SUBSET Numbered
    BY <1>3, <2>1
  <2>4. PICK most \in Nat, all \in SUBSET Numbered :
          /\ most = Max({seqs.seen, f.through}) /\ all = seqs.catchupPending \cup f.entries
          /\ noted = [seqs EXCEPT !.catchupPending = all, !.seen = most]
    BY <2>2, <2>3
  <2>5. /\ [seqs EXCEPT !.catchupPending = all, !.seen = most] \in Seqs
        /\ [seqs EXCEPT !.catchupPending = all, !.seen = most].confirmed = seqs.confirmed
        /\ [seqs EXCEPT !.catchupPending = all, !.seen = most].livePending = seqs.livePending
    BY <1>6 DEF Seqs
  <2> QED
    BY <2>4, <2>5
<1>9. seqs' \in Seqs /\ IsFiniteSet(seqs'.confirmed) /\ IsFiniteSet(seqs'.livePending)
  <2> HIDE DEF noted
  <2>1. \A e : /\ RecomputeCatchupSeqCeiling(q, e) \in Seqs
               /\ RecomputeCatchupSeqCeiling(q, e).confirmed = q.confirmed
               /\ RecomputeCatchupSeqCeiling(q, e).livePending = q.livePending
    BY RecomputeType
  <2> QED
    BY <1>5, <1>6, <1>8, <2>1
<1>10. gate' \in Seq(Frames) /\ \A g \in ToSet(gate') : g \in ToSet(gate) \/ g.kind = "yield"
  <2>1. PICK y \in Frames : y = [kind |-> "yield"] /\ y.kind = "yield"
    <3>1. [kind |-> "yield"] \in [kind : {"begin", "yield"}]
      OBVIOUS
    <3>2. [kind |-> "yield"] \in Frames
      BY <3>1 DEF Frames
    <3> QED
      BY <3>2
  <2>2. <<y>> \in Seq(Frames) /\ ToSet(<<y>>) = {y}
    BY DEF ToSet
  <2>3. <<y>> \o Tail(gate) \in Seq(Frames) /\ ToSet(<<y>> \o Tail(gate)) = ToSet(<<y>>) \cup ToSet(Tail(gate))
    <3>1. Tail(gate) \in Seq(Frames) /\ <<y>> \in Seq(Frames)
      BY <1>2, <2>2
    <3> QED
      BY <3>1, Joins
  <2> QED
    BY <1>2, <1>5, <2>1, <2>2, <2>3
<1>11. Types'
  <2> HIDE DEF noted
  <2> QED
    BY <1>1, <1>5, <1>7, <1>9, <1>10, TypeParts, TypePartsNext
<1>12. Aside
  BY <1>5 DEF Aside
<1> QED
  BY <1>2, <1>5, <1>7, <1>10, <1>11, <1>12, RunStep DEF durable

\* The catch-up ends.
LEMMA RunEndStep ==
  ASSUME IInv, RunEnd
  PROVE  IInv'
<1>1. Types /\ Carried
  BY DEF IInv
<1>2. PICK f \in Frames : f = gate[1] /\ f.kind = "end" /\ gate # <<>>
                          /\ ToSet(Tail(gate)) \subseteq ToSet(gate) /\ Tail(gate) \in Seq(Frames)
  BY <1>1, GateIs DEF RunEnd
<1>3. f.to \in Nat
  BY <1>2, FrameFields
<1> DEFINE noted == [seqs EXCEPT !.seen = Max({@, f.to})]
<1>4. /\ faults' = faults /\ log' = log /\ committed' = committed /\ parked' = parked
      /\ session' = session /\ up' = up /\ ops' = ops /\ control' = control /\ conn' = conn
      /\ open' = open /\ synced' = synced /\ unacked' = unacked /\ engine' = engine
      /\ helloUnacked' = helloUnacked /\ rejected' = rejected
      /\ stored' = stored /\ flushing' = flushing /\ unstored' = unstored /\ typed' = typed /\ reloads' = reloads
      /\ seqs' = RecomputeCatchupSeqCeiling(noted, engine)
      /\ gate' = Tail(gate)
  BY <1>2 DEF RunEnd, server, network, durable
<1>5. seqs \in Seqs /\ IsFiniteSet(seqs.confirmed) /\ IsFiniteSet(seqs.livePending)
  BY <1>1, TypeParts
<1>6. PICK q \in Seqs : q = noted /\ q.confirmed = seqs.confirmed /\ q.livePending = seqs.livePending
  <2>1. seqs.seen \in Nat
    BY <1>5 DEF Seqs
  <2>2. Max({seqs.seen, f.to}) \in Nat
    <3>1. {seqs.seen, f.to} \in SUBSET Int /\ {seqs.seen, f.to} # {}
      BY <1>3, <2>1
    <3>2. IsFiniteSet({seqs.seen, f.to})
      <4>1. IsFiniteSet({seqs.seen}) /\ {seqs.seen, f.to} = {seqs.seen} \cup {f.to}
        BY FS_Singleton
      <4> QED
        BY <4>1, FS_AddElement
    <3>3. Max({seqs.seen, f.to}) \in {seqs.seen, f.to}
      BY <3>1, <3>2, MaxIs
    <3> QED
      BY <1>3, <2>1, <3>3
  <2>3. PICK most \in Nat : most = Max({seqs.seen, f.to}) /\ noted = [seqs EXCEPT !.seen = most]
    BY <2>2
  <2>4. /\ [seqs EXCEPT !.seen = most] \in Seqs
        /\ [seqs EXCEPT !.seen = most].confirmed = seqs.confirmed
        /\ [seqs EXCEPT !.seen = most].livePending = seqs.livePending
    BY <1>5 DEF Seqs
  <2> QED
    BY <2>3, <2>4
<1> HIDE DEF noted
<1>7. seqs' \in Seqs /\ IsFiniteSet(seqs'.confirmed) /\ IsFiniteSet(seqs'.livePending)
  <2>1. \A e : /\ RecomputeCatchupSeqCeiling(q, e) \in Seqs
               /\ RecomputeCatchupSeqCeiling(q, e).confirmed = q.confirmed
               /\ RecomputeCatchupSeqCeiling(q, e).livePending = q.livePending
    BY RecomputeType
  <2> QED
    BY <1>4, <1>5, <1>6, <2>1
<1>8. Types'
  BY <1>1, <1>2, <1>4, <1>7, TypeParts, TypePartsNext
<1>9. Fed /\ Aside
  BY <1>4 DEF Fed, Aside
<1> QED
  BY <1>2, <1>4, <1>8, <1>9, RunStep DEF durable

\* An operation of an edit that is neither saved, refused nor under way, later
\* than every other copy of it.
Fresh(o) ==
  /\ o.id[2] = engine.replica /\ o.id[2] # 0
  /\ \A k \in Ids : Met(k) /\ k[1] = o.id[1] => k[2] < o.id[2]
  /\ o.id[1] \notin EditsOf(ToSet(log) \cup rejected)
  /\ \A n \in Connections : \A i \in LiveAt(n) : up[n][i].op.id[1] # o.id[1]
  /\ o.id \notin helloUnacked
  /\ \A p : Answerable(p) => p.id[1] # o.id[1]
  /\ o.parent[2] # 0 => o.parent[1] < o.id[1]

\* New operations take the place of reported ones in the queue, and are sent on the
\* connection there is.
Mints(rest, new) ==
  /\ unacked' = rest \o new /\ ToSet(rest) \subseteq ToSet(unacked)
  /\ \A o \in ToSet(unacked) : o \in ToSet(rest) \/ o.id \in helloUnacked
  /\ \A i, j \in DOMAIN rest : rest[i].parent = rest[j].id => j < i
  /\ \A i, j \in DOMAIN rest : i # j => rest[i].id[1] # rest[j].id[1]
  /\ \A o \in ToSet(new) :
       /\ Fresh(o) /\ o.id[1] \in 1..typed'
       /\ o.parent \in IdsOf(engine.nodes) \cup IdsOf(ToSet(new)) \cup {Root}
  /\ \A o \in ToSet(rest), p \in ToSet(new) :
       /\ o.id[1] # p.id[1]
       /\ o.parent[1] = p.id[1] => o.parent[2] < p.id[2]
  /\ \A i, j \in DOMAIN new : new[i].parent = new[j].id => j < i
  /\ \A i, j \in DOMAIN new : i # j => new[i].id[1] # new[j].id[1]
  /\ \/ ~open /\ up' = up
     \/ /\ open
        /\ \E frames \in Seq(ClientFrames) :
             /\ DOMAIN frames = DOMAIN new
             /\ \A i \in DOMAIN new : frames[i].kind = "op" /\ frames[i].op = new[i]
             /\ up' = [up EXCEPT ![conn] = up[conn] \o frames]
  /\ engine'.replica = engine.replica
  /\ engine'.nodes \cup engine'.pending \subseteq engine.nodes \cup engine.pending \cup ToSet(new)
  /\ \A o \in Operations : RejectedRow(o) \in Noted' => RejectedRow(o) \in Noted
  /\ typed' \in Nat /\ typed <= typed'
  /\ gate' \in Seq(Frames) /\ ToSet(gate') \subseteq ToSet(gate)
  /\ UNCHANGED <<log, parked, session, conn, open, ops, control, rejected, helloUnacked>>

\* What is under way after the minting: what was, and the new operations.
LEMMA MintsFrames ==
  ASSUME IInv, NEW rest \in Seq(Operations), NEW new \in Seq(Operations), Mints(rest, new)
  PROVE  /\ \A n \in Connections : \A i \in DOMAIN up[n] : i \in DOMAIN up'[n] /\ up'[n][i] = up[n][i]
         /\ \A n \in Connections : up[n] = <<>> /\ n # conn => up'[n] = <<>>
         /\ open => conn \in Connections
         /\ \A n \in Connections : \A i \in DOMAIN up'[n] : i \in Nat /\
              \/ i \in DOMAIN up[n] /\ up'[n][i] = up[n][i]
              \/ /\ open /\ n = conn /\ \A j \in DOMAIN up[n] : j < i
                 /\ up'[n][i].kind = "op"
                 /\ i - Len(up[n]) \in DOMAIN new /\ up'[n][i].op = new[i - Len(up[n])]
                 /\ up'[n][i].op \in ToSet(new)
         /\ \A n \in Connections : Len(up[n]) \in Nat
<1>1. Types /\ Successions
  BY DEF IInv
<1>2. up \in [Connections -> Seq(ClientFrames)] /\ conn \in 0..MaxConnections
  BY <1>1, TypeParts
<1>3. open => conn \in Connections
  BY <1>1, <1>2, Bounds DEF Successions, Connections
<1>4. \A n \in Connections : up[n] \in Seq(ClientFrames) /\ Len(up[n]) \in Nat
                             /\ \A i \in DOMAIN up[n] : i \in Nat
  BY <1>2
<1>5. CASE up' = up
  BY <1>3, <1>4, <1>5
<1>6. CASE open /\ up' # up
  <2>1. PICK frames \in Seq(ClientFrames) :
          /\ DOMAIN frames = DOMAIN new
          /\ \A i \in DOMAIN new : frames[i].kind = "op" /\ frames[i].op = new[i]
          /\ up' = [up EXCEPT ![conn] = up[conn] \o frames]
    BY <1>6 DEF Mints
  <2>2. up[conn] \in Seq(ClientFrames)
    BY <1>3, <1>4, <1>6
  <2>3. /\ Len(up[conn]) \in Nat /\ Len(frames) \in Nat
        /\ DOMAIN up[conn] = 1..Len(up[conn]) /\ DOMAIN frames = 1..Len(frames)
        /\ DOMAIN (up[conn] \o frames) = 1..Len(up[conn]) + Len(frames)
        /\ \A i \in DOMAIN up[conn] : i \in DOMAIN (up[conn] \o frames) /\ (up[conn] \o frames)[i] = up[conn][i]
        /\ \A i \in DOMAIN (up[conn] \o frames) :
             i \in DOMAIN up[conn] \/ (i - Len(up[conn]) \in DOMAIN frames
                                       /\ (up[conn] \o frames)[i] = frames[i - Len(up[conn])])
    BY <2>2, Continued
  <2>4. \A n \in Connections : up'[n] = IF n = conn THEN up[conn] \o frames ELSE up[n]
    BY <1>2, <2>1
  <2>5. ASSUME NEW n \in Connections, NEW i \in DOMAIN up'[n]
        PROVE  i \in Nat /\
               \/ i \in DOMAIN up[n] /\ up'[n][i] = up[n][i]
               \/ /\ open /\ n = conn /\ \A j \in DOMAIN up[n] : j < i
                  /\ up'[n][i].kind = "op"
                  /\ i - Len(up[n]) \in DOMAIN new /\ up'[n][i].op = new[i - Len(up[n])]
                  /\ up'[n][i].op \in ToSet(new)
    <3>1. CASE n # conn
      BY <1>4, <2>4, <3>1
    <3>2. CASE n = conn
      <4>1. i \in 1..Len(up[conn]) + Len(frames)
        BY <2>3, <2>4, <3>2
      <4>2. i \in Nat
        BY <2>3, <4>1
      <4>3. CASE i \in DOMAIN up[conn]
        BY <2>3, <2>4, <3>2, <4>2, <4>3
      <4>4. CASE i \notin DOMAIN up[conn]
        <5>1. i - Len(up[conn]) \in DOMAIN frames /\ (up[conn] \o frames)[i] = frames[i - Len(up[conn])]
          BY <2>3, <2>4, <3>2, <4>4
        <5>2. \A j \in DOMAIN up[conn] : j < i
          BY <2>3, <4>1, <4>4
        <5>3. up'[n][i].kind = "op" /\ up'[n][i].op = new[i - Len(up[conn])]
          BY <2>1, <2>4, <3>2, <5>1
        <5>4. new[i - Len(up[conn])] \in ToSet(new)
          BY <2>1, <5>1 DEF ToSet
        <5> QED
          BY <1>6, <2>1, <3>2, <4>2, <5>1, <5>2, <5>3, <5>4
      <4> QED
        BY <4>3, <4>4
    <3> QED
      BY <3>1, <3>2
  <2> QED
    BY <1>3, <1>4, <2>3, <2>4, <2>5
<1> QED
  BY <1>5, <1>6 DEF Mints

\* Identities after the minting.
LEMMA MintsIdentity ==
  ASSUME IInv, Types', NEW rest \in Seq(Operations), NEW new \in Seq(Operations), Mints(rest, new)
  PROVE  Identity' /\ Distinct' /\ \A k \in Ids : Met(k)' => Met(k) \/ k \in IdsOf(ToSet(new))
<1>1. Types /\ Identity /\ Fates /\ Successions
  BY DEF IInv
<1>2. ToSet(unacked') = ToSet(rest) \cup ToSet(new) /\ ToSet(rest) \subseteq ToSet(unacked)
  <2>1. ToSet(rest \o new) = ToSet(rest) \cup ToSet(new)
    BY Joins
  <2> QED
    BY <2>1 DEF Mints
<1>3. /\ conn' = conn /\ log' = log /\ parked' = parked /\ typed <= typed' /\ typed' \in Nat
      /\ engine'.nodes \cup engine'.pending \subseteq engine.nodes \cup engine.pending \cup ToSet(new)
  BY DEF Mints
<1>4. conn \in Nat /\ typed \in Nat /\ engine.replica \in Nat /\ engine.replica <= conn
  BY <1>1, TypeParts, Bounds DEF Engine, Successions
<1>5. \A o \in ToSet(new) : o \in Operations /\ o.id \in Ids /\ o.id[1] \in Nat /\ o.id[2] \in Nat
  <2>1. \A o \in ToSet(new) : o \in Operations
    BY Queues
  <2> QED
    BY <2>1, OperationFields, IdFields, Bounds
<1>6. \A o \in ToSet(new) : /\ Fresh(o) /\ o.id[1] \in 1..typed'
                            /\ o.parent \in IdsOf(engine.nodes) \cup IdsOf(ToSet(new)) \cup {Root}
  BY DEF Mints
<1>7. \A k \in Ids : k \in IdsOf(engine.nodes) => Met(k)
  BY DEF Met, IdsOf
<1>8. \A n \in Connections : \A i \in OpsAt(n)' :
        (i \in OpsAt(n) /\ up'[n][i].op = up[n][i].op) \/ up'[n][i].op \in ToSet(new)
  BY MintsFrames DEF OpsAt
<1>9. ASSUME NEW k \in Ids, Met(k)' PROVE Met(k) \/ k \in IdsOf(ToSet(new))
  <2>1. k # Root
    BY IdFields
  <2>2. CASE k \in IdsOf(ToSet(log) \cup parked \cup ToSet(unacked) \cup engine.nodes \cup engine.pending)'
    <3>1. PICK o \in ToSet(log') \cup parked' \cup ToSet(unacked') \cup engine'.nodes \cup engine'.pending : k = o.id
      BY <2>2 DEF IdsOf
    <3>2. o \in ToSet(log) \cup parked \cup ToSet(unacked) \cup engine.nodes \cup engine.pending \cup ToSet(new)
      BY <1>2, <1>3, <3>1
    <3> QED
      BY <3>1, <3>2 DEF Met, IdsOf
  <2>3. CASE \E o \in parked' : k = o.parent
    BY <1>3, <2>3 DEF Met
  <2>4. ASSUME NEW n \in Connections, NEW i \in OpsAt(n)', k \in {up'[n][i].op.id, up'[n][i].op.parent}
        PROVE  Met(k) \/ k \in IdsOf(ToSet(new))
    <3>1. CASE i \in OpsAt(n) /\ up'[n][i].op = up[n][i].op
      BY <2>4, <3>1 DEF Met
    <3>2. CASE up'[n][i].op \in ToSet(new)
      BY <1>6, <1>7, <2>1, <2>4, <3>2 DEF IdsOf
    <3> QED
      BY <1>8, <3>1, <3>2
  <2> QED
    BY <1>9, <2>2, <2>3, <2>4 DEF Met
<1>10. \A k \in Ids : Met(k) => k[2] <= conn
  BY <1>1, <1>4 DEF Identity, Minted
<1>11. Minted'
  <2> SUFFICES ASSUME NEW k \in Ids, Met(k)'
               PROVE  IF k[2] = 0 THEN k \in IdsOf(ToSet(log')) ELSE k[1] \in 1..typed' /\ k[2] <= conn'
    BY DEF Minted
  <2>1. CASE Met(k)
    <3>1. IF k[2] = 0 THEN k \in IdsOf(ToSet(log)) ELSE k[1] \in 1..typed /\ k[2] <= conn
      BY <1>1, <2>1 DEF Identity, Minted
    <3> QED
      BY <1>3, <1>4, <3>1
  <2>2. CASE k \in IdsOf(ToSet(new))
    <3>1. PICK o \in ToSet(new) : k = o.id
      BY <2>2 DEF IdsOf
    <3> QED
      BY <1>3, <1>4, <1>6, <3>1 DEF Fresh
  <2> QED
    BY <1>9, <2>1, <2>2
<1>12. Newest'
  <2> SUFFICES ASSUME NEW k \in Ids, NEW o \in ToSet(unacked'), Met(k)', k[1] = o.id[1]
               PROVE  k[2] <= o.id[2]
    BY DEF Newest
  <2>1. k[2] \in Nat
    BY IdFields, Bounds
  <2>2. CASE Met(k) /\ o \in ToSet(rest)
    BY <1>1, <1>2, <2>2 DEF Identity, Newest
  <2>3. CASE Met(k) /\ o \in ToSet(new)
    BY <1>5, <1>6, <2>1, <2>3 DEF Fresh
  <2>4. CASE k \in IdsOf(ToSet(new))
    <3>1. PICK p \in ToSet(new) : k = p.id
      BY <2>4 DEF IdsOf
    <3>2. o \notin ToSet(rest)
      BY <3>1 DEF Mints
    <3>3. o.id[2] = p.id[2]
      BY <1>2, <1>6, <3>1, <3>2 DEF Fresh
    <3> QED
      BY <2>1, <3>1, <3>3
  <2> QED
    BY <1>2, <1>9, <2>2, <2>3, <2>4
<1>13. Descent'
  <2>1. \A o \in ToSet(new) : Descends(o)
    BY <1>6 DEF Fresh, Descends
  <2>2. \A o \in parked' \cup ToSet(unacked') : Descends(o)
    BY <1>1, <1>2, <1>3, <2>1 DEF Identity, Descent
  <2>3. ASSUME NEW n \in Connections, NEW i \in OpsAt(n)' PROVE Descends(up'[n][i].op)
    BY <1>1, <1>8, <2>1 DEF Identity, Descent
  <2> QED
    BY <2>2, <2>3 DEF Descent
<1>14. /\ Len(rest) \in Nat /\ DOMAIN rest = 1..Len(rest) /\ DOMAIN new = 1..Len(new)
       /\ \A i \in DOMAIN unacked' :
            /\ i \in Nat
            /\ \/ i \in DOMAIN rest /\ unacked'[i] = rest[i]
               \/ /\ i \notin DOMAIN rest /\ i - Len(rest) \in DOMAIN new
                  /\ unacked'[i] = new[i - Len(rest)] /\ \A j \in DOMAIN rest : j < i
  <2>1. PICK q \in Seq(Operations) : q = rest \o new
    <3>1. rest \o new \in Seq(Operations)
      BY Joins
    <3> QED
      BY <3>1
  <2>2. /\ Len(rest) \in Nat /\ Len(new) \in Nat
        /\ DOMAIN rest = 1..Len(rest) /\ DOMAIN new = 1..Len(new) /\ DOMAIN q = 1..Len(rest) + Len(new)
        /\ \A i \in DOMAIN rest : i \in DOMAIN q /\ q[i] = rest[i]
        /\ \A i \in DOMAIN q : i \in DOMAIN rest \/ (i - Len(rest) \in DOMAIN new /\ q[i] = new[i - Len(rest)])
    BY <2>1, Continued
  <2>3. ASSUME NEW i \in DOMAIN q
        PROVE  /\ i \in Nat
               /\ \/ i \in DOMAIN rest /\ q[i] = rest[i]
                  \/ /\ i \notin DOMAIN rest /\ i - Len(rest) \in DOMAIN new
                     /\ q[i] = new[i - Len(rest)] /\ \A j \in DOMAIN rest : j < i
    <3>1. i \in Nat
      BY <2>2
    <3>2. CASE i \notin DOMAIN rest
      <4>1. \A j \in DOMAIN rest : j < i
        BY <2>2, <3>1, <3>2
      <4> QED
        BY <2>2, <3>1, <3>2, <4>1
    <3> QED
      BY <2>2, <3>1, <3>2
  <2> QED
    BY <2>1, <2>2, <2>3 DEF Mints
<1>15. \A i \in DOMAIN rest : rest[i] \in ToSet(rest)
  BY DEF ToSet
<1>16. \A i \in DOMAIN new : new[i] \in ToSet(new)
  BY DEF ToSet
<1>17. \A i, j \in DOMAIN rest : /\ rest[i].parent = rest[j].id => j < i
                                 /\ i # j => rest[i].id[1] # rest[j].id[1]
  BY DEF Mints
<1>18. \A i, j \in DOMAIN new : /\ new[i].parent = new[j].id => j < i
                                /\ i # j => new[i].id[1] # new[j].id[1]
  BY DEF Mints
<1>19. \A o \in ToSet(rest), p \in ToSet(new) : /\ o.id[1] # p.id[1]
                                                /\ o.parent[1] = p.id[1] => o.parent[2] < p.id[2]
  BY DEF Mints
<1>20. ParentsFirst'
  <2>1. ASSUME NEW i \in DOMAIN unacked', NEW j \in DOMAIN unacked', unacked'[i].parent = unacked'[j].id
        PROVE  j < i
    <3>1. CASE i \in DOMAIN rest /\ j \in DOMAIN rest
      BY <1>14, <1>17, <2>1, <3>1
    <3>2. CASE i \in DOMAIN rest /\ j \notin DOMAIN rest
      <4>1. PICK p \in ToSet(new) : p = unacked'[j]
        BY <1>14, <1>16, <3>2
      <4>2. rest[i].parent[1] = p.id[1] /\ rest[i].parent[2] = p.id[2]
        BY <1>14, <2>1, <3>2, <4>1
      <4>3. rest[i].parent[2] < p.id[2]
        BY <1>15, <1>19, <3>2, <4>2
      <4> QED
        BY <1>5, <4>2, <4>3
    <3>3. CASE i \notin DOMAIN rest /\ j \in DOMAIN rest
      BY <1>14, <3>3
    <3>4. CASE i \notin DOMAIN rest /\ j \notin DOMAIN rest
      <4>1. PICK x \in DOMAIN new, y \in DOMAIN new :
              /\ x = i - Len(rest) /\ y = j - Len(rest)
              /\ unacked'[i] = new[x] /\ unacked'[j] = new[y]
        BY <1>14, <3>4
      <4>2. y < x /\ x \in Int /\ y \in Int
        BY <1>14, <1>18, <2>1, <4>1
      <4> QED
        BY <1>14, <4>1, <4>2
    <3> QED
      BY <3>1, <3>2, <3>3, <3>4
  <2>2. ASSUME NEW o \in ToSet(unacked'), NEW p \in ToSet(unacked'), o.parent[1] = p.id[1]
        PROVE  o.parent[2] <= p.id[2]
    <3>1. CASE o \in ToSet(rest) /\ p \in ToSet(rest)
      BY <1>1, <1>2, <2>2, <3>1 DEF Identity, ParentsFirst
    <3>2. CASE o \in ToSet(rest) /\ p \in ToSet(new)
      <4>1. o.parent[2] < p.id[2]
        BY <1>19, <2>2, <3>2
      <4>2. o.parent[2] \in Nat
        <5>1. o \in Operations
          BY <3>2, Queues
        <5>2. o.parent \in Ids \/ o.parent = Root
          BY <5>1, OperationFields
        <5> QED
          BY <5>2, IdFields, Bounds DEF Root
      <4> QED
        BY <1>5, <3>2, <4>1, <4>2
    <3>3. CASE o \in ToSet(new) /\ o.parent \in IdsOf(engine.nodes)
      <4>1. o.parent \in Ids
        <5>1. engine.nodes \in SUBSET Operations
          BY <1>1, TypeParts DEF Engine
        <5> QED
          BY <3>3, <5>1, OperationFields DEF IdsOf
      <4>2. Met(o.parent) /\ o.parent[2] \in Nat
        BY <1>7, <3>3, <4>1, IdFields, Bounds
      <4>3. CASE p \in ToSet(rest)
        BY <1>1, <1>2, <2>2, <4>1, <4>2, <4>3 DEF Identity, Newest
      <4>4. CASE p \in ToSet(new)
        <5>1. o.parent[2] < p.id[2]
          BY <1>6, <2>2, <4>1, <4>2, <4>4 DEF Fresh
        <5> QED
          BY <1>5, <4>2, <4>4, <5>1
      <4> QED
        BY <1>2, <4>3, <4>4
    <3>4. CASE o \in ToSet(new) /\ o.parent \in IdsOf(ToSet(new))
      <4>1. PICK r \in ToSet(new) : o.parent = r.id
        BY <3>4 DEF IdsOf
      <4>2. p \notin ToSet(rest)
        BY <1>19, <2>2, <4>1
      <4>3. p \in ToSet(new) /\ p.id[2] = r.id[2]
        BY <1>2, <1>6, <4>1, <4>2 DEF Fresh
      <4> QED
        BY <1>5, <4>1, <4>3
    <3>5. CASE o \in ToSet(new) /\ o.parent = Root
      <4>1. p \in Operations
        BY TypePartsNext, Queues
      <4>2. p.id[1] # 0
        BY <4>1, OperationFields, IdFields
      <4> QED
        BY <2>2, <3>5, <4>2 DEF Root
    <3> QED
      BY <1>2, <1>6, <3>1, <3>2, <3>3, <3>4, <3>5
  <2> QED
    BY <2>1, <2>2 DEF ParentsFirst
<1>21. Distinct'
  <2> SUFFICES ASSUME NEW i \in DOMAIN unacked', NEW j \in DOMAIN unacked', i # j
               PROVE  unacked'[i].id[1] # unacked'[j].id[1]
    BY DEF Distinct
  <2>1. CASE i \in DOMAIN rest /\ j \in DOMAIN rest
    BY <1>14, <1>17, <2>1
  <2>2. CASE i \in DOMAIN rest /\ j \notin DOMAIN rest
    BY <1>14, <1>15, <1>16, <1>19, <2>2
  <2>3. CASE i \notin DOMAIN rest /\ j \in DOMAIN rest
    BY <1>14, <1>15, <1>16, <1>19, <2>3
  <2>4. CASE i \notin DOMAIN rest /\ j \notin DOMAIN rest
    <3>1. PICK x \in DOMAIN new, y \in DOMAIN new :
            /\ x = i - Len(rest) /\ y = j - Len(rest)
            /\ unacked'[i] = new[x] /\ unacked'[j] = new[y]
      BY <1>14, <2>4
    <3>2. x # y
      BY <1>14, <3>1
    <3> QED
      BY <1>18, <3>1, <3>2
  <2> QED
    BY <2>1, <2>2, <2>3, <2>4
<1>22. PeersCounted' /\ LoggedOnce'
  BY <1>1, <1>3 DEF Identity, PeersCounted, LoggedOnce, Made
<1> QED
  BY <1>9, <1>11, <1>12, <1>13, <1>20, <1>21, <1>22 DEF Identity

\* The minting keeps the invariant.
LEMMA MintsStep ==
  ASSUME IInv, Types', NEW rest \in Seq(Operations), NEW new \in Seq(Operations), Mints(rest, new)
  PROVE  IInv'
<1>1. Types /\ Talks /\ Successions /\ Renewals /\ Carried /\ Identity /\ Fates
  BY DEF IInv
<1>2. ToSet(unacked') = ToSet(rest) \cup ToSet(new) /\ ToSet(rest) \subseteq ToSet(unacked)
  <2>1. ToSet(rest \o new) = ToSet(rest) \cup ToSet(new)
    BY Joins
  <2> QED
    BY <2>1 DEF Mints
<1>3. /\ conn' = conn /\ log' = log /\ parked' = parked /\ session' = session /\ open' = open
      /\ ops' = ops /\ control' = control /\ rejected' = rejected /\ helloUnacked' = helloUnacked
      /\ typed <= typed' /\ typed' \in Nat /\ engine'.replica = engine.replica
      /\ gate' \in Seq(Frames) /\ ToSet(gate') \subseteq ToSet(gate)
  BY DEF Mints
<1>4. /\ conn \in 0..MaxConnections /\ conn \in Nat /\ typed \in Nat /\ engine.replica \in Nat
      /\ up \in [Connections -> Seq(ClientFrames)] /\ gate \in Seq(Frames)
      /\ session \in [Connections -> Session]
  BY <1>1, TypeParts, Bounds DEF Engine
<1>5. /\ \A n \in Connections : \A i \in DOMAIN up[n] : i \in DOMAIN up'[n] /\ up'[n][i] = up[n][i]
      /\ \A n \in Connections : up[n] = <<>> /\ n # conn => up'[n] = <<>>
      /\ open => conn \in Connections
      /\ \A n \in Connections : \A i \in DOMAIN up'[n] : i \in Nat /\
           \/ i \in DOMAIN up[n] /\ up'[n][i] = up[n][i]
           \/ /\ open /\ n = conn /\ \A j \in DOMAIN up[n] : j < i
              /\ up'[n][i].kind = "op"
              /\ i - Len(up[n]) \in DOMAIN new /\ up'[n][i].op = new[i - Len(up[n])]
              /\ up'[n][i].op \in ToSet(new)
      /\ \A n \in Connections : Len(up[n]) \in Nat
  BY MintsFrames
<1>6. Identity' /\ Distinct' /\ \A k \in Ids : Met(k)' => Met(k) \/ k \in IdsOf(ToSet(new))
  BY MintsIdentity
<1>7. \A o \in ToSet(new) : o \in Operations /\ o.id \in Ids /\ o.id[1] \in Nat /\ o.id[2] \in Nat
  <2>1. \A o \in ToSet(new) : o \in Operations
    BY Queues
  <2> QED
    BY <2>1, OperationFields, IdFields, Bounds
<1>8. \A o \in ToSet(new) : Fresh(o) /\ o.id[1] \in 1..typed'
  BY DEF Mints
<1>9. \A o \in ToSet(new) : ~Met(o.id)
  <2> SUFFICES ASSUME NEW o \in ToSet(new), Met(o.id) PROVE FALSE
    OBVIOUS
  <2>1. o.id[2] < o.id[2] /\ o.id[2] \in Nat
    BY <1>7, <1>8 DEF Fresh
  <2> QED
    BY <2>1
<1>10. \A n \in Connections : up[n] # <<>> => 1 \in DOMAIN up[n]
  BY <1>4
<1>11. Talks'
  <2> SUFFICES ASSUME NEW n \in Connections
               PROVE  /\ n > conn => up'[n] = <<>> /\ session[n] = NewSession
                      /\ n <= conn /\ session[n].stage = "open" => up'[n] # <<>> /\ up'[n][1].kind = "hello"
                      /\ \A i \in DOMAIN up'[n] : up'[n][i].kind = "hello" => i = 1 /\ session[n].stage = "open"
    BY <1>3 DEF Talks
  <2>1. /\ n > conn => up[n] = <<>> /\ session[n] = NewSession
        /\ n <= conn /\ session[n].stage = "open" => up[n] # <<>> /\ up[n][1].kind = "hello"
        /\ \A i \in DOMAIN up[n] : up[n][i].kind = "hello" => i = 1 /\ session[n].stage = "open"
    BY <1>1 DEF Talks
  <2>2. n > conn => n # conn
    BY <1>4 DEF Connections
  <2>3. n <= conn /\ session[n].stage = "open" => up'[n] # <<>> /\ up'[n][1].kind = "hello"
    <3> SUFFICES ASSUME n <= conn, session[n].stage = "open"
                 PROVE  up'[n] # <<>> /\ up'[n][1].kind = "hello"
      OBVIOUS
    <3>1. 1 \in DOMAIN up'[n] /\ up'[n][1] = up[n][1]
      BY <1>5, <1>10, <2>1
    <3> QED
      BY <2>1, <3>1
  <2>4. \A i \in DOMAIN up'[n] : up'[n][i].kind = "hello" => i = 1 /\ session[n].stage = "open"
    BY <1>5, <2>1
  <2> QED
    BY <1>5, <2>1, <2>2, <2>3, <2>4
<1>12. (Alone(conn) => Alone(conn)') /\ (\A c : Alone(c) => Alone(c)')
  BY <1>3 DEF Alone
<1>13. Successions'
  <2>1. gate' # <<>> => gate # <<>>
    <3> SUFFICES ASSUME gate' # <<>> PROVE gate # <<>>
      OBVIOUS
    <3>1. Head(gate') \in ToSet(gate')
      BY <1>3, Queues
    <3>2. ToSet(gate) # {}
      BY <1>3, <3>1
    <3> QED
      BY <3>2, NoMembers
  <2> QED
    BY <1>1, <1>3, <1>12, <2>1 DEF Successions, Alone
<1>14. Renewals'
  <2>1. ASSUME NEW i \in DOMAIN gate', gate'[i].kind = "have" PROVE engine'.replica = conn
    <3>1. gate'[i] \in ToSet(gate)
      BY <1>3 DEF ToSet
    <3>2. PICK j \in DOMAIN gate : gate[j] = gate'[i]
      BY <3>1 DEF ToSet
    <3> QED
      BY <1>1, <1>3, <2>1, <3>2 DEF Renewals
  <2> QED
    BY <1>1, <1>3, <2>1 DEF Renewals
<1>15. Carried'
  <2>1. \A g : Told(g) => Told(g)'
    BY <1>3 DEF Told
  <2> QED
    BY <1>1, <1>3, <2>1 DEF Carried
<1> DEFINE New(n, i) == /\ open /\ n = conn /\ \A j \in DOMAIN up[n] : j < i
                        /\ i - Len(up[n]) \in DOMAIN new /\ up'[n][i].op = new[i - Len(up[n])]
                        /\ up'[n][i].op \in ToSet(new)
<1>16. \A n \in Connections : \A i \in OpsAt(n)' : i \in Nat /\
         \/ i \in OpsAt(n) /\ up'[n][i].op = up[n][i].op
         \/ New(n, i)
  BY <1>5 DEF OpsAt
<1>17. \A n \in Connections : \A i \in LiveAt(n)' : i \in Nat /\
         \/ i \in LiveAt(n) /\ i \in DOMAIN up[n] /\ up'[n][i].op = up[n][i].op
         \/ New(n, i) /\ Alone(conn)
  <2> SUFFICES ASSUME NEW n \in Connections, NEW i \in LiveAt(n)'
               PROVE  i \in Nat /\
                      \/ i \in LiveAt(n) /\ i \in DOMAIN up[n] /\ up'[n][i].op = up[n][i].op
                      \/ New(n, i) /\ Alone(conn)
    OBVIOUS
  <2>1. i \in OpsAt(n)' /\ session[n].stage # "closed" /\ up'[n][i].op.id[2] = n
    BY <1>3 DEF LiveAt
  <2>2. CASE i \in OpsAt(n) /\ up'[n][i].op = up[n][i].op
    BY <1>16, <2>1, <2>2 DEF LiveAt, OpsAt
  <2>3. CASE New(n, i)
    <3>1. engine.replica = conn
      BY <1>8, <2>1, <2>3 DEF Fresh
    <3> QED
      BY <1>1, <1>16, <2>1, <2>3, <3>1 DEF Successions
  <2> QED
    BY <1>16, <2>1, <2>2, <2>3
<1>18. Alone(conn) => \A m \in Connections : \A j \in LiveAt(m) : m = conn
  <2> SUFFICES ASSUME Alone(conn), NEW m \in Connections, NEW j \in LiveAt(m) PROVE m = conn
    OBVIOUS
  <2>1. session[m].stage # "closed" /\ j \in DOMAIN up[m]
    BY DEF LiveAt, OpsAt
  <2>2. up[m] # <<>> /\ m \in Nat /\ m > 0
    BY <2>1 DEF Connections
  <2>3. m <= conn
    BY <1>1, <1>4, <2>2 DEF Talks
  <2>4. m \notin 1..(conn - 1)
    BY <2>1 DEF Alone
  <2> QED
    BY <1>4, <2>2, <2>3, <2>4
<1>19. \A n \in Connections : \A i \in LiveAt(n) :
         /\ i \in OpsAt(n) /\ up[n][i].op \in Operations
         /\ up[n][i].op.id \in Ids /\ Met(up[n][i].op.id) /\ Met(up[n][i].op.parent)
  <2> SUFFICES ASSUME NEW n \in Connections, NEW i \in LiveAt(n)
               PROVE  /\ i \in OpsAt(n) /\ up[n][i].op \in Operations
                      /\ up[n][i].op.id \in Ids /\ Met(up[n][i].op.id) /\ Met(up[n][i].op.parent)
    OBVIOUS
  <2>1. i \in OpsAt(n)
    BY DEF LiveAt
  <2>2. up[n][i] \in ClientFrames /\ up[n][i].kind = "op"
    BY <1>4, <2>1 DEF OpsAt
  <2> QED
    BY <2>1, <2>2, ClientFrameFields, OperationFields DEF Met
<1>20. \A o \in ToSet(new) : \A n \in Connections : \A i \in LiveAt(n) : up[n][i].op.id[1] # o.id[1]
  BY <1>8 DEF Fresh
<1>21. \A i, j \in DOMAIN new : /\ new[i].parent = new[j].id => j < i
                                /\ i # j => new[i].id[1] # new[j].id[1]
  BY DEF Mints
<1>22. \A o \in ToSet(rest), p \in ToSet(new) : o.id[1] # p.id[1]
  BY DEF Mints
<1>23. \A o \in ToSet(new) : o.id[1] \notin EditsOf(ToSet(log) \cup rejected) /\ o.id \notin helloUnacked
  BY <1>8 DEF Fresh
<1> HIDE DEF New
<1>24. \A n, i : New(n, i) => up'[n][i].op \in ToSet(new) /\ open /\ n = conn
  BY DEF New
<1>25. Lively'
  <2> SUFFICES ASSUME NEW n \in Connections, NEW i \in LiveAt(n)'
               PROVE  /\ up'[n][i].op.id[1] \notin EditsOf(ToSet(log) \cup rejected)
                      /\ up'[n][i].op.id \notin IdsOf(parked)
    BY <1>3 DEF Lively
  <2>1. CASE i \in LiveAt(n) /\ up'[n][i].op = up[n][i].op
    BY <1>1, <2>1 DEF Fates, Lively
  <2>2. CASE New(n, i)
    <3>1. ~Met(up'[n][i].op.id)
      BY <1>9, <1>24, <2>2
    <3>2. up'[n][i].op.id \notin IdsOf(parked)
      BY <3>1 DEF Met, IdsOf
    <3> QED
      BY <1>23, <1>24, <2>2, <3>2
  <2> QED
    BY <1>17, <2>1, <2>2
<1>26. \A n, i, m, j : New(n, i) /\ New(m, j) =>
         \E x, y \in DOMAIN new : /\ n = conn /\ m = conn
                                  /\ x = i - Len(up[conn]) /\ y = j - Len(up[conn])
                                  /\ up'[n][i].op = new[x] /\ up'[m][j].op = new[y]
  BY DEF New
<1>27. \A x \in DOMAIN new : x \in Int
  OBVIOUS
<1>28. Single'
  <2> SUFFICES ASSUME NEW n \in Connections, NEW m \in Connections,
                      NEW i \in LiveAt(n)', NEW j \in LiveAt(m)',
                      up'[n][i].op.id[1] = up'[m][j].op.id[1]
               PROVE  n = m /\ i = j
    BY DEF Single
  <2>1. i \in Nat /\ j \in Nat
    BY <1>17
  <2>2. CASE i \in LiveAt(n) /\ up'[n][i].op = up[n][i].op /\ j \in LiveAt(m) /\ up'[m][j].op = up[m][j].op
    BY <1>1, <2>2 DEF Fates, Single
  <2>3. CASE i \in LiveAt(n) /\ up'[n][i].op = up[n][i].op /\ New(m, j)
    BY <1>20, <1>24, <2>3
  <2>4. CASE New(n, i) /\ j \in LiveAt(m) /\ up'[m][j].op = up[m][j].op
    BY <1>20, <1>24, <2>4
  <2>5. CASE New(n, i) /\ New(m, j)
    <3>1. PICK x \in DOMAIN new, y \in DOMAIN new :
            /\ n = conn /\ m = conn /\ x = i - Len(up[conn]) /\ y = j - Len(up[conn])
            /\ up'[n][i].op = new[x] /\ up'[m][j].op = new[y]
      BY <1>26, <2>5
    <3>2. x = y
      BY <1>21, <3>1
    <3>3. Len(up[conn]) \in Nat
      BY <1>5, <3>1
    <3> QED
      BY <2>1, <3>1, <3>2, <3>3
  <2> QED
    BY <1>17, <2>2, <2>3, <2>4, <2>5
<1>29. Forward'
  <2> SUFFICES ASSUME NEW n \in Connections, NEW m \in Connections,
                      NEW i \in LiveAt(n)', NEW j \in LiveAt(m)',
                      up'[n][i].op.parent = up'[m][j].op.id
               PROVE  n = m /\ j < i
    BY DEF Forward
  <2>1. i \in Nat /\ j \in Nat
    BY <1>17
  <2>2. CASE i \in LiveAt(n) /\ up'[n][i].op = up[n][i].op /\ j \in LiveAt(m) /\ up'[m][j].op = up[m][j].op
    BY <1>1, <2>2 DEF Fates, Forward
  <2>3. CASE i \in LiveAt(n) /\ up'[n][i].op = up[n][i].op /\ New(m, j)
    BY <1>9, <1>19, <1>24, <2>3
  <2>4. CASE New(n, i) /\ Alone(conn) /\ j \in LiveAt(m) /\ j \in DOMAIN up[m]
    <3>1. n = conn /\ m = conn
      BY <1>18, <1>24, <2>4
    <3>2. j < i
      BY <2>4, <3>1 DEF New
    <3> QED
      BY <3>1, <3>2
  <2>5. CASE New(n, i) /\ New(m, j)
    <3>1. PICK x \in DOMAIN new, y \in DOMAIN new :
            /\ n = conn /\ m = conn /\ x = i - Len(up[conn]) /\ y = j - Len(up[conn])
            /\ up'[n][i].op = new[x] /\ up'[m][j].op = new[y]
      BY <1>26, <2>5
    <3>2. y < x /\ x \in Int /\ y \in Int
      BY <1>21, <1>27, <3>1
    <3>3. Len(up[conn]) \in Nat
      BY <1>5, <3>1
    <3> QED
      BY <2>1, <3>1, <3>2, <3>3
  <2> QED
    BY <1>17, <2>2, <2>3, <2>4, <2>5
<1>30. Hopeless'
  <2> SUFFICES ASSUME NEW o \in parked
               PROVE  /\ o.parent # Root /\ o.parent \notin IdsOf(ToSet(log))
                      /\ \A n \in Connections : \A i \in LiveAt(n)' : up'[n][i].op.id # o.parent
    BY <1>3 DEF Hopeless
  <2>1. Met(o.parent)
    BY DEF Met
  <2>2. ASSUME NEW n \in Connections, NEW i \in LiveAt(n)' PROVE up'[n][i].op.id # o.parent
    <3>1. CASE i \in LiveAt(n) /\ up'[n][i].op = up[n][i].op
      BY <1>1, <3>1 DEF Fates, Hopeless
    <3>2. CASE New(n, i)
      BY <1>9, <1>24, <2>1, <3>2
    <3> QED
      BY <1>17, <3>1, <3>2
  <2> QED
    BY <1>1, <2>2 DEF Fates, Hopeless
<1>31. Unsaved'
  <2> SUFFICES ASSUME NEW o \in ToSet(unacked')
               PROVE  /\ o.id[1] \in EditsOf(ToSet(log)) => o.id \in IdsOf(ToSet(log))
                      /\ o.id[1] \notin EditsOf(rejected)
                      /\ \A n \in Connections : \A i \in LiveAt(n)' :
                           up'[n][i].op.id[1] = o.id[1] => up'[n][i].op.id = o.id
    BY <1>3 DEF Unsaved
  <2>1. CASE o \in ToSet(rest)
    <3>1. ASSUME NEW n \in Connections, NEW i \in LiveAt(n)', up'[n][i].op.id[1] = o.id[1]
          PROVE  up'[n][i].op.id = o.id
      <4>1. ~New(n, i)
        BY <1>22, <1>24, <2>1, <3>1
      <4>2. i \in LiveAt(n) /\ up'[n][i].op = up[n][i].op
        BY <1>17, <4>1
      <4> QED
        BY <1>1, <1>2, <2>1, <3>1, <4>2 DEF Fates, Unsaved
    <3> QED
      BY <1>1, <1>2, <2>1, <3>1 DEF Fates, Unsaved
  <2>2. CASE o \in ToSet(new)
    <3>1. ASSUME NEW n \in Connections, NEW i \in LiveAt(n)', up'[n][i].op.id[1] = o.id[1]
          PROVE  up'[n][i].op.id = o.id
      <4>1. CASE i \in LiveAt(n) /\ up'[n][i].op = up[n][i].op
        BY <1>20, <2>2, <3>1, <4>1
      <4>2. CASE New(n, i)
        <5>1. up'[n][i].op \in ToSet(new)
          BY <1>24, <4>2
        <5>2. PICK x \in DOMAIN new, y \in DOMAIN new : up'[n][i].op = new[x] /\ o = new[y]
          BY <2>2, <5>1 DEF ToSet
        <5> QED
          BY <1>21, <3>1, <5>2
      <4> QED
        BY <1>17, <4>1, <4>2
    <3> QED
      BY <1>23, <2>2, <3>1 DEF EditsOf
  <2> QED
    BY <1>2, <2>1, <2>2
<1>32. Stored'
  BY <1>1, <1>3 DEF Mints, Fates, Stored
<1>33. Refusals'
  <2>1. \A o \in rejected : o.id[1] \in 1..typed
    BY <1>1 DEF Fates, Refusals
  <2> QED
    BY <1>3, <1>4, <2>1 DEF Refusals
<1>34. ASSUME NEW o, Awaited(o), o.id \notin helloUnacked PROVE AwaitedNext(o)
  <2>1. CASE o \in ToSet(unacked)
    <3>1. o \in ToSet(rest)
      BY <1>34, <2>1 DEF Mints
    <3> QED
      BY <1>2, <3>1 DEF AwaitedNext
  <2>2. CASE o \notin ToSet(unacked)
    <3>1. o.id[1] \in EditsOf(ToSet(log) \cup rejected) /\ o.id[1] \notin EditsOf(ToSet(unacked))
      BY <1>34, <2>2 DEF Awaited
    <3>2. o.id[1] \notin EditsOf(ToSet(unacked'))
      <4> SUFFICES ASSUME NEW p \in ToSet(unacked'), p.id[1] = o.id[1] PROVE FALSE
        BY DEF EditsOf
      <4>1. p \notin ToSet(new)
        BY <1>23, <3>1
      <4>2. p \in ToSet(unacked)
        BY <1>2, <4>1
      <4> QED
        BY <3>1, <4>2 DEF EditsOf
    <3> QED
      BY <1>3, <3>1, <3>2 DEF AwaitedNext
  <2> QED
    BY <2>1, <2>2
<1>35. \A o \in parked : o.id[2] = conn => o.id \notin helloUnacked
  <2> SUFFICES ASSUME NEW o \in parked, o.id[2] = conn, o.id \in helloUnacked PROVE FALSE
    OBVIOUS
  <2>1. conn < conn
    BY <1>1 DEF Fates, Reported
  <2> QED
    BY <1>4, <2>1
<1>36. Answers'
  <2> SUFFICES ASSUME open
               PROVE  /\ \A i \in OpsAt(conn)' : AwaitedNext(up'[conn][i].op) /\ up'[conn][i].op.id \notin helloUnacked
                      /\ \A o \in parked : o.id[2] = conn => AwaitedNext(o)
                      /\ \A f \in ToSet(ops) \cup ToSet(control) : f.kind = "reject" =>
                           /\ AwaitedNext(f.op) /\ f.op.id \notin helloUnacked /\ f.op.id[1] \in 1..typed'
                           /\ \A n \in Connections : \A i \in LiveAt(n)' : up'[n][i].op.id[1] # f.op.id[1]
    <3>1. PICK c : c = conn
      OBVIOUS
    <3> QED
      BY <1>3, <3>1, AnswersNext
  <2>1. /\ \A i \in OpsAt(conn) : Awaited(up[conn][i].op) /\ up[conn][i].op.id \notin helloUnacked
        /\ \A o \in parked : o.id[2] = conn => Awaited(o)
        /\ \A f \in ToSet(ops) \cup ToSet(control) : f.kind = "reject" => Answerable(f.op)
    BY <1>1 DEF Fates, Answers
  <2>2. ASSUME NEW i \in OpsAt(conn)'
        PROVE  AwaitedNext(up'[conn][i].op) /\ up'[conn][i].op.id \notin helloUnacked
    <3>1. CASE i \in OpsAt(conn) /\ up'[conn][i].op = up[conn][i].op
      BY <1>34, <2>1, <3>1
    <3>2. CASE New(conn, i)
      BY <1>2, <1>23, <1>24, <3>2 DEF AwaitedNext
    <3>3. PICK c \in Connections : c = conn
      BY <1>5
    <3>4. i \in OpsAt(c)'
      BY <1>3, <3>3 DEF OpsAt
    <3>5. (i \in OpsAt(c) /\ up'[c][i].op = up[c][i].op) \/ New(c, i)
      BY <1>16, <3>4
    <3> QED
      BY <3>1, <3>2, <3>3, <3>5
  <2>3. ASSUME NEW f \in ToSet(ops) \cup ToSet(control), f.kind = "reject"
        PROVE  /\ AwaitedNext(f.op) /\ f.op.id \notin helloUnacked /\ f.op.id[1] \in 1..typed'
               /\ \A n \in Connections : \A i \in LiveAt(n)' : up'[n][i].op.id[1] # f.op.id[1]
    <3>1. Answerable(f.op)
      BY <2>1, <2>3
    <3>2. Awaited(f.op) /\ f.op.id \notin helloUnacked /\ f.op.id[1] \in 1..typed
      BY <3>1 DEF Answerable
    <3>3. ASSUME NEW n \in Connections, NEW i \in LiveAt(n)' PROVE up'[n][i].op.id[1] # f.op.id[1]
      <4>1. CASE i \in LiveAt(n) /\ up'[n][i].op = up[n][i].op
        BY <3>1, <4>1 DEF Answerable
      <4>2. CASE New(n, i)
        BY <1>8, <1>24, <3>1, <4>2 DEF Fresh
      <4> QED
        BY <1>17, <4>1, <4>2
    <3> QED
      BY <1>3, <1>4, <1>34, <3>2, <3>3
  <2> QED
    BY <1>34, <1>35, <2>1, <2>2, <2>3
<1>37. Reported'
  <2>1. \A k \in helloUnacked : k[2] < conn /\ k[1] \in 1..typed'
    <3>1. \A k \in helloUnacked : k[2] < conn /\ k[1] \in 1..typed
      BY <1>1 DEF Fates, Reported
    <3> QED
      BY <1>3, <1>4, <3>1
  <2>2. open /\ session[conn].stage = "open" => up'[conn][1].unacked = helloUnacked
    <3> SUFFICES ASSUME open, session[conn].stage = "open" PROVE up'[conn][1].unacked = helloUnacked
      OBVIOUS
    <3>1. conn \in Connections /\ conn <= conn
      BY <1>4, <1>5
    <3>2. 1 \in DOMAIN up[conn]
      BY <1>1, <1>10, <3>1 DEF Talks
    <3>3. up'[conn][1] = up[conn][1]
      BY <1>5, <3>1, <3>2
    <3> QED
      BY <1>1, <3>3 DEF Fates, Reported
  <2>3. ASSUME NEW f \in ToSet(control) \cup ToSet(gate'), f.kind = "have" PROVE Had(f)'
    <3>1. Had(f)
      BY <1>1, <1>3, <2>3 DEF Fates, Reported
    <3>2. \A o \in ToSet(new) : o.id \notin helloUnacked
      BY <1>23
    <3>3. \A o \in ToSet(unacked') : o.id \in helloUnacked => o \in ToSet(unacked)
      BY <1>2, <3>2
    <3> QED
      BY <1>3, <1>12, <3>1, <3>3 DEF Had
  <2> QED
    BY <1>1, <1>3, <2>1, <2>2, <2>3 DEF Fates, Reported
<1> QED
  BY <1>6, <1>11, <1>13, <1>14, <1>15, <1>25, <1>28, <1>29, <1>30, <1>31, <1>32, <1>33, <1>36, <1>37 DEF IInv, Fates

\* No identifier of the next edit is met.
LEMMA NextEditFree ==
  ASSUME Types, Identity, NEW k \in Ids, Met(k), typed < MaxEdits
  PROVE  k[1] # typed + 1
<1>1. typed \in Nat
  BY TypeParts, Bounds
<1>2. CASE k[2] = 0
  BY <1>1, <1>2, IdFields, Bounds
<1>3. CASE k[2] # 0
  BY <1>1, <1>3 DEF Identity, Minted
<1> QED
  BY <1>2, <1>3

\* What is minted is an edit of its own or a later copy of a queued one, and it is
\* given to the engine.
MintsAnew(rest, new) ==
  /\ Mints(rest, new)
  /\ engine' = ApplyAll(engine, ToSet(new))
  /\ \A o \in ToSet(new) :
       \/ o.id[1] > typed
       \/ engine.replica = conn /\ \E p \in ToSet(unacked) : p.id[1] = o.id[1]

Anew == \E rest, new \in Seq(Operations) : MintsAnew(rest, new)

\* The user types.
LEMMA TypeMints ==
  ASSUME IInv, Type
  PROVE  Types' /\ Anew
<1>1. Types /\ Successions /\ Identity /\ Fates
  BY DEF IInv
<1>2. PICK parent \in IdsOf(engine.nodes) \cup {Root} :
        LET op == Op(<<typed + 1, engine.replica>>, parent)
        IN  /\ engine' = ApplyAll(engine, {op})
            /\ unacked' = Append(unacked, op)
            /\ WriteRows(<<>>, unstored \cup {UnackedRow(op)})
            /\ up' = IF open THEN [up EXCEPT ![conn] = Append(@, [kind |-> "op", op |-> op])]
                     ELSE up
  BY DEF Type
<1>3. /\ faults' = faults /\ log' = log /\ committed' = committed /\ parked' = parked
      /\ session' = session /\ ops' = ops /\ control' = control /\ conn' = conn
      /\ open' = open /\ synced' = synced /\ helloUnacked' = helloUnacked /\ seqs' = seqs
      /\ gate' = gate /\ rejected' = rejected /\ reloads' = reloads
      /\ typed < MaxEdits /\ typed' = typed + 1 /\ engine.replica # 0
  BY DEF Type, server, HasEngine
<1>4. /\ typed \in 0..MaxEdits /\ typed \in Nat /\ typed' \in 1..MaxEdits /\ engine \in Engine
      /\ engine.replica \in Connections /\ engine.nodes \in SUBSET Operations
      /\ unacked \in Seq(Operations) /\ up \in [Connections -> Seq(ClientFrames)]
      /\ conn \in 0..MaxConnections /\ gate \in Seq(Frames)
  <2>1. /\ typed \in 0..MaxEdits /\ engine \in Engine /\ unacked \in Seq(Operations)
        /\ up \in [Connections -> Seq(ClientFrames)] /\ conn \in 0..MaxConnections /\ gate \in Seq(Frames)
    BY <1>1, TypeParts
  <2>2. engine.replica \in 0..MaxConnections /\ engine.nodes \in SUBSET Operations
    BY <2>1 DEF Engine
  <2>3. engine.replica \in Connections
    BY <1>3, <2>2, Bounds DEF Connections
  <2>4. typed \in Nat /\ typed' \in 1..MaxEdits
    BY <1>3, <2>1, Bounds
  <2> QED
    BY <2>1, <2>2, <2>3, <2>4
<1>5. parent \in Ids \cup {Root}
  BY <1>4, OperationFields DEF IdsOf
<1>6. <<typed + 1, engine.replica>> \in Ids
  <2>1. typed + 1 \in Edits
    BY <1>3, <1>4 DEF Edits
  <2> QED
    BY <1>4, <2>1 DEF Ids
<1>7. PICK op \in Operations :
        /\ op.id = <<typed + 1, engine.replica>> /\ op.parent = parent
        /\ engine' = ApplyAll(engine, {op})
        /\ unacked' = Append(unacked, op)
        /\ WriteRows(<<>>, unstored \cup {UnackedRow(op)})
        /\ up' = IF open THEN [up EXCEPT ![conn] = Append(up[conn], [kind |-> "op", op |-> op])]
                 ELSE up
  <2>1. Op(<<typed + 1, engine.replica>>, parent) \in Operations
    BY <1>5, <1>6 DEF Op, Operations
  <2>2. /\ Op(<<typed + 1, engine.replica>>, parent).id = <<typed + 1, engine.replica>>
        /\ Op(<<typed + 1, engine.replica>>, parent).parent = parent
    BY DEF Op
  <2> QED
    BY <1>2, <2>1, <2>2
<1>8. op.id[1] = typed + 1 /\ op.id[2] = engine.replica /\ op.id \in Ids
  BY <1>6, <1>7
<1>9. open => conn \in Connections
  BY <1>1, <1>4, Bounds DEF Successions, Connections
<1>10. PICK frame \in ClientFrames : frame = [kind |-> "op", op |-> op] /\ frame.kind = "op" /\ frame.op = op
  <2>1. [kind |-> "op", op |-> op] \in ClientFrames
    BY DEF ClientFrames
  <2> QED
    BY <2>1
<1>11. <<op>> \in Seq(Operations) /\ <<frame>> \in Seq(ClientFrames) /\ ToSet(<<op>>) = {op}
       /\ DOMAIN <<op>> = {1} /\ DOMAIN <<frame>> = {1} /\ <<op>>[1] = op /\ <<frame>>[1] = frame
  BY DEF ToSet
<1>12. unacked' = unacked \o <<op>> /\ unacked' \in Seq(Operations) /\ ToSet(unacked') = ToSet(unacked) \cup {op}
  <2>1. unacked \in Seq(Operations)
    BY <1>4
  <2>2. Append(unacked, op) = unacked \o <<op>> /\ Append(unacked, op) \in Seq(Operations)
    BY <2>1
  <2>3. ToSet(Append(unacked, op)) = ToSet(unacked) \cup {op}
    BY <2>1, Queues
  <2>4. unacked' = Append(unacked, op)
    BY <1>7
  <2> QED
    BY <2>2, <2>3, <2>4
<1>13. open => up' = [up EXCEPT ![conn] = up[conn] \o <<frame>>]
  <2>1. ASSUME open PROVE Append(up[conn], frame) = up[conn] \o <<frame>>
    <3>1. up[conn] \in Seq(ClientFrames)
      BY <1>4, <1>9, <2>1
    <3> QED
      BY <3>1
  <2> QED
    BY <1>7, <1>10, <2>1
<1>14. engine' \in Engine /\ engine'.replica = engine.replica
       /\ engine'.nodes \cup engine'.pending = engine.nodes \cup engine.pending \cup {op}
  <2>1. {op} \in SUBSET Operations
    OBVIOUS
  <2> QED
    BY <1>4, <1>7, <2>1, ApplyAllIs DEF Engine
<1>15. Types' /\ Noted' \subseteq Noted \cup {UnackedRow(op)}
  <2>1. up' \in [Connections -> Seq(ClientFrames)]
    <3>1. CASE open
      <4>1. up[conn] \o <<frame>> \in Seq(ClientFrames)
        BY <1>4, <1>9, <1>11, <3>1, Joins
      <4> QED
        BY <1>4, <1>13, <3>1, <4>1
    <3>2. CASE ~open
      BY <1>4, <1>7, <3>2
    <3> QED
      BY <3>1, <3>2
  <2>2. /\ stored' \in SUBSET Rows /\ unstored' \in SUBSET Rows /\ flushing' \in Seq(Transactions)
        /\ Noted' \subseteq Noted \cup {UnackedRow(op)}
    <3>1. {UnackedRow(op)} \in SUBSET Rows
      BY DEF UnackedRow, Rows
    <3>2. unstored \cup {UnackedRow(op)} \in SUBSET Rows
      BY <1>1, <3>1, TypeParts
    <3>3. <<>> \in Seq(Transactions) /\ \A r \in ToSet(<<>>) : r.put \subseteq unstored
      BY NoMembers
    <3> QED
      BY <1>1, <1>7, <3>1, <3>2, <3>3, RowsWritten
  <2>3. typed' \in 0..MaxEdits
    BY <1>4
  <2> QED
    BY <1>1, <1>3, <1>12, <1>14, <2>1, <2>2, <2>3, TypeParts, TypePartsNext
<1>16. \A k \in Ids : Met(k) => k[1] # typed + 1
  BY <1>1, <1>3, NextEditFree
<1>17. \A o \in ToSet(unacked) : o \in Operations /\ o.id \in Ids /\ Met(o.id) /\ o.id[1] # typed + 1 /\ Descends(o)
                                 /\ o.id[1] \in 1..typed
  <2> SUFFICES ASSUME NEW o \in ToSet(unacked)
               PROVE  o \in Operations /\ o.id \in Ids /\ Met(o.id) /\ o.id[1] # typed + 1 /\ Descends(o)
                      /\ o.id[1] \in 1..typed
    OBVIOUS
  <2>1. o \in Operations /\ o.id \in Ids
    BY <1>4, Queues, OperationFields
  <2>2. Met(o.id) /\ Descends(o)
    BY <1>1 DEF Met, IdsOf, Identity, Descent
  <2>3. o.id[1] \in 1..typed
    BY <1>1, <2>1, <2>2 DEF Identity, Minted, Descends
  <2> QED
    BY <1>16, <2>1, <2>2, <2>3
<1>18. op.parent # Root => Met(op.parent) /\ op.parent \in Ids
  BY <1>5, <1>7 DEF Met, IdsOf
<1>19. op.parent[2] # 0 => op.parent[1] < typed + 1
  <2> SUFFICES ASSUME op.parent[2] # 0 PROVE op.parent[1] < typed + 1
    OBVIOUS
  <2>1. op.parent # Root
    BY DEF Root
  <2>2. op.parent[1] \in 1..typed
    BY <1>1, <1>18, <2>1 DEF Identity, Minted
  <2> QED
    BY <1>4, <2>2
<1>20. Fresh(op)
  <2>1. \A k \in Ids : Met(k) /\ k[1] = op.id[1] => k[2] < op.id[2]
    BY <1>8, <1>16
  <2>2. op.id[1] \notin EditsOf(ToSet(log) \cup rejected)
    <3> SUFFICES ASSUME NEW o \in ToSet(log) \cup rejected, o.id[1] = typed + 1 PROVE FALSE
      BY <1>8 DEF EditsOf
    <3>1. CASE o \in ToSet(log)
      <4>1. log \in Seq(Operations)
        BY <1>1, TypeParts
      <4>2. o \in Operations
        BY <3>1, <4>1, Queues
      <4>3. o.id \in Ids /\ Met(o.id)
        BY <3>1, <4>2, OperationFields DEF Met, IdsOf
      <4> QED
        BY <1>16, <4>3
    <3>2. CASE o \in rejected
      <4>1. o.id[1] \in 1..typed
        BY <1>1, <3>2 DEF Fates, Refusals
      <4> QED
        BY <1>4, <4>1
    <3> QED
      BY <3>1, <3>2
  <2>3. ASSUME NEW n \in Connections, NEW i \in LiveAt(n) PROVE up[n][i].op.id[1] # op.id[1]
    <3>1. i \in OpsAt(n) /\ i \in DOMAIN up[n] /\ up[n][i].kind = "op"
      BY DEF LiveAt, OpsAt
    <3>2. up[n][i] \in ClientFrames
      BY <1>4, <3>1
    <3>3. up[n][i].op.id \in Ids /\ Met(up[n][i].op.id)
      BY <3>1, <3>2, ClientFrameFields, OperationFields DEF Met
    <3> QED
      BY <1>8, <1>16, <3>3
  <2>4. op.id \notin helloUnacked
    <3> SUFFICES ASSUME op.id \in helloUnacked PROVE FALSE
      OBVIOUS
    <3>1. op.id[1] \in 1..typed
      BY <1>1 DEF Fates, Reported
    <3> QED
      BY <1>4, <1>8, <3>1
  <2>5. \A p : Answerable(p) => p.id[1] # op.id[1]
    BY <1>4, <1>8 DEF Answerable
  <2> QED
    BY <1>3, <1>8, <1>19, <2>1, <2>2, <2>3, <2>4, <2>5 DEF Fresh
<1>21. Mints(unacked, <<op>>)
  <2>1. \A o \in ToSet(<<op>>) :
          /\ Fresh(o) /\ o.id[1] \in 1..typed'
          /\ o.parent \in IdsOf(engine.nodes) \cup IdsOf(ToSet(<<op>>)) \cup {Root}
    BY <1>3, <1>4, <1>7, <1>8, <1>11, <1>20, SMTT(20)
  <2>2. \A o \in ToSet(unacked), p \in ToSet(<<op>>) :
          /\ o.id[1] # p.id[1]
          /\ o.parent[1] = p.id[1] => o.parent[2] < p.id[2]
    <3> SUFFICES ASSUME NEW o \in ToSet(unacked)
                 PROVE  /\ o.id[1] # op.id[1]
                        /\ o.parent[1] = op.id[1] => o.parent[2] < op.id[2]
      BY <1>11
    <3>1. o.parent[2] # 0 => o.parent[1] < o.id[1]
      BY <1>17 DEF Descends
    <3>2. o.parent[1] = typed + 1 => o.parent[2] = 0
      BY <1>4, <1>17, <3>1
    <3>3. engine.replica \in Nat /\ engine.replica > 0
      BY <1>4 DEF Connections
    <3> QED
      BY <1>8, <1>17, <3>2, <3>3
  <2>3. \A i, j \in DOMAIN <<op>> : <<op>>[i].parent = <<op>>[j].id => j < i
    <3>1. op.parent # op.id
      BY <1>8, <1>16, <1>18, IdFields
    <3> QED
      BY <1>11, <3>1
  <2>4. \A i, j \in DOMAIN <<op>> : i # j => <<op>>[i].id[1] # <<op>>[j].id[1]
    BY <1>11
  <2>5. \A i, j \in DOMAIN unacked : /\ unacked[i].parent = unacked[j].id => j < i
                                     /\ i # j => unacked[i].id[1] # unacked[j].id[1]
    BY <1>1 DEF Identity, ParentsFirst, Fates, Distinct
  <2>6. ToSet(unacked') = ToSet(unacked) \cup {op}
    BY <1>12
  <2>7. \A o \in Operations : RejectedRow(o) \in Noted' => RejectedRow(o) \in Noted
    <3>1. \A o \in Operations : RejectedRow(o) # UnackedRow(op)
      BY DEF UnackedRow, RejectedRow
    <3> QED
      BY <1>15, <3>1
  <2>9. \/ ~open /\ up' = up
        \/ /\ open
           /\ \E frames \in Seq(ClientFrames) :
                /\ DOMAIN frames = DOMAIN <<op>>
                /\ \A i \in DOMAIN <<op>> : frames[i].kind = "op" /\ frames[i].op = <<op>>[i]
                /\ up' = [up EXCEPT ![conn] = up[conn] \o frames]
    <3>1. CASE open
      <4>1. /\ DOMAIN <<frame>> = DOMAIN <<op>>
            /\ \A i \in DOMAIN <<op>> : <<frame>>[i].kind = "op" /\ <<frame>>[i].op = <<op>>[i]
        BY <1>10, <1>11
      <4> QED
        BY <1>11, <1>13, <3>1, <4>1
    <3>2. CASE ~open
      BY <1>7, <3>2
    <3> QED
      BY <3>1, <3>2
  <2>10. typed' \in Nat /\ typed <= typed'
    BY <1>3, <1>4
  <2> QED
    BY <1>3, <1>4, <1>11, <1>12, <1>14, <2>1, <2>2, <2>3, <2>4, <2>5, <2>7, <2>9, <2>10 DEF Mints
<1>22. MintsAnew(unacked, <<op>>)
  <2>1. \A o \in ToSet(<<op>>) : o.id[1] > typed
    BY <1>4, <1>8, <1>11
  <2> QED
    BY <1>7, <1>11, <1>21, <2>1 DEF MintsAnew
<1> QED
  BY <1>4, <1>11, <1>15, <1>22 DEF Anew

\* Typing keeps the invariant.
LEMMA TypeStep ==
  ASSUME IInv, Type
  PROVE  IInv'
<1>1. Types' /\ Anew
  BY TypeMints
<1>2. PICK rest \in Seq(Operations), new \in Seq(Operations) : MintsAnew(rest, new)
  BY <1>1 DEF Anew
<1> QED
  BY <1>1, <1>2, MintsStep DEF MintsAnew

\* Only the rows of the durable queue move.
RowsMove ==
  UNCHANGED <<faults, server, session, network, conn, open, synced, engine, unacked, helloUnacked,
              seqs, gate, rejected, typed, reloads>>

\* They may move as long as no rejection is noted that was not noted before.
LEMMA RowsMoveStep ==
  ASSUME IInv, RowsMove, Noted' \subseteq Noted,
         stored' \in SUBSET Rows, unstored' \in SUBSET Rows, flushing' \in Seq(Transactions)
  PROVE  IInv'
<1>1. Types /\ Talks /\ Successions /\ Renewals /\ Carried /\ Identity /\ Fates
  BY DEF IInv
<1>2. /\ faults' = faults /\ log' = log /\ committed' = committed /\ parked' = parked
      /\ session' = session /\ up' = up /\ ops' = ops /\ control' = control /\ conn' = conn
      /\ open' = open /\ synced' = synced /\ engine' = engine /\ unacked' = unacked
      /\ helloUnacked' = helloUnacked /\ seqs' = seqs /\ gate' = gate /\ rejected' = rejected
      /\ typed' = typed /\ reloads' = reloads
  BY DEF RowsMove, server, network
<1>3. Types'
  BY <1>1, <1>2, TypeParts, TypePartsNext
<1>4. Talks' /\ Calm
  BY <1>1, <1>2, AsideKeeps DEF Aside
<1>5. Successions'
  BY <1>1, <1>2 DEF Successions, Alone
<1>6. Renewals'
  BY <1>1, <1>2 DEF Renewals
<1>7. Carried'
  BY <1>1, <1>2 DEF Carried, Told
<1>8. Identity'
  <2>1. Fed /\ conn' \in Nat /\ conn' >= conn
    BY <1>1, <1>2, TypeParts DEF Fed
  <2>2. ParentsFirst'
    BY <1>1, <1>2 DEF Identity, ParentsFirst
  <2> QED
    BY <1>1, <1>4, <2>1, <2>2, CalmIdentity DEF Identity
<1>9. Lively' /\ Single' /\ Forward' /\ Hopeless' /\ Unsaved'
  BY <1>1, <1>2, <1>3, <1>4, CalmFates
<1>10. Distinct' /\ Refusals'
  BY <1>1, <1>2 DEF Fates, Distinct, Refusals
<1>11. Stored'
  BY <1>1, <1>2 DEF Fates, Stored
<1>12. Answers'
  <2>1. open => conn \in Connections
    BY <1>1, TypeParts, Bounds DEF Successions, Connections
  <2> QED
    BY <1>1, <1>2, <1>4, <2>1, CalmAnswers DEF Fates
<1>13. Reported'
  BY <1>1, <1>2 DEF Fates, Reported, Had, Alone
<1> QED
  BY <1>3, <1>4, <1>5, <1>6, <1>7, <1>8, <1>9, <1>10, <1>11, <1>12, <1>13 DEF IInv, Fates

\* The debounced write of the rows that wait.
LEMMA FlushStep ==
  ASSUME IInv, Flush
  PROVE  IInv'
<1>1. Types /\ unstored \in SUBSET Rows
  BY TypeParts DEF IInv
<1>2. PICK t \in Transactions : t = Transaction(unstored, {}) /\ t.put = unstored
  <2>1. {} \in SUBSET Ids
    OBVIOUS
  <2> QED
    BY <1>1, <2>1, TransactionIs
<1>3. <<t>> \in Seq(Transactions) /\ ToSet(<<t>>) = {t}
  BY DEF ToSet
<1>4. WriteRows(<<t>>, {}) /\ RowsMove
  BY <1>2 DEF Flush, RowsMove
<1>5. /\ stored' \in SUBSET Rows /\ unstored' \in SUBSET Rows /\ flushing' \in Seq(Transactions)
      /\ Noted' \subseteq Noted \cup {}
  BY <1>1, <1>2, <1>3, <1>4, RowsWritten
<1> QED
  BY <1>4, <1>5, RowsMoveStep

\* A transaction commits or fails.
LEMMA TransactionStep ==
  ASSUME IInv, CommitRows \/ LoseRows
  PROVE  IInv'
<1>1. Types /\ stored \in SUBSET Rows /\ unstored \in SUBSET Rows /\ flushing \in Seq(Transactions)
  BY TypeParts DEF IInv
<1>2. /\ flushing # <<>> /\ flushing' = Tail(flushing) /\ unstored' = unstored /\ RowsMove
      /\ stored' = Written(Head(flushing)) \/ stored' = stored
  BY DEF CommitRows, LoseRows, EndTransaction, RowsMove
<1>3. /\ Tail(flushing) \in Seq(Transactions) /\ Head(flushing) \in Transactions
      /\ ToSet(flushing) = {Head(flushing)} \cup ToSet(Tail(flushing))
  BY <1>1, <1>2, Queues
<1>4. stored' \subseteq stored \cup Head(flushing).put /\ Head(flushing).put \in SUBSET Rows
  BY <1>2, <1>3 DEF Written, Transactions
<1>5. Noted' \subseteq Noted
  BY <1>2, <1>3, <1>4 DEF Noted
<1> QED
  BY <1>1, <1>2, <1>3, <1>4, <1>5, RowsMoveStep

\* The removals of the operations reported.
LEMMA RemovalsAre ==
  ASSUME Types, NEW queue \in Seq(Operations)
  PROVE  /\ Removals(queue) \in Seq(Transactions)
         /\ \A t \in ToSet(Removals(queue)) : t.put \subseteq unstored
<1>1. unstored \in SUBSET Rows
  BY TypeParts
<1>2. PICK m \in Nat : DOMAIN queue = 1..m
  OBVIOUS
<1>3. ASSUME NEW i \in 1..m
      PROVE  /\ Transaction(IF i = 1 THEN unstored ELSE {}, {queue[i].id}) \in Transactions
             /\ Transaction(IF i = 1 THEN unstored ELSE {}, {queue[i].id}).put \subseteq unstored
  <2>1. queue[i] \in Operations
    BY <1>2, <1>3
  <2>2. queue[i].id \in Ids
    BY <2>1, OperationFields
  <2>3. PICK put : put = IF i = 1 THEN unstored ELSE {}
    OBVIOUS
  <2>4. put \in SUBSET Rows /\ put \subseteq unstored
    BY <1>1, <2>3
  <2>5. Transaction(put, {queue[i].id}) \in Transactions /\ Transaction(put, {queue[i].id}).put = put
    BY <2>2, <2>4, TransactionIs
  <2> QED
    BY <2>3, <2>4, <2>5
<1>4. Removals(queue) = [i \in 1..m |-> Transaction(IF i = 1 THEN unstored ELSE {}, {queue[i].id})]
  BY <1>2 DEF Removals
<1>5. Removals(queue) \in [1..m -> Transactions]
  BY <1>3, <1>4
<1>6. Removals(queue) \in Seq(Transactions)
  BY <1>5, Indexed
<1>7. ASSUME NEW t \in ToSet(Removals(queue)) PROVE t.put \subseteq unstored
  <2>1. PICK i \in 1..m : t = Removals(queue)[i]
    BY <1>4 DEF ToSet
  <2> QED
    BY <1>3, <1>4, <2>1
<1> QED
  BY <1>6, <1>7

\* What is kept of a queue is in the order of the queue, and no edit comes twice.
LEMMA KeptInOrder ==
  ASSUME NEW queue \in Seq(Operations), NEW S, NEW kept \in Seq(Operations),
         \E from : KeptFrom(queue, S, kept, from),
         \A i, j \in DOMAIN queue : queue[i].parent = queue[j].id => j < i,
         \A i, j \in DOMAIN queue : i # j => queue[i].id[1] # queue[j].id[1]
  PROVE  /\ \A i, j \in DOMAIN kept : kept[i].parent = kept[j].id => j < i
         /\ \A i, j \in DOMAIN kept : i # j => kept[i].id[1] # kept[j].id[1]
<1>1. PICK from : KeptFrom(queue, S, kept, from)
  OBVIOUS
<1>2. \A i \in DOMAIN kept : i \in Int /\ from[i] \in DOMAIN queue /\ from[i] \in Int /\ kept[i] = queue[from[i]]
  <2>1. (\A i \in DOMAIN kept : i \in Int) /\ (\A i \in DOMAIN queue : i \in Int)
    OBVIOUS
  <2> QED
    BY <1>1, <2>1 DEF KeptFrom
<1>3. \A i, j \in DOMAIN kept : i < j => from[i] < from[j]
  BY <1>1 DEF KeptFrom
<1>4. ASSUME NEW i \in DOMAIN kept, NEW j \in DOMAIN kept, kept[i].parent = kept[j].id PROVE j < i
  <2>1. from[j] < from[i]
    BY <1>2, <1>4
  <2> QED
    BY <1>2, <1>3, <2>1
<1>5. ASSUME NEW i \in DOMAIN kept, NEW j \in DOMAIN kept, i # j PROVE kept[i].id[1] # kept[j].id[1]
  <2>1. from[i] # from[j]
    BY <1>2, <1>3, <1>5
  <2> QED
    BY <1>2, <2>1
<1> QED
  BY <1>4, <1>5

\* Operations that are minted again keep their edits, and their parents or what
\* these have become.
LEMMA RemintedIs ==
  ASSUME NEW queue \in Seq(Operations), engine \in Engine, engine.replica # 0,
         \A o \in ToSet(queue) : o.id[2] # 0
  PROVE  /\ Reminted(queue) \in Seq(Operations) /\ DOMAIN Reminted(queue) = DOMAIN queue
         /\ \A i \in DOMAIN queue :
              /\ Reminted(queue)[i].id = <<queue[i].id[1], engine.replica>>
              /\ \/ \E j \in DOMAIN queue : /\ queue[i].parent = queue[j].id
                                            /\ Reminted(queue)[i].parent = Reminted(queue)[j].id
                 \/ Reminted(queue)[i].parent = queue[i].parent /\ queue[i].parent \in IdsOf(engine.nodes)
                 \/ Reminted(queue)[i].parent = Root
<1> DEFINE anchor(id) == IF id \in IdsOf(ToSet(queue)) THEN <<id[1], engine.replica>>
                         ELSE IF id \in IdsOf(engine.nodes) THEN id ELSE Root
           op(i) == Op(<<queue[i].id[1], engine.replica>>, anchor(queue[i].parent))
<1>1. Reminted(queue) = [i \in DOMAIN queue |-> op(i)]
  BY DEF Reminted
<1>2. PICK m \in Nat : m = Len(queue) /\ DOMAIN queue = 1..m
  OBVIOUS
<1>3. \A i \in DOMAIN queue : queue[i] \in ToSet(queue) /\ queue[i] \in Operations
  BY DEF ToSet
<1>4. engine.replica \in Connections /\ engine.nodes \in SUBSET Operations
  BY Bounds DEF Engine, Connections
<1>5. \A o \in ToSet(queue) : <<o.id[1], engine.replica>> \in Ids
  <2> SUFFICES ASSUME NEW o \in ToSet(queue) PROVE <<o.id[1], engine.replica>> \in Ids
    OBVIOUS
  <2>1. o \in Operations
    BY Queues
  <2>2. o.id[1] \in Edits
    BY <2>1, OperationFields, IdFields
  <2> QED
    BY <1>4, <2>2 DEF Ids
<1>6. \A k : anchor(k) \in Ids \cup {Root}
  <2>1. \A k : k \in IdsOf(ToSet(queue)) => <<k[1], engine.replica>> \in Ids
    BY <1>5 DEF IdsOf
  <2>2. \A k : k \in IdsOf(engine.nodes) => k \in Ids
    BY <1>4, OperationFields DEF IdsOf
  <2> QED
    BY <2>1, <2>2
<1>7. \A i \in DOMAIN queue : /\ op(i) \in Operations
                              /\ op(i).id = <<queue[i].id[1], engine.replica>>
                              /\ op(i).parent = anchor(queue[i].parent)
  BY <1>3, <1>5, <1>6 DEF Op, Operations
<1>8. Reminted(queue) \in Seq(Operations) /\ DOMAIN Reminted(queue) = DOMAIN queue
  BY <1>1, <1>2, <1>7, SMTT(20)
<1>9. ASSUME NEW i \in DOMAIN queue
      PROVE  \/ \E j \in DOMAIN queue : /\ queue[i].parent = queue[j].id
                                        /\ Reminted(queue)[i].parent = Reminted(queue)[j].id
             \/ Reminted(queue)[i].parent = queue[i].parent /\ queue[i].parent \in IdsOf(engine.nodes)
             \/ Reminted(queue)[i].parent = Root
  <2>1. Reminted(queue)[i].parent = anchor(queue[i].parent)
    BY <1>1, <1>7
  <2>2. CASE queue[i].parent \in IdsOf(ToSet(queue))
    <3>1. PICK j \in DOMAIN queue : queue[i].parent = queue[j].id
      BY <2>2 DEF IdsOf, ToSet
    <3>2. Reminted(queue)[j].id = <<queue[j].id[1], engine.replica>>
      BY <1>1, <1>7
    <3> QED
      BY <2>1, <2>2, <3>1, <3>2
  <2> QED
    BY <2>1, <2>2
<1> QED
  BY <1>1, <1>7, <1>8, <1>9

\* ALREADY_HAVE is handled: what the server does not have is minted again and
\* sent.
LEMMA FinishMints ==
  ASSUME IInv, FinishHandshake
  PROVE  Types' /\ Anew
<1>1. Types /\ Talks /\ Successions /\ Renewals /\ Carried /\ Identity /\ Fates
  BY DEF IInv
<1>2. PICK f \in Frames : f = gate[1] /\ f.kind = "have" /\ gate # <<>> /\ f \in ToSet(gate) /\ 1 \in DOMAIN gate
                          /\ ToSet(Tail(gate)) \subseteq ToSet(gate) /\ Tail(gate) \in Seq(Frames)
  BY <1>1, GateIs DEF FinishHandshake
<1>3. /\ engine \in Engine /\ unacked \in Seq(Operations) /\ up \in [Connections -> Seq(ClientFrames)]
      /\ conn \in 0..MaxConnections /\ typed \in Nat /\ gate \in Seq(Frames)
      /\ stored \in SUBSET Rows
      /\ unstored \in SUBSET Rows
  BY <1>1, TypeParts, Bounds
<1>4. conn \in Connections /\ engine.replica = conn /\ engine.replica # 0
  <2>1. conn > 0
    BY <1>1, <1>2 DEF Successions
  <2>2. engine.replica = conn
    BY <1>1, <1>2 DEF Renewals
  <2> QED
    BY <1>3, <2>1, <2>2, Bounds DEF Connections
<1>5. Had(f) /\ Alone(conn)
  BY <1>1, <1>2 DEF Fates, Reported, Had
<1>6. PICK hello : hello = {op \in ToSet(unacked) : op.id \in helloUnacked}
  OBVIOUS
<1>7. PICK reported \in Seq(Operations) :
        /\ reported = Kept(unacked, hello) /\ ToSet(reported) = hello
        /\ \E from : KeptFrom(unacked, hello, reported, from)
  <2>1. /\ Kept(unacked, hello) \in Seq(Operations) /\ ToSet(Kept(unacked, hello)) = ToSet(unacked) \cap hello
        /\ \E from : KeptFrom(unacked, hello, Kept(unacked, hello), from)
    BY <1>3, KeptIs
  <2>2. ToSet(unacked) \cap hello = hello
    BY <1>6
  <2> QED
    BY <2>1, <2>2
<1>8. PICK recon \in Seq(Operations) :
        /\ recon = ToReconcile(reported, f.ids)
        /\ ToSet(recon) = {op \in ToSet(unacked) : op.id \in helloUnacked /\ op.id \notin f.ids}
        /\ \E S, from : KeptFrom(reported, S, recon, from)
  <2>1. PICK H : H = {op \in ToSet(reported) : op.id \in f.ids}
    OBVIOUS
  <2>2. /\ Dropped(reported, H) \in Seq(Operations) /\ ToSet(Dropped(reported, H)) = ToSet(reported) \ H
        /\ \E from : KeptFrom(reported, ToSet(reported) \ H, Dropped(reported, H), from)
    BY DroppedIs
  <2>3. ToSet(reported) \ H = {op \in ToSet(unacked) : op.id \in helloUnacked /\ op.id \notin f.ids}
    BY <1>6, <1>7, <2>1
  <2>4. ToReconcile(reported, f.ids) = Dropped(reported, H)
    BY <2>1 DEF ToReconcile
  <2> QED
    BY <2>2, <2>3, <2>4
<1>9. PICK rest \in Seq(Operations) :
        /\ rest = Dropped(unacked, hello) /\ ToSet(rest) = ToSet(unacked) \ hello
        /\ \E from : KeptFrom(unacked, ToSet(unacked) \ hello, rest, from)
  BY <1>3, DroppedIs
<1>10. /\ \A i, j \in DOMAIN unacked : unacked[i].parent = unacked[j].id => j < i
       /\ \A i, j \in DOMAIN unacked : i # j => unacked[i].id[1] # unacked[j].id[1]
  BY <1>1 DEF Identity, ParentsFirst, Fates, Distinct
<1>11. /\ \A i, j \in DOMAIN rest : rest[i].parent = rest[j].id => j < i
       /\ \A i, j \in DOMAIN rest : i # j => rest[i].id[1] # rest[j].id[1]
  BY <1>3, <1>9, <1>10, KeptInOrder
<1>12. /\ \A i, j \in DOMAIN recon : recon[i].parent = recon[j].id => j < i
       /\ \A i, j \in DOMAIN recon : i # j => recon[i].id[1] # recon[j].id[1]
  <2>1. /\ \A i, j \in DOMAIN reported : reported[i].parent = reported[j].id => j < i
        /\ \A i, j \in DOMAIN reported : i # j => reported[i].id[1] # reported[j].id[1]
    BY <1>3, <1>7, <1>10, KeptInOrder
  <2>2. PICK S : \E from : KeptFrom(reported, S, recon, from)
    BY <1>8
  <2> QED
    BY <2>1, <2>2, KeptInOrder
<1>13. \A o \in ToSet(unacked) : /\ o \in Operations /\ o.id \in Ids /\ Met(o.id) /\ Descends(o) /\ o.id[2] # 0
                                 /\ o.id[1] \in 1..typed /\ o.id[1] \in Nat /\ o.id[2] \in Nat
  <2> SUFFICES ASSUME NEW o \in ToSet(unacked)
               PROVE  /\ o \in Operations /\ o.id \in Ids /\ Met(o.id) /\ Descends(o) /\ o.id[2] # 0
                      /\ o.id[1] \in 1..typed /\ o.id[1] \in Nat /\ o.id[2] \in Nat
    OBVIOUS
  <2>1. o \in Operations
    BY <1>3, Queues
  <2>2. o.id \in Ids /\ Met(o.id) /\ Descends(o)
    BY <1>1, <2>1, OperationFields DEF Met, IdsOf, Identity, Descent
  <2>3. o.id[1] \in Nat /\ o.id[2] \in Nat
    BY <2>2, IdFields, Bounds
  <2>4. o.id[1] \in 1..typed
    BY <1>1, <2>2 DEF Identity, Minted, Descends
  <2> QED
    BY <2>1, <2>2, <2>3, <2>4 DEF Descends
<1>14. \A o \in ToSet(recon) : /\ o \in ToSet(unacked) /\ o.id[2] < conn
                               /\ o.id[1] \notin EditsOf(ToSet(log))
                               /\ o.id[1] \notin EditsOf(rejected)
  <2> SUFFICES ASSUME NEW o \in ToSet(recon)
               PROVE  /\ o \in ToSet(unacked) /\ o.id[2] < conn
                      /\ o.id[1] \notin EditsOf(ToSet(log))
                      /\ o.id[1] \notin EditsOf(rejected)
    OBVIOUS
  <2>1. o \in ToSet(unacked) /\ o.id \in helloUnacked /\ o.id \notin f.ids
    BY <1>8
  <2>2. o.id[2] < conn
    BY <1>1, <2>1 DEF Fates, Reported
  <2> QED
    BY <1>1, <1>5, <2>1, <2>2 DEF Had, Fates, Unsaved
<1>15. \A i \in DOMAIN recon : recon[i] \in ToSet(recon)
  BY DEF ToSet
<1>16. PICK new \in Seq(Operations) :
         /\ new = Reminted(recon) /\ DOMAIN new = DOMAIN recon
         /\ \A i \in DOMAIN recon :
              /\ new[i].id = <<recon[i].id[1], conn>>
              /\ \/ \E j \in DOMAIN recon : recon[i].parent = recon[j].id /\ new[i].parent = new[j].id
                 \/ new[i].parent = recon[i].parent /\ recon[i].parent \in IdsOf(engine.nodes)
                 \/ new[i].parent = Root
  <2>1. \A o \in ToSet(recon) : o.id[2] # 0
    BY <1>13, <1>14
  <2>2. /\ Reminted(recon) \in Seq(Operations) /\ DOMAIN Reminted(recon) = DOMAIN recon
        /\ \A i \in DOMAIN recon :
             /\ Reminted(recon)[i].id = <<recon[i].id[1], engine.replica>>
             /\ \/ \E j \in DOMAIN recon : /\ recon[i].parent = recon[j].id
                                           /\ Reminted(recon)[i].parent = Reminted(recon)[j].id
                \/ Reminted(recon)[i].parent = recon[i].parent /\ recon[i].parent \in IdsOf(engine.nodes)
                \/ Reminted(recon)[i].parent = Root
    BY <1>3, <1>4, <2>1, RemintedIs
  <2> QED
    BY <1>4, <2>2
<1>17. PICK frames \in Seq(ClientFrames) :
         /\ DOMAIN frames = DOMAIN new
         /\ \A i \in DOMAIN new : frames[i].kind = "op" /\ frames[i].op = new[i]
         /\ frames = [i \in DOMAIN new |-> [kind |-> "op", op |-> new[i]]]
  <2>1. \A i \in DOMAIN new : [kind |-> "op", op |-> new[i]] \in ClientFrames
    BY DEF ClientFrames
  <2>2. PICK m \in Nat : DOMAIN new = 1..m
    OBVIOUS
  <2>3. [i \in DOMAIN new |-> [kind |-> "op", op |-> new[i]]] \in Seq(ClientFrames)
    BY <2>1, <2>2, SMTT(20)
  <2> QED
    BY <2>3
<1>18. /\ faults' = faults /\ log' = log /\ committed' = committed /\ parked' = parked
       /\ session' = session /\ ops' = ops /\ control' = control /\ conn' = conn
       /\ open' = open /\ synced' = TRUE /\ helloUnacked' = helloUnacked /\ seqs' = seqs
       /\ rejected' = rejected /\ typed' = typed /\ reloads' = reloads
       /\ gate' = Tail(gate) /\ unacked' = rest \o new
       /\ WriteRows(Removals(reported), (IF reported = <<>> THEN unstored ELSE {})
                                        \cup {UnackedRow(op) : op \in ToSet(new)})
       /\ engine' = ApplyAll(engine, ToSet(new))
       /\ up' = IF open THEN [up EXCEPT ![conn] = up[conn] \o frames] ELSE up
  BY <1>2, <1>6, <1>7, <1>8, <1>9, <1>16, <1>17 DEF FinishHandshake, server, QueueAgain
<1>19. \A x \in DOMAIN new : /\ x \in DOMAIN recon /\ recon[x] \in ToSet(recon) /\ recon[x] \in ToSet(unacked)
                             /\ new[x].id[1] = recon[x].id[1] /\ new[x].id[2] = conn
  BY <1>14, <1>15, <1>16
<1>20. \A o \in ToSet(new) : \E x \in DOMAIN new : o = new[x]
  BY DEF ToSet
<1>21. conn \in Nat /\ conn > 0
  BY <1>4 DEF Connections
<1>22. \A k \in Ids : k \in IdsOf(engine.nodes) => Met(k)
  BY DEF Met, IdsOf
<1>23. \A o \in ToSet(recon) : o \in ToSet(unacked) /\ o.id \in helloUnacked
  BY <1>8
<1>24. \A k \in Ids, o \in ToSet(recon) : Met(k) /\ k[1] = o.id[1] => k[2] < conn
  <2> SUFFICES ASSUME NEW k \in Ids, NEW o \in ToSet(recon), Met(k), k[1] = o.id[1] PROVE k[2] < conn
    OBVIOUS
  <2>1. k[2] <= o.id[2] /\ o.id[2] < conn
    BY <1>1, <1>14 DEF Identity, Newest
  <2>2. k[2] \in Nat /\ o.id[2] \in Nat
    BY <1>13, <1>14, IdFields, Bounds
  <2> QED
    BY <1>21, <2>1, <2>2
<1>25. \A x \in DOMAIN new : Fresh(new[x])
  <2> SUFFICES ASSUME NEW x \in DOMAIN new PROVE Fresh(new[x])
    OBVIOUS
  <2>1. PICK r \in ToSet(recon) : r = recon[x] /\ r \in ToSet(unacked) /\ r.id \in helloUnacked
                                  /\ new[x].id[1] = r.id[1] /\ new[x].id[2] = conn
    BY <1>19, <1>23
  <2>2. \A k \in Ids : Met(k) /\ k[1] = new[x].id[1] => k[2] < new[x].id[2]
    BY <1>24, <2>1
  <2>3. new[x].id[1] \notin EditsOf(ToSet(log) \cup rejected)
    BY <1>14, <2>1 DEF EditsOf
  <2>4. ASSUME NEW n \in Connections, NEW i \in LiveAt(n), up[n][i].op.id[1] = r.id[1] PROVE FALSE
    <3>1. up[n][i].op.id = r.id
      BY <1>1, <2>1, <2>4 DEF Fates, Unsaved
    <3>2. session[n].stage # "closed" /\ n = r.id[2]
      BY <3>1 DEF LiveAt
    <3>3. n < conn
      BY <1>14, <3>2
    <3>4. n \in 1..(conn - 1)
      BY <1>21, <3>3 DEF Connections
    <3> QED
      BY <1>5, <3>2, <3>4 DEF Alone
  <2>5. new[x].id \notin helloUnacked
    <3> SUFFICES ASSUME new[x].id \in helloUnacked PROVE FALSE
      OBVIOUS
    <3>1. new[x].id[2] < conn
      BY <1>1 DEF Fates, Reported
    <3> QED
      BY <1>21, <2>1, <3>1
  <2>6. ASSUME NEW p, Answerable(p), p.id[1] = r.id[1] PROVE FALSE
    <3>1. Awaited(p) /\ p.id \notin helloUnacked
      BY <2>6 DEF Answerable
    <3>2. r.id[1] \in EditsOf(ToSet(unacked))
      BY <2>1 DEF EditsOf
    <3>3. p \in ToSet(unacked)
      BY <2>6, <3>1, <3>2 DEF Awaited
    <3>4. p = r
      BY <1>1, <2>1, <2>6, <3>3, OnceQueued DEF Fates
    <3> QED
      BY <2>1, <3>1, <3>4
  <2>7. new[x].parent[2] # 0 => new[x].parent[1] < new[x].id[1]
    <3>1. Descends(r)
      BY <1>13, <2>1
    <3>2. ASSUME NEW j \in DOMAIN recon, recon[x].parent = recon[j].id, new[x].parent = new[j].id
          PROVE  new[x].parent[1] < new[x].id[1]
      <4>1. recon[j].id[2] # 0 /\ new[j].id[1] = recon[j].id[1]
        BY <1>13, <1>16, <1>19
      <4> QED
        BY <2>1, <3>1, <3>2, <4>1 DEF Descends
    <3>3. CASE new[x].parent = recon[x].parent
      BY <2>1, <3>1, <3>3 DEF Descends
    <3>4. CASE new[x].parent = Root
      BY <3>4 DEF Root
    <3> QED
      BY <1>16, <3>2, <3>3, <3>4
  <2> QED
    BY <1>4, <2>1, <2>2, <2>3, <2>4, <2>5, <2>6, <2>7 DEF Fresh
<1>26. ASSUME NEW o \in ToSet(new)
       PROVE  /\ Fresh(o) /\ o.id[1] \in 1..typed'
              /\ o.parent \in IdsOf(engine.nodes) \cup IdsOf(ToSet(new)) \cup {Root}
  <2>1. PICK x \in DOMAIN new : o = new[x]
    BY <1>20
  <2>2. o.id[1] \in 1..typed'
    BY <1>13, <1>18, <1>19, <2>1
  <2>3. \A j \in DOMAIN new : new[j].id \in IdsOf(ToSet(new))
    BY DEF IdsOf, ToSet
  <2>4. o.parent \in IdsOf(engine.nodes) \cup IdsOf(ToSet(new)) \cup {Root}
    BY <1>16, <2>1, <2>3
  <2> QED
    BY <1>25, <2>1, <2>2, <2>4
<1>27. ASSUME NEW o \in ToSet(rest), NEW p \in ToSet(new)
       PROVE  /\ o.id[1] # p.id[1]
              /\ o.parent[1] = p.id[1] => o.parent[2] < p.id[2]
  <2>1. PICK x \in DOMAIN new : p = new[x]
    BY <1>20
  <2>2. PICK r \in ToSet(recon) : r \in ToSet(unacked) /\ r.id \in helloUnacked /\ r.id[2] < conn
                                  /\ p.id[1] = r.id[1] /\ p.id[2] = conn
    BY <1>14, <1>19, <1>23, <2>1
  <2>3. o \in ToSet(unacked) /\ o # r
    BY <1>6, <1>9, <2>2
  <2>4. o.id[1] # r.id[1]
    BY <1>1, <2>2, <2>3, OnceQueued DEF Fates
  <2>5. o.parent[1] = r.id[1] => o.parent[2] <= r.id[2]
    BY <1>1, <2>2, <2>3 DEF Identity, ParentsFirst
  <2>6. o.parent[2] \in Nat /\ r.id[2] \in Nat
    <3>1. o.parent \in Ids \/ o.parent = Root
      BY <1>13, <2>3, OperationFields
    <3> QED
      BY <1>13, <2>2, <3>1, IdFields, Bounds, SMTT(20) DEF Root
  <2> QED
    <3>1. o.id[1] # p.id[1]
      BY <2>2, <2>4
    <3>2. ASSUME o.parent[1] = p.id[1] PROVE o.parent[2] < p.id[2]
      <4>1. o.parent[2] <= r.id[2]
        BY <2>2, <2>5, <3>2
      <4> QED
        BY <1>21, <2>2, <2>6, <4>1
    <3> QED
      BY <3>1, <3>2
<1>28. ASSUME NEW i \in DOMAIN new, NEW j \in DOMAIN new, new[i].parent = new[j].id
       PROVE  j < i
  <2>1. i \in DOMAIN recon /\ j \in DOMAIN recon /\ new[j].id = <<recon[j].id[1], conn>>
    BY <1>16
  <2>2. ASSUME NEW l \in DOMAIN recon, recon[i].parent = recon[l].id, new[i].parent = new[l].id PROVE j < i
    <3>1. recon[l].id[1] = recon[j].id[1]
      BY <1>16, <1>28, <2>1, <2>2
    <3>2. l = j
      BY <1>12, <2>1, <3>1
    <3> QED
      BY <1>12, <2>1, <2>2, <3>2
  <2>3. CASE new[i].parent = recon[i].parent /\ recon[i].parent \in IdsOf(engine.nodes)
    <3>1. new[j].id \in Ids
      BY <1>28, OperationFields
    <3>2. Met(new[j].id)
      BY <1>22, <1>28, <2>3, <3>1
    <3>3. new[j].id[2] < conn
      BY <1>19, <1>24, <3>1, <3>2
    <3> QED
      BY <1>19, <1>21, <3>3
  <2>4. CASE new[i].parent = Root
    <3>1. new[j].id[2] = 0
      BY <1>28, <2>4 DEF Root
    <3> QED
      BY <1>19, <1>21, <3>1
  <2> QED
    BY <1>16, <2>1, <2>2, <2>3, <2>4
<1>29. \A i, j \in DOMAIN new : i # j => new[i].id[1] # new[j].id[1]
  BY <1>12, <1>19
<1>30. engine' \in Engine /\ engine'.replica = engine.replica
       /\ engine'.nodes \cup engine'.pending = engine.nodes \cup engine.pending \cup ToSet(new)
  <2>1. ToSet(new) \in SUBSET Operations
    BY Queues
  <2> QED
    BY <1>3, <1>18, <2>1, ApplyAllIs DEF Engine
<1>31. ToSet(unacked') = ToSet(rest) \cup ToSet(new) /\ unacked' \in Seq(Operations)
  <2>1. ToSet(rest \o new) = ToSet(rest) \cup ToSet(new) /\ rest \o new \in Seq(Operations)
    BY Joins
  <2> QED
    BY <1>18, <2>1
<1>32. /\ stored' \in SUBSET Rows /\ unstored' \in SUBSET Rows /\ flushing' \in Seq(Transactions)
       /\ Noted' \subseteq Noted \cup {UnackedRow(op) : op \in ToSet(new)}
  <2>1. \A o \in ToSet(new) : o \in Operations
    BY Queues
  <2>2. {UnackedRow(op) : op \in ToSet(new)} \in SUBSET Rows
    BY <2>1 DEF UnackedRow, Rows
  <2>3. PICK waiting : waiting = (IF reported = <<>> THEN unstored ELSE {})
                                 \cup {UnackedRow(op) : op \in ToSet(new)}
    OBVIOUS
  <2>4. waiting \in SUBSET Rows /\ waiting \subseteq unstored \cup {UnackedRow(op) : op \in ToSet(new)}
    BY <1>3, <2>2, <2>3
  <2>5. /\ Removals(reported) \in Seq(Transactions)
        /\ \A r \in ToSet(Removals(reported)) : r.put \subseteq unstored
    BY <1>1, RemovalsAre
  <2>6. WriteRows(Removals(reported), waiting)
    BY <1>18, <2>3
  <2> HIDE DEF WriteRows
  <2> QED
    BY <1>1, <2>2, <2>4, <2>5, <2>6, RowsWritten
<1>33. Types'
  <2>1. up' \in [Connections -> Seq(ClientFrames)]
    <3>1. up[conn] \in Seq(ClientFrames)
      BY <1>3, <1>4
    <3>2. up[conn] \o frames \in Seq(ClientFrames)
      BY <3>1, Joins
    <3> QED
      BY <1>3, <1>18, <3>2
  <2>2. synced' \in BOOLEAN /\ gate' \in Seq(Frames)
    BY <1>2, <1>18
  <2> QED
    BY <1>1, <1>18, <1>30, <1>31, <1>32, <2>1, <2>2, TypeParts, TypePartsNext
<1>34. \A o \in Operations : RejectedRow(o) \in Noted' => RejectedRow(o) \in Noted
  <2>1. \A o, p \in Operations : RejectedRow(o) # UnackedRow(p)
    BY DEF UnackedRow, RejectedRow
  <2>2. \A p \in ToSet(new) : p \in Operations
    BY Queues
  <2> QED
    BY <1>32, <2>1, <2>2
<1>36. \/ ~open /\ up' = up
       \/ /\ open
          /\ \E sent \in Seq(ClientFrames) :
               /\ DOMAIN sent = DOMAIN new
               /\ \A i \in DOMAIN new : sent[i].kind = "op" /\ sent[i].op = new[i]
               /\ up' = [up EXCEPT ![conn] = up[conn] \o sent]
  BY <1>17, <1>18
<1>37. \A o \in ToSet(unacked) : o \in ToSet(rest) \/ o.id \in helloUnacked
  BY <1>6, <1>9
<1>38. Mints(rest, new)
  <2>1. ToSet(rest) \subseteq ToSet(unacked)
    BY <1>9
  <2>2. typed' \in Nat /\ typed <= typed' /\ gate' \in Seq(Frames) /\ ToSet(gate') \subseteq ToSet(gate)
    BY <1>2, <1>3, <1>18
  <2>3. UNCHANGED <<log, parked, session, conn, open, ops, control, rejected, helloUnacked>>
        /\ unacked' = rest \o new
    BY <1>18
  <2>4. /\ engine'.replica = engine.replica
        /\ engine'.nodes \cup engine'.pending \subseteq engine.nodes \cup engine.pending \cup ToSet(new)
    BY <1>30
  <2> QED
    BY <1>11, <1>26, <1>27, <1>28, <1>29, <1>34, <1>36, <1>37, <2>1, <2>2, <2>3, <2>4 DEF Mints
<1>39. MintsAnew(rest, new)
  <2>1. \A o \in ToSet(new) : \E p \in ToSet(unacked) : p.id[1] = o.id[1]
    BY <1>19, <1>20
  <2> QED
    BY <1>4, <1>18, <1>38, <2>1 DEF MintsAnew
<1> QED
  BY <1>33, <1>39 DEF Anew

\* So does minting again.
LEMMA FinishStep ==
  ASSUME IInv, FinishHandshake
  PROVE  IInv'
<1>1. Types' /\ Anew
  BY FinishMints
<1>2. PICK rest \in Seq(Operations), new \in Seq(Operations) : MintsAnew(rest, new)
  BY <1>1 DEF Anew
<1> QED
  BY <1>1, <1>2, MintsStep DEF MintsAnew

-----------------------------------------------------------------------------
(* The invariant *)

\* Nothing has happened yet.
LEMMA InitInv ==
  ASSUME Init, Orderly
  PROVE  IInv
<1>1. /\ log = <<>> /\ committed = 0 /\ parked = {}
      /\ session = [n \in Connections |-> NewSession] /\ up = [n \in Connections |-> <<>>]
      /\ ops = <<>> /\ control = <<>> /\ conn = 0 /\ open = FALSE /\ synced = FALSE
      /\ engine = NoEngine /\ unacked = <<>> /\ helloUnacked = {} /\ seqs = ResetSeqs(0)
      /\ gate = <<>> /\ rejected = {} /\ stored = {} /\ flushing = <<>>
      /\ unstored = {} /\ typed = 0 /\ reloads = 0
  BY DEF Init
<1>2. Types
  <2>1. /\ log \in Seq(Operations) /\ ops \in Seq(Frames) /\ control \in Seq(Frames)
        /\ gate \in Seq(Frames) /\ unacked \in Seq(Operations) /\ Len(log) = 0
    BY <1>1
  <2>2. NewSession \in Session /\ NewSession.to = 0
    BY DEF NewSession, Session
  <2>3. session \in [Connections -> Session] /\ \A n \in Connections : session[n].to <= Len(log)
    BY <1>1, <2>1, <2>2
  <2>4. up \in [Connections -> Seq(ClientFrames)]
    BY <1>1
  <2>5. engine \in Engine
    BY <1>1, Bounds DEF NoEngine, Engine
  <2>6. seqs \in Seqs /\ IsFiniteSet(seqs.confirmed) /\ IsFiniteSet(seqs.livePending)
    <3>1. 0 \in Nat
      OBVIOUS
    <3> QED
      BY <1>1, <3>1, ResetSeqsType
  <2>7. /\ committed \in 0..Len(log) /\ conn \in 0..MaxConnections /\ typed \in 0..MaxEdits
        /\ reloads \in 0..MaxReloads /\ flushing \in Seq(Transactions)
    BY <1>1, <2>1, Bounds
  <2> QED
    BY <1>1, <2>1, <2>3, <2>4, <2>5, <2>6, <2>7, TypeParts DEF Orderly
<1>3. /\ ToSet(log) = {} /\ ToSet(unacked) = {} /\ ToSet(ops) = {} /\ ToSet(control) = {}
      /\ ToSet(gate) = {} /\ DOMAIN log = {} /\ DOMAIN unacked = {} /\ DOMAIN ops = {}
      /\ DOMAIN control = {} /\ DOMAIN gate = {}
  BY <1>1, NoMembers
<1>4. \A n \in Connections : DOMAIN up[n] = {} /\ OpsAt(n) = {} /\ LiveAt(n) = {} /\ up[n] = <<>>
  BY <1>1 DEF OpsAt, LiveAt
<1>5. Talks
  <2>1. \A n \in Connections : session[n] = NewSession /\ ~(n <= conn)
    BY <1>1 DEF Connections
  <2> QED
    BY <1>4, <2>1 DEF Talks
<1>6. Successions
  <2>1. \A n \in Connections : session[n].stage = "open"
    BY <1>1 DEF NewSession
  <2>2. Alone(conn)
    BY <1>1 DEF Alone
  <2>3. engine.replica = 0
    BY <1>1 DEF NoEngine
  <2> QED
    BY <1>1, <2>1, <2>2, <2>3 DEF Successions
<1>7. Renewals
  BY <1>1, <1>3 DEF Renewals
<1>8. Carried
  BY <1>1, <1>3 DEF Carried
<1>9. \A k \in Ids : ~Met(k)
  BY <1>1, <1>3, <1>4 DEF Met, IdsOf, NoEngine
<1>10. Identity
  <2>1. Minted /\ Newest /\ Descent /\ ParentsFirst
    BY <1>1, <1>3, <1>4, <1>9 DEF Minted, Newest, Descent, ParentsFirst
  <2>2. Made = {} /\ PeersCounted /\ LoggedOnce
    BY <1>3 DEF Made, PeersCounted, LoggedOnce
  <2> QED
    BY <2>1, <2>2 DEF Identity
<1>11. Lively /\ Single /\ Forward /\ Hopeless
  BY <1>1, <1>4 DEF Lively, Single, Forward, Hopeless
<1>12. Distinct /\ Unsaved /\ Answers
  BY <1>1, <1>3 DEF Distinct, Unsaved, Answers
<1>13. Reported /\ Stored /\ Refusals
  BY <1>1, <1>3, NoMembers DEF Reported, Stored, Noted, Refusals
<1> QED
  BY <1>2, <1>5, <1>6, <1>7, <1>8, <1>10, <1>11, <1>12, <1>13 DEF IInv, Fates

\* A step that changes nothing.
LEMMA StutterStep ==
  ASSUME IInv, UNCHANGED vars
  PROVE  IInv'
<1>1. Types /\ Talks /\ Successions /\ Renewals /\ Carried /\ Identity /\ Fates
  BY DEF IInv
<1>2. UNCHANGED <<faults, log, committed, parked, session, up, ops, control, conn, open, synced>>
  BY DEF vars, server, network
<1>3. UNCHANGED <<engine, unacked, helloUnacked, seqs, gate, rejected, stored, flushing, unstored, typed,
                  reloads>>
  BY DEF vars, client, durable
<1>4. Types'
  BY <1>1, <1>2, <1>3, TypeParts, TypePartsNext
<1>5. Talks' /\ Successions' /\ Renewals'
  BY <1>1, <1>2, <1>3 DEF Talks, Successions, Renewals, Alone
<1>6. Carried'
  BY <1>1, <1>2, <1>3 DEF Carried, Told
<1>7. Calm /\ Fed /\ conn' >= conn /\ UNCHANGED <<unacked, rejected, durable>>
  <2>1. Aside /\ ToSet(unacked') \subseteq ToSet(unacked)
    BY <1>2, <1>3 DEF Aside
  <2>2. conn \in 0..MaxConnections
    BY <1>1, TypeParts
  <2> QED
    BY <1>1, <1>2, <1>3, <2>1, <2>2, AsideKeeps, Bounds DEF Fed, durable
<1>8. /\ Identity'
      /\ Lively' /\ Single' /\ Forward' /\ Hopeless' /\ Distinct' /\ Unsaved' /\ Stored' /\ Refusals'
  BY <1>4, <1>7, CalmKeeps
<1>9. Answers'
  <2>1. \A n \in Connections : OpsAt(n)' = OpsAt(n) /\ LiveAt(n)' = LiveAt(n)
    BY <1>2 DEF OpsAt, LiveAt
  <2>2. OpsAt(conn)' = OpsAt(conn)
    BY <1>2 DEF OpsAt
  <2>3. \A o : Awaited(o) => Awaited(o)'
    BY <1>2, <1>3 DEF Awaited
  <2>4. \A o : Answerable(o) => Answerable(o)'
    BY <1>2, <1>3, <2>1, <2>3 DEF Answerable
  <2>5. Answers
    BY <1>1 DEF Fates
  <2> QED
    BY <1>2, <1>3, <2>2, <2>3, <2>4, <2>5 DEF Answers
<1>10. Reported'
  <2>1. \A f : Had(f) => Had(f)'
    BY <1>2, <1>3 DEF Had, Alone
  <2>2. Reported
    BY <1>1 DEF Fates
  <2> QED
    BY <1>2, <1>3, <2>1, <2>2 DEF Reported
<1> QED
  BY <1>4, <1>5, <1>6, <1>8, <1>9, <1>10 DEF IInv, Fates

\* Every step keeps the invariant.
LEMMA NextStep ==
  ASSUME IInv, [Next]_vars
  PROVE  IInv'
<1>1. ASSUME NEW n \in Connections, Handshake(n) PROVE IInv'
  BY <1>1, HandshakeStep
<1>2. ASSUME NEW n \in Connections, Take(n) PROVE IInv'
  BY <1>2, TakesOne, RejectMismatchStep, AcceptStep DEF IInv
<1>3. CASE PeerEdit
  BY <1>3, PeerEditStep
<1>4. CASE Commit
  BY <1>4, CommitStep
<1>5. ASSUME NEW op \in parked, Sweep(op) PROVE IInv'
  BY <1>5, SweepStep
<1>6. CASE OpenSocket
  BY <1>6, OpenSocketStep
<1>7. CASE Drop
  BY <1>7, DropStep
<1>8. CASE Reload
  BY <1>8, ReloadStep
<1>9. CASE Receive
  BY <1>9, ReceiveStep
<1>10. CASE Run
  BY <1>10, RunYieldStep, RunChunkStep, RunEndStep, FinishStep DEF Run
<1>11. CASE Type
  BY <1>11, TypeStep
<1>12. CASE Flush \/ CommitRows \/ LoseRows
  BY <1>12, FlushStep, TransactionStep
<1>13. CASE UNCHANGED vars
  BY <1>13, StutterStep
<1> QED
  BY <1>1, <1>2, <1>3, <1>4, <1>5, <1>6, <1>7, <1>8, <1>9, <1>10, <1>11, <1>12, <1>13 DEF Next

\* The invariant holds in every state of a behaviour that is orderly.
LEMMA SyncInvariant == Spec /\ Orderly => []IInv
<1>1. Init /\ Orderly => IInv
  BY InitInv
<1>2. IInv /\ [Next]_vars => IInv'
  BY NextStep
<1> QED
  BY <1>1, <1>2, PTL DEF Spec

\* Every variable of the client, the server and the network has its type, for any
\* number of edits, peers, connections and reloads (syncClient.ts:268-508,
\* gateway.ts:225-250).
THEOREM SyncTypesAlways == Spec /\ Orderly => []TypeOK
<1>1. IInv => TypeOK
  BY DEF IInv, Types
<1> QED
  BY <1>1, SyncInvariant, PTL

-----------------------------------------------------------------------------
(* Synchronisation implements the shared document *)

\* The shared document, as the client and the server have it.
Text == [i \in DOMAIN log |-> log[i].id[1]]

Status == [e \in Edits |-> Edit(e)]

\* The status of an edit, by the edits of the log, the rejections and the queue.
LEMMA EditIs ==
  ASSUME Types, NEW e \in Edits
  PROVE  Edit(e) = IF e > typed THEN "unused"
                   ELSE IF e \in EditsOf(ToSet(log)) THEN "saved"
                   ELSE IF e \in EditsOf(rejected) THEN "refused"
                   ELSE IF e \in EditsOf(ToSet(unacked)) THEN "unsaved"
                   ELSE "forgotten"
<1>1. (\E i \in DOMAIN log : log[i].id[1] = e) <=> e \in EditsOf(ToSet(log))
  BY DEF EditsOf, ToSet
<1>2. /\ (\E o \in rejected : o.id[1] = e) <=> e \in EditsOf(rejected)
      /\ (\E o \in ToSet(unacked) : o.id[1] = e) <=> e \in EditsOf(ToSet(unacked))
  BY DEF EditsOf
<1> QED
  BY <1>1, <1>2 DEF Edit

\* The same after a step.
LEMMA EditIsNext ==
  ASSUME Types', NEW e \in Edits
  PROVE  Edit(e)' = IF e > typed' THEN "unused"
                    ELSE IF e \in EditsOf(ToSet(log')) THEN "saved"
                    ELSE IF e \in EditsOf(rejected') THEN "refused"
                    ELSE IF e \in EditsOf(ToSet(unacked')) THEN "unsaved"
                    ELSE "forgotten"
<1>1. (\E i \in DOMAIN log' : log'[i].id[1] = e) <=> e \in EditsOf(ToSet(log'))
  BY DEF EditsOf, ToSet
<1>2. /\ (\E o \in rejected' : o.id[1] = e) <=> e \in EditsOf(rejected')
      /\ (\E o \in ToSet(unacked') : o.id[1] = e) <=> e \in EditsOf(ToSet(unacked'))
  BY DEF EditsOf
<1> QED
  BY <1>1, <1>2 DEF Edit

\* A step after which every edit has the status it had.
Silent ==
  /\ log' = log /\ typed' = typed /\ reloads' = reloads
  /\ \A e \in 1..typed : e \notin EditsOf(ToSet(log)) =>
       /\ e \in EditsOf(rejected') <=> e \in EditsOf(rejected)
       /\ e \notin EditsOf(rejected) =>
            (e \in EditsOf(ToSet(unacked')) <=> e \in EditsOf(ToSet(unacked)))

\* The document does not see it.
LEMMA SilentStutters ==
  ASSUME Types, Types', Silent
  PROVE  UNCHANGED Document!vars
<1>1. typed \in Nat
  BY TypeParts, Bounds
<1>2. \A e \in Edits : Edit(e)' = Edit(e)
  <2> SUFFICES ASSUME NEW e \in Edits PROVE Edit(e)' = Edit(e)
    OBVIOUS
  <2>1. CASE e > typed
    BY <2>1, EditIs, EditIsNext DEF Silent
  <2>2. CASE ~(e > typed)
    <3>1. e \in 1..typed
      BY <1>1, <2>2 DEF Edits
    <3> QED
      BY <2>2, <3>1, EditIs, EditIsNext DEF Silent
  <2> QED
    BY <2>1, <2>2
<1>3. Status' = Status
  BY <1>2 DEF Status
<1>4. Text' = Text /\ reloads' = reloads
  BY DEF Text, Silent
<1> QED
  BY <1>3, <1>4 DEF Document!vars, Text, Status

\* Initially the document is empty and no edit is used.
LEMMA DocumentInit ==
  ASSUME Init
  PROVE  Document!Init
<1>1. log = <<>> /\ typed = 0 /\ reloads = 0
  BY DEF Init
<1>2. Text = <<>>
  BY <1>1 DEF Text
<1>3. \A e \in Edits : Edit(e) = "unused"
  BY <1>1, Bounds DEF Edit, Edits
<1>4. Status = [e \in Edits |-> "unused"]
  BY <1>3 DEF Status
<1> QED
  BY <1>1, <1>2, <1>4 DEF Document!Init, Text, Status

\* The part of a sequence that is one element long.
LEMMA OneOfThem ==
  ASSUME NEW X, NEW u \in Seq(X), NEW k \in 1..Len(u)
  PROVE  SubSeq(u, k, k) = <<u[k]>>
<1>1. SubSeq(u, k, k) \in Seq(X) /\ Len(SubSeq(u, k, k)) = 1
  OBVIOUS
<1>2. SubSeq(u, k, k)[1] = u[k] /\ u[k] \in X
  OBVIOUS
<1>3. <<u[k]>> \in Seq(X) /\ Len(<<u[k]>>) = 1 /\ <<u[k]>>[1] = u[k]
  BY <1>2
<1>4. \A s, t \in Seq(X) : Len(s) = 1 /\ Len(t) = 1 /\ s[1] = t[1] => s = t
  OBVIOUS
<1> QED
  BY <1>1, <1>2, <1>3, <1>4, Zenon

\* An entry of the log saves an edit that was not saved or refused.
LEMMA SaveMaps ==
  ASSUME IInv, Types', NEW op \in Operations, log' = log \o <<op>>,
         UNCHANGED <<typed, rejected, unacked, reloads>>,
         op.id[1] \notin EditsOf(ToSet(log)),
         op.id[1] \in Edits => op.id[1] \in 1..typed /\ op.id[1] \notin EditsOf(rejected)
  PROVE  Document!Save
<1>1. Types
  BY DEF IInv
<1>2. /\ log \in Seq(Operations) /\ log' \in Seq(Operations) /\ Len(log) \in Nat
      /\ DOMAIN log = 1..Len(log) /\ DOMAIN log' = 1..Len(log) + 1 /\ Len(log') = Len(log) + 1
      /\ \A i \in 1..Len(log) : log'[i] = log[i]
      /\ log'[Len(log) + 1] = op
      /\ EditsOf(ToSet(log')) = EditsOf(ToSet(log)) \cup {op.id[1]}
  BY <1>1, GrownLog, TypeParts
<1>3. PICK e : e = op.id[1]
  OBVIOUS
<1>4. e \in Edits \cup PeerEdits
  BY <1>3, OperationFields DEF Ids
<1>5. PICK t \in Seq(Edits \cup PeerEdits) : t = Text /\ Len(t) = Len(log)
  <2>1. \A i \in 1..Len(log) : log[i].id[1] \in Edits \cup PeerEdits
    <3> SUFFICES ASSUME NEW i \in 1..Len(log) PROVE log[i].id[1] \in Edits \cup PeerEdits
      OBVIOUS
    <3>1. log[i] \in Operations
      BY <1>2
    <3> QED
      BY <3>1, OperationFields DEF Ids
  <2>2. Text \in [1..Len(log) -> Edits \cup PeerEdits]
    BY <1>2, <2>1 DEF Text
  <2>3. Text \in Seq(Edits \cup PeerEdits) /\ Len(Text) = Len(log)
    BY <1>2, <2>2, Indexed
  <2> QED
    BY <2>3
<1>6. PICK u \in Seq(Edits \cup PeerEdits) : u = Text' /\ Len(u) = Len(log) + 1
  <2>1. \A i \in 1..Len(log) + 1 : log'[i].id[1] \in Edits \cup PeerEdits
    <3> SUFFICES ASSUME NEW i \in 1..Len(log) + 1 PROVE log'[i].id[1] \in Edits \cup PeerEdits
      OBVIOUS
    <3>1. log'[i] \in Operations
      BY <1>2
    <3> QED
      BY <3>1, OperationFields DEF Ids
  <2>2. Text' \in [1..Len(log) + 1 -> Edits \cup PeerEdits]
    BY <1>2, <2>1 DEF Text
  <2>3. Text' \in Seq(Edits \cup PeerEdits) /\ Len(Text') = Len(log) + 1
    BY <1>2, <2>2
  <2> QED
    BY <2>3
<1>7. /\ \A i \in 1..Len(log) : u[i] = t[i] /\ t[i] = log[i].id[1]
      /\ u[Len(log) + 1] = e
  BY <1>2, <1>3, <1>5, <1>6 DEF Text
<1>8. u = t \o <<e>>
  BY <1>2, <1>4, <1>5, <1>6, <1>7
<1>9. SubSeq(u, Len(t) + 1, Len(u)) = <<e>>
  <2>1. Len(t) + 1 = Len(log) + 1 /\ Len(u) = Len(log) + 1
    BY <1>5, <1>6
  <2>2. SubSeq(u, Len(log) + 1, Len(log) + 1) = <<u[Len(log) + 1]>>
    <3>1. Len(log) + 1 \in 1..Len(u)
      BY <1>2, <1>6
    <3> QED
      BY <1>6, <3>1, OneOfThem
  <2> QED
    BY <1>7, <2>1, <2>2
<1>10. \A k \in DOMAIN t : t[k] # e
  <2>1. \A k \in 1..Len(log) : log[k].id[1] \in EditsOf(ToSet(log))
    BY <1>2 DEF EditsOf, ToSet
  <2> QED
    BY <1>3, <1>5, <1>7, <2>1
<1>11. e \in Edits => Status[e] \in {"unsaved", "forgotten"}
  <2> SUFFICES ASSUME e \in Edits PROVE Edit(e) \in {"unsaved", "forgotten"}
    BY DEF Status
  <2>1. ~(e > typed) /\ e \notin EditsOf(ToSet(log)) /\ e \notin EditsOf(rejected)
    <3>1. e \in 1..typed /\ typed \in Nat
      BY <1>1, <1>3, TypeParts, Bounds
    <3> QED
      BY <1>3, <3>1
  <2> QED
    BY <1>1, <2>1, EditIs
<1>12. Status' = [d \in Edits |-> IF d = e THEN "saved" ELSE Status[d]]
  <2>1. ASSUME NEW d \in Edits PROVE Edit(d)' = IF d = e THEN "saved" ELSE Edit(d)
    <3>1. e \in Edits => ~(e > typed)
      <4>1. e \in Edits => e \in 1..typed /\ typed \in Nat
        BY <1>1, <1>3, TypeParts, Bounds
      <4> QED
        BY <4>1
    <3>2. CASE d = e
      BY <1>2, <1>3, <3>1, <3>2, EditIsNext
    <3>3. CASE d # e
      <4>1. d \in EditsOf(ToSet(log')) <=> d \in EditsOf(ToSet(log))
        BY <1>2, <1>3, <3>3
      <4> QED
        BY <1>1, <3>3, <4>1, EditIs, EditIsNext
    <3> QED
      BY <3>2, <3>3
  <2> QED
    BY <2>1 DEF Status
<1>13. DOMAIN <<e>> = {1} /\ <<e>>[1] = e /\ <<e>> \in Seq(Edits \cup PeerEdits) /\ <<e>> # <<>>
  BY <1>4
<1>14. Document!Saved(<<e>>) = Status'
  BY <1>12, <1>13 DEF Document!Saved, Status
<1>15. reloads' = reloads
  OBVIOUS
<1> QED
  <2>1. SubSeq(Text', Len(Text) + 1, Len(Text')) = <<e>>
    BY <1>5, <1>6, <1>9
  <2>2. /\ \A i, j \in DOMAIN <<e>> : i # j => <<e>>[i] # <<e>>[j]
        /\ \A i \in DOMAIN <<e>>, k \in DOMAIN Text : Text[k] # <<e>>[i]
        /\ \A i \in DOMAIN <<e>> : <<e>>[i] \in Edits => Status[<<e>>[i]] \in {"unsaved", "forgotten"}
    BY <1>5, <1>10, <1>11, <1>13
  <2>3. Text' = Text \o <<e>>
    BY <1>5, <1>6, <1>8
  <2>4. Document!Save <=>
          LET es == SubSeq(Text', Len(Text) + 1, Len(Text'))
          IN  /\ es # <<>> /\ es \in Seq(Edits \cup PeerEdits)
              /\ \A i, j \in DOMAIN es : i # j => es[i] # es[j]
              /\ \A i \in DOMAIN es, k \in DOMAIN Text : Text[k] # es[i]
              /\ \A i \in DOMAIN es : es[i] \in Edits => Status[es[i]] \in {"unsaved", "forgotten"}
              /\ Text' = Text \o es
              /\ Status' = Document!Saved(es)
              /\ UNCHANGED reloads
    BY Zenon DEF Document!Save, Text, Status
  <2>5. PICK es : es = <<e>>
    OBVIOUS
  <2> DEFINE part == SubSeq(Text', Len(Text) + 1, Len(Text'))
  <2>6. part = es
    BY <2>1, <2>5
  <2> HIDE DEF part
  <2>7. /\ part # <<>> /\ part \in Seq(Edits \cup PeerEdits)
        /\ \A i, j \in DOMAIN part : i # j => part[i] # part[j]
        /\ \A i \in DOMAIN part, k \in DOMAIN Text : Text[k] # part[i]
        /\ \A i \in DOMAIN part : part[i] \in Edits => Status[part[i]] \in {"unsaved", "forgotten"}
        /\ Text' = Text \o part
        /\ Status' = Document!Saved(part)
        /\ UNCHANGED reloads
    <3>1. /\ es # <<>> /\ es \in Seq(Edits \cup PeerEdits)
          /\ \A i, j \in DOMAIN es : i # j => es[i] # es[j]
          /\ \A i \in DOMAIN es, k \in DOMAIN Text : Text[k] # es[i]
          /\ \A i \in DOMAIN es : es[i] \in Edits => Status[es[i]] \in {"unsaved", "forgotten"}
          /\ Text' = Text \o es
          /\ Status' = Document!Saved(es)
      BY <1>13, <1>14, <2>2, <2>3, <2>5
    <3> QED
      BY <1>15, <2>6, <3>1
  <2> QED
    BY <2>4, <2>7, Zenon DEF part

\* A step that changes neither the log nor the edits that are queued or refused.
LEMMA QuietSteps ==
  ASSUME UNCHANGED <<log, typed, reloads, unacked, rejected>>
  PROVE  Silent
BY DEF Silent

\* Operations that are taken are parked, or saved.
LEMMA AcceptMaps ==
  ASSUME IInv, IInv', NEW n \in Connections, AcceptOperation(n, 1)
  PROVE  Document!Save \/ UNCHANGED Document!vars
<1>1. Types /\ Types' /\ Identity /\ Fates
  BY DEF IInv
<1>2. PICK op \in Operations :
        /\ op = up[n][1].op /\ 1 \in LiveAt(n)
        /\ UNCHANGED client
        /\ Saves(op) \/ Parks(op)
  BY AcceptIs
<1>3. UNCHANGED <<typed, rejected, unacked, reloads>>
  BY <1>2 DEF client
<1>4. CASE Parks(op)
  BY <1>1, <1>3, <1>4, QuietSteps, SilentStutters DEF Parks
<1>5. CASE Saves(op)
  <2>1. op.id[1] \notin EditsOf(ToSet(log) \cup rejected)
    BY <1>1, <1>2 DEF Fates, Lively
  <2>2. op.id[1] \notin EditsOf(ToSet(log)) /\ op.id[1] \notin EditsOf(rejected)
    BY <2>1 DEF EditsOf
  <2>3. op.id \in Ids /\ Met(op.id)
    BY <1>2, OperationFields DEF Met, LiveAt
  <2>4. op.id[1] \in Edits => op.id[1] \in 1..typed
    <3>1. op.id[1] \in Edits => op.id[2] # 0
      BY <2>3, IdFields, Bounds DEF Edits
    <3> QED
      BY <1>1, <2>3, <3>1 DEF Identity, Minted
  <2> QED
    BY <1>1, <1>3, <1>5, <2>2, <2>4, SaveMaps DEF Saves
<1> QED
  BY <1>2, <1>4, <1>5

\* What the others make is saved.
LEMMA PeerEditMaps ==
  ASSUME IInv, IInv', PeerEdit
  PROVE  Document!Save
<1>1. Types /\ Types' /\ Identity
  BY DEF IInv
<1>2. PICK op \in Operations :
        /\ Saves(op) /\ op.id = <<MaxEdits + Cardinality(Made) + 1, 0>> /\ IsFiniteSet(Made)
        /\ UNCHANGED client
  BY PeerEditIs
<1>3. UNCHANGED <<typed, rejected, unacked, reloads>>
  BY <1>2 DEF client
<1>4. PICK c \in Nat : c = Cardinality(Made)
  BY <1>2, FS_CardinalityType
<1>5. op.id[1] = MaxEdits + c + 1 /\ op.id[1] \notin Edits
  BY <1>2, <1>4, Bounds DEF Edits
<1>6. ASSUME NEW i \in DOMAIN log PROVE log[i].id[1] # op.id[1]
  <2>1. log[i] \in Operations /\ log[i].id \in Ids
    <3>1. log \in Seq(Operations)
      BY <1>1, TypeParts
    <3>2. log[i] \in Operations
      BY <3>1
    <3> QED
      BY <3>2, OperationFields
  <2>2. CASE log[i].id[2] = 0
    <3>1. log[i].id[1] <= MaxEdits + c
      BY <1>1, <1>4, <2>2 DEF Identity, PeersCounted, Made
    <3>2. log[i].id[1] \in Nat
      BY <2>1, IdFields
    <3> QED
      BY <1>4, <1>5, <3>1, <3>2, Bounds
  <2>3. CASE log[i].id[2] # 0
    BY <1>5, <2>1, <2>3, IdFields
  <2> QED
    BY <2>2, <2>3
<1>7. op.id[1] \notin EditsOf(ToSet(log))
  BY <1>6 DEF EditsOf, ToSet
<1> QED
  BY <1>1, <1>2, <1>3, <1>5, <1>7, SaveMaps DEF Saves

\* An acknowledged operation is saved already.
LEMMA AckMaps ==
  ASSUME IInv, IInv', ReceiveAck
  PROVE  UNCHANGED Document!vars
<1>1. Types /\ Types' /\ Carried
  BY DEF IInv
<1>2. PICK f \in Frames : f = Frame /\ f.kind = "ack" /\ Consumed(f)
  BY <1>1, ReceivesIs DEF ReceiveAck
<1>3. f.id \in IdsOf(ToSet(log))
  BY <1>1, <1>2 DEF Consumed, Carried, Told
<1>4. /\ unacked \in Seq(Operations) /\ unacked' = Without(unacked, f.id)
      /\ log' = log /\ typed' = typed /\ reloads' = reloads /\ rejected' = rejected
  BY <1>1, <1>2, TypeParts DEF ReceiveAck, Receives, server
<1>5. ToSet(unacked') = {o \in ToSet(unacked) : o.id # f.id}
  <2>1. PICK S : S = {op \in ToSet(unacked) : op.id = f.id}
    OBVIOUS
  <2>2. ToSet(Dropped(unacked, S)) = ToSet(unacked) \ S
    BY <1>4, DroppedIs
  <2>3. unacked' = Dropped(unacked, S)
    BY <1>4, <2>1 DEF Without
  <2> QED
    BY <2>1, <2>2, <2>3
<1>6. f.id[1] \in EditsOf(ToSet(log))
  BY <1>3 DEF IdsOf, EditsOf
<1>7. \A e : e \notin EditsOf(ToSet(log)) => (e \in EditsOf(ToSet(unacked')) <=> e \in EditsOf(ToSet(unacked)))
  BY <1>5, <1>6 DEF EditsOf
<1> QED
  BY <1>1, <1>4, <1>7, SilentStutters DEF Silent

\* An edit is refused, unless it is saved or was refused before.
LEMMA RejectMaps ==
  ASSUME IInv, IInv', ReceiveReject
  PROVE  (\E e \in Edits : Document!Refuse(e)) \/ UNCHANGED Document!vars
<1>1. Types /\ Types' /\ Carried /\ Fates
  BY DEF IInv
<1>2. PICK f \in Frames : f = Frame /\ f.kind = "reject" /\ Consumed(f)
  BY <1>1, ReceivesIs DEF ReceiveReject
<1>3. PICK op \in Operations : op = f.op
  BY <1>2, FrameFields
<1>4. Answerable(op)
  BY <1>1, <1>2, <1>3 DEF Consumed, Fates, Answers
<1>5. /\ unacked \in Seq(Operations) /\ unacked' = Without(unacked, op.id)
      /\ log' = log /\ typed' = typed /\ reloads' = reloads /\ rejected' = rejected \cup {op}
  BY <1>1, <1>2, <1>3, TypeParts DEF ReceiveReject, Receives, server, PreserveRejected
<1>6. ToSet(unacked') = {o \in ToSet(unacked) : o.id # op.id}
  <2>1. PICK S : S = {o \in ToSet(unacked) : o.id = op.id}
    OBVIOUS
  <2>2. ToSet(Dropped(unacked, S)) = ToSet(unacked) \ S
    BY <1>5, DroppedIs
  <2>3. unacked' = Dropped(unacked, S)
    BY <1>5, <2>1 DEF Without
  <2> QED
    BY <2>1, <2>2, <2>3
<1>7. PICK e : e = op.id[1]
  OBVIOUS
<1>8. e \in 1..typed /\ typed \in 0..MaxEdits /\ e \in Edits /\ ~(e > typed)
  <2>1. e \in 1..typed /\ typed \in 0..MaxEdits
    BY <1>1, <1>4, <1>7, TypeParts DEF Answerable
  <2> QED
    BY <2>1, Bounds DEF Edits
<1>9. /\ EditsOf(rejected') = EditsOf(rejected) \cup {e}
      /\ \A d : d # e => (d \in EditsOf(ToSet(unacked')) <=> d \in EditsOf(ToSet(unacked)))
  BY <1>5, <1>6, <1>7 DEF EditsOf
<1>10. CASE e \in EditsOf(ToSet(log)) \/ e \in EditsOf(rejected)
  <2>1. Silent
    BY <1>5, <1>9, <1>10 DEF Silent
  <2> QED
    BY <1>1, <2>1, SilentStutters
<1>11. CASE e \notin EditsOf(ToSet(log)) /\ e \notin EditsOf(rejected)
  <2>1. e \in EditsOf(ToSet(unacked))
    <3>1. e \notin EditsOf(ToSet(log) \cup rejected)
      BY <1>11 DEF EditsOf
    <3>2. op \in ToSet(unacked)
      BY <1>4, <1>7, <3>1 DEF Answerable, Awaited
    <3> QED
      BY <1>7, <3>2 DEF EditsOf
  <2>2. Status[e] = "unsaved"
    BY <1>1, <1>8, <1>11, <2>1, EditIs DEF Status
  <2>3. \A d \in Edits : Edit(d)' = IF d = e THEN "refused" ELSE Edit(d)
    <3> SUFFICES ASSUME NEW d \in Edits PROVE Edit(d)' = IF d = e THEN "refused" ELSE Edit(d)
      OBVIOUS
    <3>1. CASE d = e
      BY <1>1, <1>5, <1>8, <1>9, <1>11, <3>1, EditIsNext
    <3>2. CASE d # e
      BY <1>1, <1>5, <1>9, <3>2, EditIs, EditIsNext
    <3> QED
      BY <3>1, <3>2
  <2>4. Status' = [Status EXCEPT ![e] = "refused"]
    BY <2>3 DEF Status
  <2>5. Text' = Text /\ reloads' = reloads
    BY <1>5 DEF Text
  <2>6. Document!Refuse(e)
    BY <2>2, <2>4, <2>5 DEF Document!Refuse, Text, Status
  <2> QED
    BY <1>8, <2>6
<1> QED
  BY <1>10, <1>11

\* The user types an edit that was not used.
LEMMA TypeMaps ==
  ASSUME IInv, IInv', Type
  PROVE  \E e \in Edits : Document!Type(e)
<1>1. Types /\ Types' /\ Identity /\ Fates
  BY DEF IInv
<1>2. typed \in Nat /\ typed < MaxEdits /\ unacked \in Seq(Operations) /\ log \in Seq(Operations)
  BY <1>1, TypeParts, Bounds DEF Type
<1>3. PICK e : e = typed + 1
  OBVIOUS
<1>4. e \in Edits
  BY <1>2, <1>3, Bounds DEF Edits
<1>5. PICK op : op.id[1] = e /\ unacked' = Append(unacked, op)
  <2>1. PICK parent : unacked' = Append(unacked, Op(<<typed + 1, engine.replica>>, parent))
    BY DEF Type
  <2>2. Op(<<typed + 1, engine.replica>>, parent).id[1] = e
    BY <1>3 DEF Op
  <2> QED
    BY <2>1, <2>2
<1>6. log' = log /\ typed' = e /\ reloads' = reloads /\ rejected' = rejected
  BY <1>3 DEF Type, server
<1>7. EditsOf(ToSet(unacked')) = EditsOf(ToSet(unacked)) \cup {e}
  <2>1. ToSet(unacked') = ToSet(unacked) \cup {op}
    <3>1. unacked' \in Seq(Operations)
      BY <1>1, TypePartsNext
    <3>2. Len(unacked') = Len(unacked) + 1 /\ unacked'[Len(unacked) + 1] = op
      BY <1>2, <1>5
    <3>3. op \in Operations
      BY <3>1, <3>2, <1>2
    <3> QED
      BY <1>2, <1>5, <3>3, Queues
  <2> QED
    BY <1>5, <2>1 DEF EditsOf
<1>8. e \notin EditsOf(ToSet(log))
  <2> SUFFICES ASSUME NEW o \in ToSet(log) PROVE o.id[1] # e
    BY DEF EditsOf
  <2>1. o \in Operations
    BY <1>2, Queues
  <2>2. o.id \in Ids /\ Met(o.id)
    BY <2>1, OperationFields DEF Met, IdsOf
  <2> QED
    BY <1>1, <1>2, <1>3, <2>2, NextEditFree
<1>9. e \notin EditsOf(rejected)
  <2>1. \A o \in rejected : o.id[1] \in 1..typed
    BY <1>1 DEF Fates, Refusals
  <2>2. e \notin 1..typed
    BY <1>2, <1>3
  <2> QED
    BY <2>1, <2>2 DEF EditsOf
<1>10. Status[e] = "unused"
  <2>1. e > typed
    BY <1>2, <1>3
  <2> QED
    BY <1>1, <1>4, <2>1, EditIs DEF Status
<1>11. \A d \in Edits : Edit(d)' = IF d = e THEN "unsaved" ELSE Edit(d)
  <2> SUFFICES ASSUME NEW d \in Edits PROVE Edit(d)' = IF d = e THEN "unsaved" ELSE Edit(d)
    OBVIOUS
  <2>1. CASE d = e
    <3>1. ~(e > typed')
      BY <1>2, <1>3, <1>6
    <3> QED
      BY <1>1, <1>6, <1>7, <1>8, <1>9, <2>1, <3>1, EditIsNext
  <2>2. CASE d # e
    <3>1. d > typed' <=> d > typed
      BY <1>2, <1>3, <1>6, <2>2, Bounds DEF Edits
    <3>2. d \in EditsOf(ToSet(unacked')) <=> d \in EditsOf(ToSet(unacked))
      BY <1>7, <2>2
    <3> QED
      BY <1>1, <1>6, <2>2, <3>1, <3>2, EditIs, EditIsNext
  <2> QED
    BY <2>1, <2>2
<1>12. Status' = [Status EXCEPT ![e] = "unsaved"]
  BY <1>11 DEF Status
<1>13. Text' = Text /\ reloads' = reloads
  BY <1>6 DEF Text
<1>14. Document!Type(e)
  BY <1>10, <1>12, <1>13 DEF Document!Type, Text, Status
<1> QED
  BY <1>4, <1>14

\* The page closes, and what was not in the durable queue is forgotten.
LEMMA ReloadMaps ==
  ASSUME IInv, IInv', Reload
  PROVE  Document!ClosePage
<1>1. Types /\ Types' /\ Fates
  BY DEF IInv
<1>2. /\ log' = log /\ typed' = typed /\ reloads' = reloads + 1
      /\ unacked' = LoadUnacked /\ rejected' = LoadRejected /\ RowsMayLag
  BY DEF Reload, server, LoadUnacked, LoadRejected
<1>3. ToSet(unacked') \subseteq ToSet(unacked) /\ rejected' \subseteq rejected
  BY <1>2, LoadedIs
<1>4. /\ EditsOf(ToSet(unacked')) \subseteq EditsOf(ToSet(unacked))
      /\ EditsOf(rejected') \subseteq EditsOf(rejected)
  BY <1>3 DEF EditsOf
<1>5. \A e \in EditsOf(ToSet(unacked)) : e \notin EditsOf(rejected)
  <2>1. \A o \in ToSet(unacked) : o.id[1] \notin EditsOf(rejected)
    BY <1>1 DEF Fates, Unsaved
  <2> QED
    BY <2>1 DEF EditsOf
<1>6. \A e \in Edits : \/ Edit(e)' = Edit(e)
                       \/ Edit(e) \in {"unsaved", "refused"} /\ Edit(e)' = "forgotten"
  <2> SUFFICES ASSUME NEW e \in Edits
               PROVE  \/ Edit(e)' = Edit(e)
                      \/ Edit(e) \in {"unsaved", "refused"} /\ Edit(e)' = "forgotten"
    OBVIOUS
  <2>1. CASE e > typed \/ e \in EditsOf(ToSet(log))
    BY <1>1, <1>2, <2>1, EditIs, EditIsNext
  <2>2. CASE ~(e > typed) /\ e \notin EditsOf(ToSet(log))
    <3>1. Edit(e) = IF e \in EditsOf(rejected) THEN "refused"
                    ELSE IF e \in EditsOf(ToSet(unacked)) THEN "unsaved" ELSE "forgotten"
      BY <1>1, <2>2, EditIs
    <3>2. Edit(e)' = IF e \in EditsOf(rejected') THEN "refused"
                     ELSE IF e \in EditsOf(ToSet(unacked')) THEN "unsaved" ELSE "forgotten"
      BY <1>1, <1>2, <2>2, EditIsNext
    <3> QED
      BY <1>4, <1>5, <3>1, <3>2
  <2> QED
    BY <2>1, <2>2
<1>7. PICK F : F = {e \in Edits : Status[e] \in {"unsaved", "refused"} /\ Status'[e] = "forgotten"}
  OBVIOUS
<1>8. F \in SUBSET {e \in Edits : Status[e] \in {"unsaved", "refused"}}
  BY <1>7
<1>9. Status' = [e \in Edits |-> IF e \in F THEN "forgotten" ELSE Status[e]]
  <2>1. \A e \in Edits : Status'[e] = IF e \in F THEN "forgotten" ELSE Status[e]
    BY <1>6, <1>7 DEF Status
  <2>2. Status' = [e \in Edits |-> Status'[e]]
    BY DEF Status
  <2> QED
    BY <2>1, <2>2
<1>10. Text' = Text /\ reloads' = reloads + 1
  BY <1>2 DEF Text
<1>11. PICK R \in SUBSET {e \in Edits : Status[e] = "refused"} : R = {}
  OBVIOUS
<1>12. Status' = [e \in Edits |-> IF e \in F THEN "forgotten"
                                  ELSE IF e \in R THEN "unsaved" ELSE Status[e]]
  BY <1>9, <1>11
<1> QED
  BY <1>8, <1>10, <1>12, Zenon DEF Document!ClosePage, Text, Status

\* What is minted again stays queued, and what is not is saved.
LEMMA FinishMaps ==
  ASSUME IInv, IInv', FinishHandshake
  PROVE  UNCHANGED Document!vars
<1>1. Types /\ Types' /\ Successions /\ Renewals /\ Carried /\ Identity /\ Fates
  BY DEF IInv
<1>2. PICK f \in Frames : f = gate[1] /\ f.kind = "have" /\ f \in ToSet(gate) /\ 1 \in DOMAIN gate
  BY <1>1, GateIs DEF FinishHandshake
<1>3. engine \in Engine /\ unacked \in Seq(Operations) /\ conn \in 0..MaxConnections
  BY <1>1, TypeParts
<1>4. engine.replica # 0
  <2>1. conn > 0
    BY <1>1, <1>2 DEF FinishHandshake, Successions
  <2>2. engine.replica = conn
    BY <1>1, <1>2 DEF Renewals
  <2> QED
    BY <1>3, <2>1, <2>2, Bounds
<1>5. Had(f)
  BY <1>1, <1>2 DEF Fates, Reported
<1>6. PICK hello : hello = {op \in ToSet(unacked) : op.id \in helloUnacked}
  OBVIOUS
<1>7. PICK reported \in Seq(Operations) : reported = Kept(unacked, hello) /\ ToSet(reported) = hello
  <2>1. Kept(unacked, hello) \in Seq(Operations) /\ ToSet(Kept(unacked, hello)) = ToSet(unacked) \cap hello
    BY <1>3, KeptIs
  <2>2. ToSet(unacked) \cap hello = hello
    BY <1>6
  <2> QED
    BY <2>1, <2>2
<1>8. PICK recon \in Seq(Operations) :
        /\ recon = ToReconcile(reported, f.ids)
        /\ ToSet(recon) = {op \in hello : op.id \notin f.ids}
  <2>1. PICK H : H = {op \in ToSet(reported) : op.id \in f.ids}
    OBVIOUS
  <2>2. Dropped(reported, H) \in Seq(Operations) /\ ToSet(Dropped(reported, H)) = ToSet(reported) \ H
    BY DroppedIs
  <2>3. ToSet(reported) \ H = {op \in hello : op.id \notin f.ids}
    BY <1>7, <2>1
  <2>4. ToReconcile(reported, f.ids) = Dropped(reported, H)
    BY <2>1 DEF ToReconcile
  <2> QED
    BY <2>2, <2>3, <2>4
<1>9. PICK rest \in Seq(Operations) : rest = Dropped(unacked, hello) /\ ToSet(rest) = ToSet(unacked) \ hello
  BY <1>3, DroppedIs
<1>10. PICK new \in Seq(Operations) :
         /\ new = Reminted(recon) /\ DOMAIN new = DOMAIN recon
         /\ \A i \in DOMAIN recon : new[i].id[1] = recon[i].id[1]
  <2>1. \A o \in ToSet(recon) : o.id[2] # 0
    BY <1>1, <1>6, <1>8 DEF Identity, Descent, Descends
  <2>2. /\ Reminted(recon) \in Seq(Operations) /\ DOMAIN Reminted(recon) = DOMAIN recon
        /\ \A i \in DOMAIN recon : Reminted(recon)[i].id = <<recon[i].id[1], engine.replica>>
    BY <1>3, <1>4, <2>1, RemintedIs
  <2>3. \A i \in DOMAIN recon : Reminted(recon)[i].id[1] = recon[i].id[1]
    BY <2>2
  <2> QED
    BY <2>2, <2>3
<1>11. EditsOf(ToSet(new)) = EditsOf(ToSet(recon))
  <2>1. \A q : EditsOf(ToSet(q)) = {q[i].id[1] : i \in DOMAIN q}
    BY DEF EditsOf, ToSet
  <2>2. {new[i].id[1] : i \in DOMAIN new} = {recon[i].id[1] : i \in DOMAIN recon}
    BY <1>10
  <2> QED
    BY <2>1, <2>2
<1>12. /\ log' = log /\ typed' = typed /\ reloads' = reloads /\ rejected' = rejected
       /\ unacked' = rest \o new
  BY <1>2, <1>6, <1>7, <1>8, <1>9, <1>10 DEF FinishHandshake, server, QueueAgain
<1>13. EditsOf(ToSet(unacked')) = EditsOf(ToSet(rest)) \cup EditsOf(ToSet(recon))
  <2>1. ToSet(unacked') = ToSet(rest) \cup ToSet(new)
    BY <1>12, Joins
  <2>2. EditsOf(ToSet(unacked')) = EditsOf(ToSet(rest)) \cup EditsOf(ToSet(new))
    BY <2>1 DEF EditsOf
  <2> QED
    BY <1>11, <2>2
<1>14. \A o \in ToSet(unacked) : \/ o \in ToSet(rest) \/ o \in ToSet(recon)
                                \/ o.id[1] \in EditsOf(ToSet(log))
  BY <1>5, <1>6, <1>8, <1>9 DEF Had
<1>15. ToSet(rest) \cup ToSet(recon) \subseteq ToSet(unacked)
  BY <1>6, <1>8, <1>9
<1>16. \A e : e \notin EditsOf(ToSet(log)) => (e \in EditsOf(ToSet(unacked')) <=> e \in EditsOf(ToSet(unacked)))
  BY <1>13, <1>14, <1>15 DEF EditsOf
<1> QED
  BY <1>1, <1>12, <1>16, SilentStutters DEF Silent

\* What the server does besides saving, and the connections, are not seen in the
\* document.
LEMMA UnseenSteps ==
  ASSUME IInv, IInv',
         \/ \E n \in Connections : Handshake(n) \/ RejectMismatch(n, 1)
         \/ Commit \/ \E op \in parked : Sweep(op)
         \/ OpenSocket \/ Drop \/ Flush \/ CommitRows \/ LoseRows \/ RunYield \/ RunChunk \/ RunEnd \/ UNCHANGED vars
  PROVE  UNCHANGED Document!vars
<1>1. ASSUME NEW n \in Connections, Handshake(n) PROVE UNCHANGED <<log, typed, reloads, unacked, rejected>>
  BY <1>1 DEF Handshake, Admit, CloseMalformed, SendCatchup, SendAlreadyHave, NoticeClose, server, client
<1>2. ASSUME NEW n \in Connections, RejectMismatch(n, 1)
      PROVE  UNCHANGED <<log, typed, reloads, unacked, rejected>>
  BY <1>2 DEF RejectMismatch, TakeOperation, client
<1>3. ASSUME Commit \/ \E op \in parked : Sweep(op)
      PROVE  UNCHANGED <<log, typed, reloads, unacked, rejected>>
  BY <1>3 DEF Commit, Sweep, client
<1>4. ASSUME OpenSocket \/ Drop \/ Flush \/ CommitRows \/ LoseRows
      PROVE  UNCHANGED <<log, typed, reloads, unacked, rejected>>
  BY <1>4 DEF OpenSocket, Drop, Flush, CommitRows, LoseRows, EndTransaction, server, client
<1>5. ASSUME RunYield \/ RunChunk \/ RunEnd PROVE UNCHANGED <<log, typed, reloads, unacked, rejected>>
  BY <1>5 DEF RunYield, RunChunk, RunEnd, server
<1>6. ASSUME UNCHANGED vars PROVE UNCHANGED <<log, typed, reloads, unacked, rejected>>
  BY <1>6 DEF vars, server, client
<1>7. UNCHANGED <<log, typed, reloads, unacked, rejected>>
  BY <1>1, <1>2, <1>3, <1>4, <1>5, <1>6
<1> QED
  BY <1>7, QuietSteps, SilentStutters DEF IInv

\* What is received is not seen in the document, but for a refusal.
LEMMA ReceiveMaps ==
  ASSUME IInv, IInv', Receive
  PROVE  (\E e \in Edits : Document!Refuse(e)) \/ UNCHANGED Document!vars
<1>1. ASSUME ReceiveWelcome \/ ReceiveSnapshot \/ ReceiveBegin \/ ReceiveChained \/ ReceiveOp
      PROVE  UNCHANGED <<log, typed, reloads, unacked, rejected>>
  <2>1. CASE ReceiveWelcome
    BY <2>1 DEF ReceiveWelcome, Receives, server
  <2>2. CASE ReceiveSnapshot
    BY <2>2 DEF ReceiveSnapshot, Receives, server
  <2>3. CASE ReceiveBegin
    BY <2>3 DEF ReceiveBegin, Receives, server
  <2>4. CASE ReceiveChained
    BY <2>4 DEF ReceiveChained, Receives, server
  <2>5. CASE ReceiveOp
    BY <2>5 DEF ReceiveOp, Receives, server
  <2> QED
    BY <1>1, <2>1, <2>2, <2>3, <2>4, <2>5
<1>2. CASE ReceiveWelcome \/ ReceiveSnapshot \/ ReceiveBegin \/ ReceiveChained \/ ReceiveOp
  BY <1>1, <1>2, QuietSteps, SilentStutters DEF IInv
<1>3. CASE ReceiveAck \/ ReceiveReject
  BY <1>3, AckMaps, RejectMaps
<1> QED
  BY <1>2, <1>3 DEF Receive

\* Every step is one of the shared document, or is not seen in it.
LEMMA DocumentStep ==
  ASSUME IInv, IInv', [Next]_vars
  PROVE  [Document!Next]_(Document!vars)
<1>1. ASSUME NEW n \in Connections, Handshake(n) PROVE UNCHANGED Document!vars
  BY <1>1, UnseenSteps
<1>2. ASSUME NEW n \in Connections, Take(n) PROVE Document!Save \/ UNCHANGED Document!vars
  BY <1>2, TakesOne, UnseenSteps, AcceptMaps DEF IInv
<1>3. ASSUME \/ Commit \/ (\E op \in parked : Sweep(op)) \/ OpenSocket \/ Drop
             \/ Flush \/ CommitRows \/ LoseRows \/ UNCHANGED vars
      PROVE  UNCHANGED Document!vars
  BY <1>3, UnseenSteps
<1>4. ASSUME PeerEdit PROVE Document!Save
  BY <1>4, PeerEditMaps
<1>5. ASSUME Reload PROVE Document!ClosePage
  BY <1>5, ReloadMaps
<1>6. ASSUME Receive PROVE (\E e \in Edits : Document!Refuse(e)) \/ UNCHANGED Document!vars
  BY <1>6, ReceiveMaps
<1>7. ASSUME Run PROVE UNCHANGED Document!vars
  BY <1>7, UnseenSteps, FinishMaps DEF Run
<1>8. ASSUME Type PROVE \E e \in Edits : Document!Type(e)
  BY <1>8, TypeMaps
<1>9. Document!Next \/ UNCHANGED Document!vars
  <2>1. \/ Document!Save \/ Document!ClosePage \/ UNCHANGED Document!vars
        \/ \E e \in Edits : Document!Type(e) \/ Document!Refuse(e)
    BY <1>1, <1>2, <1>3, <1>4, <1>5, <1>6, <1>7, <1>8 DEF Next
  <2> QED
    BY <2>1 DEF Document!Next
<1> QED
  BY <1>9

\* The client and the server implement the shared document, through every loss of
\* the connection and every reload: an edit is saved once, refused aloud, or still
\* queued, and only a page that closes forgets one (RC-33d, DUR-05, DUR-07,
\* finishHandshakeAfterAlreadyHave(), handleOpsMessage()).
THEOREM DocumentImplemented == Spec /\ Orderly => ImplementsDocument
<1>1. Init => Document!Init
  BY DocumentInit
<1>2. IInv /\ IInv' /\ [Next]_vars => [Document!Next]_(Document!vars)
  BY DocumentStep
<1> QED
  BY <1>1, <1>2, SyncInvariant, PTL DEF Spec, ImplementsDocument, Document!Spec

-----------------------------------------------------------------------------
(* Nothing is refused while typing waits for the new engine *)

\* The operations among frames, and those a client has under way on a connection.
OpsIn(queue) == {queue[i].op : i \in {j \in DOMAIN queue : queue[j].kind = "op"}}

SentBy(n) == OpsIn(up[n])

\* What an engine holds, integrated or buffered.
Held == engine.nodes \cup engine.pending

\* No operation waits at the server, and none comes back.
Unrefused ==
  /\ parked = {} /\ rejected = {}
  /\ \A f \in ToSet(ops) \cup ToSet(control) : f.kind # "reject"

\* No operation is under way before HELLO is taken: there is no engine yet to
\* type into, and the frames that make one come later.
Greeted ==
  /\ \A n \in Connections : session[n].stage = "open" => SentBy(n) = {}
  /\ open => session[conn].stage # "closed"
  /\ open /\ session[conn].stage = "open" =>
       /\ engine.replica # conn /\ gate = <<>>
       /\ \A f \in ToSet(control) : f.kind \in {"op", "ack", "reject"}

\* The operations under way on a connection are of its replica, and the parent of
\* each is saved or under way with it.
Rooted(n) ==
  \A o \in SentBy(n) :
    /\ o.id[2] = n
    /\ session[n].stage # "closed" => o.parent \in {Root} \cup IdsOf(ToSet(log) \cup SentBy(n))

\* What the engine holds is saved or queued.  If it is the engine of the
\* connection, what is not saved is under way, and of what HELLO reported it holds
\* only what is saved.
Based ==
  /\ IdsOf(Held) \subseteq IdsOf(ToSet(log) \cup ToSet(unacked))
  /\ open /\ engine.replica = conn => IdsOf(Held) \subseteq IdsOf(ToSet(log) \cup SentBy(conn))
  /\ engine.replica = conn =>
       IdsOf(Held) \cap IdsOf(ToSet(unacked)) \cap helloUnacked \subseteq IdsOf(ToSet(log))

Accepting == Unrefused /\ Greeted /\ Based /\ \A n \in Connections : Rooted(n)

\* The operations of frames that are joined, or of which the first is taken.
LEMMA OpsInIs ==
  ASSUME NEW queue \in Seq(ClientFrames)
  PROVE  /\ OpsIn(<<>>) = {}
         /\ \A more \in Seq(ClientFrames) : OpsIn(queue \o more) = OpsIn(queue) \cup OpsIn(more)
         /\ queue # <<>> =>
              OpsIn(queue) = OpsIn(Tail(queue))
                             \cup (IF queue[1].kind = "op" THEN {queue[1].op} ELSE {})
<1>1. \A q : OpsIn(q) = {f.op : f \in {g \in ToSet(q) : g.kind = "op"}}
  BY DEF OpsIn, ToSet
<1>2. OpsIn(<<>>) = {}
  BY DEF OpsIn
<1>3. ASSUME NEW more \in Seq(ClientFrames) PROVE OpsIn(queue \o more) = OpsIn(queue) \cup OpsIn(more)
  <2>1. ToSet(queue \o more) = ToSet(queue) \cup ToSet(more)
    BY Joins
  <2> QED
    BY <1>1, <2>1
<1>4. ASSUME queue # <<>>
      PROVE  OpsIn(queue) = OpsIn(Tail(queue))
                            \cup (IF queue[1].kind = "op" THEN {queue[1].op} ELSE {})
  <2>1. ToSet(queue) = {queue[1]} \cup ToSet(Tail(queue))
    BY <1>4, Queues
  <2> QED
    BY <1>1, <2>1
<1> QED
  BY <1>2, <1>3, <1>4

\* Parents stay saved or under way when operations are saved.
LEMMA RootedKept ==
  ASSUME NEW n \in Connections, Rooted(n), SentBy(n)' \subseteq SentBy(n),
         session'[n].stage # "closed" => session[n].stage # "closed"
                                         /\ SentBy(n) \subseteq SentBy(n)' \cup ToSet(log'),
         ToSet(log) \subseteq ToSet(log')
  PROVE  Rooted(n)'
<1> SUFFICES ASSUME NEW o \in SentBy(n)'
             PROVE  /\ o.id[2] = n
                    /\ session'[n].stage # "closed" =>
                         o.parent \in {Root} \cup IdsOf(ToSet(log') \cup SentBy(n)')
  BY DEF Rooted
<1>1. o.id[2] = n
  BY DEF Rooted
<1>2. ASSUME session'[n].stage # "closed"
      PROVE  o.parent \in {Root} \cup IdsOf(ToSet(log') \cup SentBy(n)')
  <2>1. o.parent \in {Root} \cup IdsOf(ToSet(log) \cup SentBy(n))
    BY <1>2 DEF Rooted
  <2> QED
    BY <1>2, <2>1 DEF IdsOf
<1> QED
  BY <1>1, <1>2

\* The engine's base stays saved or under way when operations are saved.
LEMMA BasedKept ==
  ASSUME Based, UNCHANGED <<engine, unacked, helloUnacked, conn, open>>,
         ToSet(log) \subseteq ToSet(log'),
         open => OpsIn(up[conn]) \subseteq OpsIn(up'[conn]) \cup ToSet(log')
  PROVE  Based'
<1>1. IdsOf(Held)' \subseteq IdsOf(ToSet(log') \cup ToSet(unacked'))
  BY DEF Based, Held, IdsOf
<1>2. open' /\ engine'.replica = conn' =>
        IdsOf(Held)' \subseteq IdsOf(ToSet(log') \cup OpsIn(up'[conn']))
  BY DEF Based, Held, IdsOf, SentBy
<1>3. engine'.replica = conn' =>
        IdsOf(Held)' \cap IdsOf(ToSet(unacked')) \cap helloUnacked' \subseteq IdsOf(ToSet(log'))
  BY DEF Based, Held, IdsOf
<1> QED
  BY <1>1, <1>2, <1>3 DEF Based, SentBy

\* The handshake moves on, and the client is sent frames of it.
LEMMA TurnAccepts ==
  ASSUME IInv, Accepting, NEW n \in Connections, NEW k \in Session, NEW frames \in Seq(Frames),
         k.stage \notin {"open", "closed"}, session[n].stage # "closed",
         session' = [session EXCEPT ![n] = k], SendControl(n, frames),
         \A f \in ToSet(frames) : f.kind # "reject",
         \A m \in Connections : SentBy(m)' = SentBy(m),
         UNCHANGED <<faults, server, conn, open, synced, client>>
  PROVE  Accepting'
<1>1. Types /\ Successions /\ Unrefused /\ Greeted /\ Based
  BY DEF IInv, Accepting
<1>2. /\ log' = log /\ parked' = parked /\ conn' = conn /\ open' = open
      /\ engine' = engine /\ unacked' = unacked /\ helloUnacked' = helloUnacked
      /\ gate' = gate /\ rejected' = rejected
  BY DEF server, client
<1>3. /\ ToSet(ops') \subseteq ToSet(ops) \cup ToSet(frames)
      /\ ToSet(control') \subseteq ToSet(control) \cup ToSet(frames)
      /\ ~Reaches(n) => control' = control
  BY <1>1, TypeParts, Joins DEF SendControl
<1>4. session \in [Connections -> Session] /\ conn \in 0..MaxConnections /\ (open => conn \in Connections)
  BY <1>1, TypeParts, Bounds, SMTT(20) DEF Successions, Connections
<1>5. Unrefused'
  BY <1>1, <1>2, <1>3 DEF Unrefused
<1>6. Greeted'
  <2>1. \A m \in Connections : session'[m] = IF m = n THEN k ELSE session[m]
    BY <1>4
  <2>2. \A m \in Connections : session'[m].stage = "open" => SentBy(m)' = {}
    BY <1>1, <2>1 DEF Greeted
  <2>3. open' => session'[conn'].stage # "closed"
    BY <1>1, <1>2, <1>4, <2>1 DEF Greeted
  <2>4. ASSUME open', session'[conn'].stage = "open"
        PROVE  /\ engine'.replica # conn' /\ gate' = <<>>
               /\ \A f \in ToSet(control') : f.kind \in {"op", "ack", "reject"}
    <3>1. conn # n /\ session[conn].stage = "open"
      BY <1>2, <1>4, <2>1, <2>4
    <3>2. control' = control
      BY <1>3, <3>1 DEF Reaches
    <3> QED
      BY <1>1, <1>2, <2>4, <3>1, <3>2 DEF Greeted
  <2> QED
    BY <2>2, <2>3, <2>4 DEF Greeted
<1>7. Based'
  <2>1. open => OpsIn(up[conn]) = OpsIn(up'[conn])
    BY <1>4 DEF SentBy
  <2> QED
    BY <1>1, <1>2, <2>1, BasedKept
<1>8. ASSUME NEW m \in Connections PROVE Rooted(m)'
  <2>1. Rooted(m) /\ SentBy(m)' = SentBy(m)
    BY DEF Accepting
  <2>2. session'[m].stage # "closed" => session[m].stage # "closed"
    BY <1>4
  <2> QED
    BY <1>2, <2>1, <2>2, RootedKept
<1> QED
  BY <1>5, <1>6, <1>7, <1>8 DEF Accepting

\* The frames of a handshake.
LEMMA HandshakeAccepts ==
  ASSUME IInv, Accepting, NEW n \in Connections,
         Admit(n) \/ SendCatchup(n) \/ SendAlreadyHave(n)
  PROVE  Accepting'
<1>1. Types /\ Talks
  BY DEF IInv
<1>2. up \in [Connections -> Seq(ClientFrames)]
  BY <1>1, TypeParts
<1>3. \A a, b \in Frames : /\ <<a>> \in Seq(Frames) /\ ToSet(<<a>>) = {a}
                           /\ <<a>> \o <<b>> \in Seq(Frames) /\ ToSet(<<a>> \o <<b>>) = {a, b}
  <2> SUFFICES ASSUME NEW a \in Frames, NEW b \in Frames
               PROVE  /\ <<a>> \in Seq(Frames) /\ ToSet(<<a>>) = {a}
                      /\ <<a>> \o <<b>> \in Seq(Frames) /\ ToSet(<<a>> \o <<b>>) = {a, b}
    OBVIOUS
  <2>1. <<a>> \in Seq(Frames) /\ <<b>> \in Seq(Frames)
    OBVIOUS
  <2>2. ToSet(<<a>>) = {a} /\ ToSet(<<b>>) = {b}
    <3>1. DOMAIN <<a>> = {1} /\ <<a>>[1] = a /\ DOMAIN <<b>> = {1} /\ <<b>>[1] = b
      OBVIOUS
    <3> QED
      BY <3>1 DEF ToSet
  <2>3. PICK p \in Seq(Frames), q \in Seq(Frames) : p = <<a>> /\ q = <<b>>
    BY <2>1
  <2>4. p \o q \in Seq(Frames) /\ ToSet(p \o q) = ToSet(p) \cup ToSet(q)
    BY Joins
  <2> QED
    BY <2>1, <2>2, <2>3, <2>4
<1>4. CASE Admit(n)
  <2>1. PICK k \in Session, w \in Frames : Admitted(n, k, w)
    BY <1>1, <1>4, AdmitIs
  <2>2. /\ up[n] # <<>> /\ up[n][1].kind = "hello" /\ session[n].stage = "open"
        /\ up' = [up EXCEPT ![n] = Tail(up[n])]
        /\ session' = [session EXCEPT ![n] = k]
        /\ k.stage \in {"catchup", "checking"}
        /\ UNCHANGED <<faults, server, conn, open, synced, client>>
    BY <2>1 DEF Admitted
  <2>3. PICK frames \in Seq(Frames) :
          SendControl(n, frames) /\ \A f \in ToSet(frames) : f.kind # "reject"
    <3>1. /\ w.kind = "welcome"
          /\ \/ SendControl(n, <<w>>)
             \/ \E s \in Frames : s.kind = "snapshot" /\ SendControl(n, <<w>> \o <<s>>)
      BY <2>1 DEF Admitted
    <3>2. CASE SendControl(n, <<w>>)
      BY <1>3, <3>1, <3>2
    <3>3. CASE \E s \in Frames : s.kind = "snapshot" /\ SendControl(n, <<w>> \o <<s>>)
      <4>1. PICK s \in Frames : s.kind = "snapshot" /\ SendControl(n, <<w>> \o <<s>>)
        BY <3>3
      <4>2. <<w>> \o <<s>> \in Seq(Frames) /\ ToSet(<<w>> \o <<s>>) = {w, s}
        BY <1>3
      <4>3. \A f \in ToSet(<<w>> \o <<s>>) : f.kind # "reject"
        BY <3>1, <4>1, <4>2
      <4> QED
        BY <4>1, <4>2, <4>3
    <3> QED
      BY <3>1, <3>2, <3>3
  <2>4. ASSUME NEW m \in Connections PROVE SentBy(m)' = SentBy(m)
    <3>1. up'[m] = IF m = n THEN Tail(up[n]) ELSE up[m]
      BY <1>2, <2>2
    <3>2. OpsIn(up[n]) = OpsIn(Tail(up[n]))
      <4>1. up[n] \in Seq(ClientFrames)
        BY <1>2
      <4>2. OpsIn(up[n]) = OpsIn(Tail(up[n])) \cup (IF up[n][1].kind = "op" THEN {up[n][1].op} ELSE {})
        BY <2>2, <4>1, OpsInIs
      <4> QED
        BY <2>2, <4>2
    <3> QED
      BY <3>1, <3>2 DEF SentBy
  <2> QED
    BY <2>2, <2>3, <2>4, TurnAccepts
<1>5. CASE SendCatchup(n)
  <2>1. PICK k \in Session, frames \in Seq(Frames) :
          /\ session[n].stage = "catchup" /\ k.stage = "checking"
          /\ session' = [session EXCEPT ![n] = k]
          /\ \A f \in ToSet(frames) : f.kind \in {"begin", "chunk", "end"}
          /\ SendControl(n, frames)
          /\ UNCHANGED <<faults, server, up, conn, open, synced, client>>
    BY <1>1, <1>5, SendCatchupIs
  <2>2. \A m \in Connections : SentBy(m)' = SentBy(m)
    BY <2>1 DEF SentBy
  <2> QED
    BY <2>1, <2>2, TurnAccepts
<1>6. CASE SendAlreadyHave(n)
  <2>1. PICK k \in Session, have \in Frames :
          /\ session[n].stage = "checking" /\ k.stage = "joined"
          /\ session' = [session EXCEPT ![n] = k]
          /\ have.kind = "have" /\ SendControl(n, <<have>>)
          /\ UNCHANGED <<faults, server, up, conn, open, synced, client>>
    BY <1>1, <1>6, SendAlreadyHaveIs
  <2>2. PICK frames \in Seq(Frames) : SendControl(n, frames) /\ ToSet(frames) = {have}
    BY <1>3, <2>1
  <2>3. \A m \in Connections : SentBy(m)' = SentBy(m)
    BY <2>1 DEF SentBy
  <2> QED
    BY <2>1, <2>2, <2>3, TurnAccepts
<1> QED
  BY <1>4, <1>5, <1>6

\* No HELLO is followed by another frame before it is taken, and a session ends
\* only with its connection.
LEMMA ClosesAccepts ==
  ASSUME IInv, Accepting, NEW n \in Connections, Closes(n)
  PROVE  Accepting'
<1>1. Types /\ Talks /\ Successions /\ Unrefused /\ Greeted /\ Based
  BY DEF IInv, Accepting
<1>2. up \in [Connections -> Seq(ClientFrames)] /\ session \in [Connections -> Session]
      /\ (open => conn \in Connections)
  <2>1. conn \in 0..MaxConnections /\ (open => conn > 0)
    BY <1>1, TypeParts DEF Successions
  <2> QED
    BY <1>1, <2>1, TypeParts, Bounds DEF Connections
<1>3. ~CloseMalformed(n)
  <2> SUFFICES ASSUME CloseMalformed(n) PROVE FALSE
    OBVIOUS
  <2>1. session[n].stage = "open" /\ Len(up[n]) > 1 /\ SentBy(n) = {}
    BY <1>1 DEF CloseMalformed, Greeted
  <2>2. 2 \in DOMAIN up[n] /\ up[n][2] \in ClientFrames
    BY <1>2, <2>1
  <2>3. up[n][2].kind = "op"
    <3>1. up[n][2].kind # "hello"
      BY <1>1, <2>2 DEF Talks
    <3> QED
      BY <2>2, <3>1, ClientFrameFields
  <2>4. up[n][2].op \in SentBy(n)
    BY <2>2, <2>3 DEF SentBy, OpsIn
  <2> QED
    BY <2>1, <2>4
<1>4. PICK k \in Session :
        /\ k.stage = "closed"
        /\ up' = [up EXCEPT ![n] = <<>>]
        /\ session' = [session EXCEPT ![n] = k]
        /\ UNCHANGED <<faults, server, ops, control, conn, open, synced, client>>
  BY <1>1, ClosesIs
<1>5. ~(open /\ n = conn)
  BY <1>3 DEF Closes, NoticeClose, Reaches
<1>6. /\ log' = log /\ parked' = parked /\ conn' = conn /\ open' = open
      /\ engine' = engine /\ unacked' = unacked /\ helloUnacked' = helloUnacked
      /\ gate' = gate /\ rejected' = rejected /\ ops' = ops /\ control' = control
  BY <1>4 DEF server, client
<1>7. \A m \in Connections : /\ session'[m] = (IF m = n THEN k ELSE session[m])
                             /\ up'[m] = (IF m = n THEN <<>> ELSE up[m])
  BY <1>2, <1>4
<1>8. OpsIn(<<>>) = {}
  BY DEF OpsIn
<1>9. Unrefused'
  BY <1>1, <1>6 DEF Unrefused
<1>10. Greeted'
  <2>1. \A m \in Connections : session'[m].stage = "open" => SentBy(m)' = {}
    BY <1>1, <1>4, <1>7 DEF Greeted, SentBy
  <2>2. open => session'[conn] = session[conn]
    BY <1>2, <1>5, <1>7
  <2> QED
    BY <1>1, <1>6, <2>1, <2>2 DEF Greeted
<1>11. Based'
  <2>1. open => OpsIn(up[conn]) = OpsIn(up'[conn])
    BY <1>2, <1>5, <1>7
  <2> QED
    BY <1>1, <1>6, <2>1, BasedKept
<1>12. ASSUME NEW m \in Connections PROVE Rooted(m)'
  <2>1. Rooted(m)
    BY DEF Accepting
  <2>2. SentBy(m)' \subseteq SentBy(m)
        /\ (session'[m].stage # "closed" => session[m].stage # "closed" /\ SentBy(m) = SentBy(m)')
    BY <1>4, <1>7, <1>8 DEF SentBy
  <2> QED
    BY <1>6, <2>1, <2>2, RootedKept
<1> QED
  BY <1>9, <1>10, <1>11, <1>12 DEF Accepting

\* The server relays and acknowledges, and saves what it takes.
LEMMA ServerAccepts ==
  ASSUME IInv, Accepting, NEW n, NEW frames \in Seq(Frames), MaySend(n, frames),
         \A f \in ToSet(frames) : f.kind \in {"op", "ack"},
         UNCHANGED <<faults, session, conn, open, synced, client>>, parked' = parked,
         ToSet(log) \subseteq ToSet(log'),
         \A m \in Connections : /\ SentBy(m)' \subseteq SentBy(m)
                                /\ SentBy(m) \subseteq SentBy(m)' \cup ToSet(log')
  PROVE  Accepting'
<1>1. Types /\ Successions /\ Unrefused /\ Greeted /\ Based
  BY DEF IInv, Accepting
<1>2. /\ engine' = engine /\ unacked' = unacked /\ helloUnacked' = helloUnacked
      /\ gate' = gate /\ rejected' = rejected
  BY DEF client
<1>3. /\ ToSet(ops') \subseteq ToSet(ops) \cup ToSet(frames)
      /\ ToSet(control') \subseteq ToSet(control) \cup ToSet(frames)
  <2>1. CASE Sends(n, frames)
    BY <1>1, <2>1, SendsIs
  <2>2. CASE UNCHANGED <<ops, control>>
    BY <2>2
  <2> QED
    BY <2>1, <2>2 DEF MaySend
<1>4. open => conn \in Connections
  <2>1. conn \in 0..MaxConnections /\ (open => conn > 0)
    BY <1>1, TypeParts DEF Successions
  <2> QED
    BY <2>1, Bounds DEF Connections
<1>5. Unrefused'
  BY <1>1, <1>2, <1>3 DEF Unrefused
<1>6. Greeted'
  <2>1. \A m \in Connections : session'[m].stage = "open" => SentBy(m)' = {}
    BY <1>1 DEF Greeted
  <2> QED
    BY <1>1, <1>2, <1>3, <2>1 DEF Greeted
<1>7. Based'
  <2>1. open => OpsIn(up[conn]) \subseteq OpsIn(up'[conn]) \cup ToSet(log')
    BY <1>4 DEF SentBy
  <2> QED
    BY <1>1, <1>2, <2>1, BasedKept
<1>8. ASSUME NEW m \in Connections PROVE Rooted(m)'
  <2>1. Rooted(m)
    BY DEF Accepting
  <2> QED
    BY <2>1, RootedKept
<1> QED
  BY <1>5, <1>6, <1>7, <1>8 DEF Accepting

\* What an open session takes is the operation at the front.
LEMMA TakenIs ==
  ASSUME IInv, Accepting, NEW n \in Connections, TakeOperation(n, 1)
  PROVE  /\ up[n][1].op \in SentBy(n) /\ up[n][1].op.id[2] = n
         /\ up[n][1].op.parent \in {Root} \cup IdsOf(ToSet(log))
         /\ \A m \in Connections : /\ SentBy(m)' \subseteq SentBy(m)
                                   /\ SentBy(m) \subseteq SentBy(m)' \cup {up[n][1].op}
<1>1. Types /\ Talks /\ Forward /\ Rooted(n)
  BY DEF IInv, Fates, Accepting
<1>2. /\ up[n] # <<>> /\ 1 \in OpsAt(n) /\ Joined(n)
      /\ up' = [up EXCEPT ![n] = Tail(up[n])]
  BY <1>1, TakesIs
<1>3. up \in [Connections -> Seq(ClientFrames)] /\ up[n] \in Seq(ClientFrames)
  BY <1>1, TypeParts
<1>4. up[n][1].op \in SentBy(n)
  BY <1>2 DEF OpsAt, SentBy, OpsIn
<1>5. session[n].stage # "closed"
  BY <1>2 DEF Joined
<1>6. up[n][1].op.id[2] = n /\ up[n][1].op.parent \in {Root} \cup IdsOf(ToSet(log) \cup SentBy(n))
  BY <1>1, <1>4, <1>5 DEF Rooted
<1>7. ASSUME up[n][1].op.parent \in IdsOf(SentBy(n)) PROVE FALSE
  <2>1. PICK i \in OpsAt(n) : up[n][1].op.parent = up[n][i].op.id
    BY <1>7 DEF IdsOf, SentBy, OpsIn, OpsAt
  <2>2. up[n][i].op \in SentBy(n)
    BY <2>1 DEF SentBy, OpsIn, OpsAt
  <2>3. i \in LiveAt(n) /\ 1 \in LiveAt(n)
    BY <1>1, <1>2, <1>5, <1>6, <2>2 DEF LiveAt, Rooted
  <2>4. i < 1
    BY <1>1, <2>1, <2>3 DEF Forward
  <2>5. i \in 1..Len(up[n])
    BY <1>3 DEF OpsAt
  <2> QED
    BY <2>4, <2>5
<1>8. up[n][1].op.parent \in {Root} \cup IdsOf(ToSet(log))
  BY <1>6, <1>7 DEF IdsOf
<1>9. OpsIn(up[n]) = OpsIn(Tail(up[n])) \cup {up[n][1].op}
  <2>1. up[n][1].kind = "op"
    BY <1>2 DEF OpsAt
  <2>2. OpsIn(up[n]) = OpsIn(Tail(up[n])) \cup (IF up[n][1].kind = "op" THEN {up[n][1].op} ELSE {})
    BY <1>2, <1>3, OpsInIs
  <2> QED
    BY <2>1, <2>2
<1>10. \A m \in Connections : up'[m] = IF m = n THEN Tail(up[n]) ELSE up[m]
  BY <1>2, <1>3
<1>11. ASSUME NEW m \in Connections
       PROVE  /\ SentBy(m)' \subseteq SentBy(m)
              /\ SentBy(m) \subseteq SentBy(m)' \cup {up[n][1].op}
  BY <1>9, <1>10 DEF SentBy
<1> QED
  BY <1>4, <1>6, <1>8, <1>11

\* What is taken is saved.
LEMMA TakeAccepts ==
  ASSUME IInv, Accepting, NEW n \in Connections, Take(n)
  PROVE  Accepting'
<1>1. Types /\ Talks
  BY DEF IInv
<1>2. RejectMismatch(n, 1) \/ AcceptOperation(n, 1)
  BY <1>1, TakesOne
<1>3. TakeOperation(n, 1)
  BY <1>2 DEF RejectMismatch, AcceptOperation
<1>4. /\ up[n][1].op.id[2] = n /\ up[n][1].op.parent \in {Root} \cup IdsOf(ToSet(log))
      /\ \A m \in Connections : /\ SentBy(m)' \subseteq SentBy(m)
                                /\ SentBy(m) \subseteq SentBy(m)' \cup {up[n][1].op}
  BY <1>3, TakenIs
<1>5. AcceptOperation(n, 1)
  BY <1>2, <1>4 DEF RejectMismatch
<1>6. PICK op \in Operations :
        /\ op = up[n][1].op
        /\ UNCHANGED <<faults, session, committed, conn, open, synced, client>>
        /\ Saves(op)
        /\ \E frames \in Seq(Frames) :
             /\ MaySend(conn, frames)
             /\ \A f \in ToSet(frames) : f.kind = "op" /\ Told(f)'
  BY <1>4, <1>5, AcceptIs DEF Relays
<1>7. PICK frames \in Seq(Frames) : MaySend(conn, frames) /\ \A f \in ToSet(frames) : f.kind = "op"
  BY <1>6
<1>8. ToSet(log') = ToSet(log) \cup {op}
  BY <1>1, <1>6, GrownLog DEF Saves
<1>9. \A m \in Connections : /\ SentBy(m)' \subseteq SentBy(m)
                             /\ SentBy(m) \subseteq SentBy(m)' \cup ToSet(log')
  BY <1>4, <1>6, <1>8
<1> QED
  BY <1>6, <1>7, <1>8, <1>9, ServerAccepts DEF Saves

\* What the others make is saved.
LEMMA PeerEditAccepts ==
  ASSUME IInv, Accepting, PeerEdit
  PROVE  Accepting'
<1>1. Types
  BY DEF IInv
<1>2. PICK op \in Operations, frames \in Seq(Frames) :
        /\ Saves(op) /\ MaySend(conn, frames) /\ \A f \in ToSet(frames) : f.kind = "op"
        /\ UNCHANGED <<faults, session, up, conn, open, synced, client>>
  BY PeerEditIs DEF Relays
<1>3. ToSet(log') = ToSet(log) \cup {op}
  BY <1>1, <1>2, GrownLog DEF Saves
<1>4. \A m \in Connections : SentBy(m)' = SentBy(m)
  BY <1>2 DEF SentBy
<1> QED
  BY <1>2, <1>3, <1>4, ServerAccepts DEF Saves

\* A commit is acknowledged.
LEMMA CommitAccepts ==
  ASSUME IInv, Accepting, Commit
  PROVE  Accepting'
<1>1. Types
  BY DEF IInv
<1> DEFINE op == log[committed + 1]
           ack == [kind |-> "ack", seq |-> committed + 1, id |-> op.id]
<1>2. op \in Operations /\ committed + 1 \in Nat
  BY <1>1, TypeParts DEF Commit
<1>3. ack \in Frames /\ ack.kind = "ack"
  <2>1. op.id \in Ids
    BY <1>2, OperationFields
  <2> QED
    BY <1>2, <2>1 DEF Frames
<1>4. MaySend(op.id[2], <<ack>>)
  BY SendOpsIs DEF Commit, MaySend
<1>5. UNCHANGED <<faults, log, parked, session, up, conn, open, synced, client>>
  BY DEF Commit
<1> HIDE DEF ack, op
<1>6. PICK frames \in Seq(Frames) :
        MaySend(op.id[2], frames) /\ \A f \in ToSet(frames) : f.kind = "ack"
  <2>1. <<ack>> \in Seq(Frames) /\ \A f \in ToSet(<<ack>>) : f = ack
    BY <1>3 DEF ToSet
  <2> QED
    BY <1>3, <1>4, <2>1
<1>7. \A m \in Connections : SentBy(m)' = SentBy(m)
  BY <1>5 DEF SentBy
<1> QED
  BY <1>5, <1>6, <1>7, ServerAccepts

-----------------------------------------------------------------------------
(* Connections, while nothing is refused *)

\* A new connection has nothing under way but HELLO.
LEMMA OpenSocketAccepts ==
  ASSUME IInv, Accepting, OpenSocket
  PROVE  Accepting'
<1>1. Types /\ Talks /\ Successions /\ Carried /\ Unrefused /\ Greeted /\ Based
  BY DEF IInv, Accepting
<1>2. /\ ~open /\ conn < MaxConnections /\ conn' = conn + 1 /\ gate' = <<>>
      /\ log' = log /\ parked' = parked /\ session' = session /\ ops' = ops /\ control' = control
      /\ engine' = engine /\ unacked' = unacked /\ rejected' = rejected
  BY DEF OpenSocket, server
<1>3. PICK hello : /\ hello.kind = "hello" /\ up' = [up EXCEPT ![conn + 1] = <<hello>>]
  BY DEF OpenSocket
<1>4. up \in [Connections -> Seq(ClientFrames)] /\ conn \in Nat /\ conn + 1 \in Connections
  BY <1>1, <1>2, TypeParts, Bounds, SMTT(20) DEF Connections
<1>5. /\ ops = <<>> /\ control = <<>> /\ engine.replica <= conn
      /\ session[conn + 1] = NewSession
  <2>1. conn + 1 > conn
    BY <1>4
  <2> QED
    BY <1>1, <1>2, <1>4, <2>1 DEF Carried, Successions, Talks
<1>6. engine.replica \in Nat
  BY <1>1, TypeParts, Bounds DEF Engine
<1>7. \A m \in Connections : up'[m] = IF m = conn + 1 THEN <<hello>> ELSE up[m]
  BY <1>3, <1>4
<1>8. OpsIn(<<hello>>) = {}
  <2>1. DOMAIN <<hello>> = {1} /\ <<hello>>[1] = hello
    OBVIOUS
  <2> QED
    BY <1>3, <2>1 DEF OpsIn
<1>9. \A m \in Connections : SentBy(m)' = IF m = conn + 1 THEN {} ELSE SentBy(m)
  BY <1>7, <1>8 DEF SentBy
<1>10. Unrefused'
  BY <1>1, <1>2 DEF Unrefused
<1>11. engine'.replica # conn'
  BY <1>2, <1>4, <1>5, <1>6
<1>12. Greeted'
  <2>1. \A m \in Connections : session'[m].stage = "open" => SentBy(m)' = {}
    BY <1>1, <1>2, <1>9 DEF Greeted
  <2>2. session'[conn'].stage = "open"
    BY <1>2, <1>5 DEF NewSession
  <2>3. ToSet(control') = {}
    BY <1>2, <1>5, NoMembers
  <2> QED
    BY <1>2, <1>11, <2>1, <2>2, <2>3 DEF Greeted
<1>13. Based'
  BY <1>1, <1>2, <1>11 DEF Based, Held
<1>14. ASSUME NEW m \in Connections PROVE Rooted(m)'
  <2>1. Rooted(m)
    BY DEF Accepting
  <2>2. CASE m = conn + 1
    BY <1>9, <2>2 DEF Rooted
  <2>3. CASE m # conn + 1
    BY <1>2, <1>9, <2>1, <2>3, RootedKept
  <2> QED
    BY <2>2, <2>3
<1> QED
  BY <1>10, <1>12, <1>13, <1>14 DEF Accepting

\* Losing the connection leaves what is under way to the server; what the page
\* remembers is as it was, or less.
LEMMA LossAccepts ==
  ASSUME IInv, Accepting, LoseConnection,
         UNCHANGED <<log, parked, session, up, conn>>,
         rejected' \subseteq rejected, Based'
  PROVE  Accepting'
<1>1. Unrefused /\ Greeted
  BY DEF Accepting
<1>2. ~open' /\ ToSet(ops') = {} /\ ToSet(control') = {}
  BY NoMembers DEF LoseConnection
<1>3. \A m \in Connections : SentBy(m)' = SentBy(m)
  BY DEF SentBy
<1>4. Unrefused'
  BY <1>1, <1>2 DEF Unrefused
<1>5. Greeted'
  <2>1. \A m \in Connections : session'[m].stage = "open" => SentBy(m)' = {}
    BY <1>1, <1>3 DEF Greeted
  <2> QED
    BY <1>2, <2>1 DEF Greeted
<1>6. ASSUME NEW m \in Connections PROVE Rooted(m)'
  <2>1. Rooted(m)
    BY DEF Accepting
  <2> QED
    BY <1>3, <2>1, RootedKept
<1> QED
  BY <1>4, <1>5, <1>6 DEF Accepting

\* The connection breaks.
LEMMA DropAccepts ==
  ASSUME IInv, Accepting, Drop
  PROVE  Accepting'
<1>1. /\ LoseConnection /\ UNCHANGED <<log, parked, session, up, conn>> /\ rejected' = rejected
      /\ engine' = engine /\ unacked' = unacked /\ helloUnacked' = helloUnacked
  BY DEF Drop, server, client
<1>2. ~open'
  BY <1>1 DEF LoseConnection
<1>3. Based'
  BY <1>1, <1>2 DEF Accepting, Based, Held
<1> QED
  BY <1>1, <1>3, LossAccepts

\* The page closes, and its engine is gone.
LEMMA ReloadAccepts ==
  ASSUME IInv, Accepting, Reload
  PROVE  Accepting'
<1>1. /\ LoseConnection /\ UNCHANGED <<log, parked, session, up, conn>>
      /\ rejected' = LoadRejected /\ engine' = NoEngine /\ helloUnacked' = {} /\ RowsMayLag
  BY DEF Reload, server, LoadRejected
<1>2. rejected' \subseteq rejected
  BY <1>1, LoadedIs
<1>3. IdsOf(Held)' = {}
  BY <1>1 DEF Held, IdsOf, NoEngine
<1>4. Based'
  BY <1>3 DEF Based
<1> QED
  BY <1>1, <1>2, <1>4, LossAccepts

-----------------------------------------------------------------------------
(* The client, while nothing is refused *)

\* What receiving keeps: a frame of the handshake comes once HELLO is taken, and
\* the engine it makes holds only what is saved.
LEMMA ConsumedAccepts ==
  ASSUME IInv, Accepting, NEW f \in Frames, Consumed(f),
         gate' = gate \/ f.kind \notin {"op", "ack", "reject"},
         engine'.replica = IF Renews(f) THEN conn ELSE engine.replica,
         IF Renews(f) THEN IdsOf(Held)' \subseteq IdsOf(ToSet(log))
                      ELSE Held' \subseteq Held \cup ToSet(log),
         ToSet(unacked') \subseteq ToSet(unacked),
         IdsOf(ToSet(unacked)) \subseteq IdsOf(ToSet(unacked') \cup ToSet(log)),
         UNCHANGED <<rejected, helloUnacked>>
  PROVE  Accepting'
<1>1. Types /\ Successions /\ Unrefused /\ Greeted /\ Based
  BY DEF IInv, Accepting
<1>2. /\ open /\ open' = open /\ log' = log /\ parked' = parked /\ session' = session /\ up' = up
      /\ conn' = conn
      /\ ToSet(ops') \subseteq ToSet(ops) /\ ToSet(control') \subseteq ToSet(control)
      /\ f.kind \in {"op", "ack", "reject"} \/ f \in ToSet(control)
  <2>1. control # <<>> => control[1] \in ToSet(control)
    BY <1>1, TypeParts DEF ToSet
  <2> QED
    BY <2>1 DEF Consumed, Aside
<1>3. \A m \in Connections : SentBy(m)' = SentBy(m)
  BY <1>2 DEF SentBy
<1>4. session[conn].stage = "open" => f.kind \in {"op", "ack", "reject"}
  BY <1>1, <1>2 DEF Greeted
<1>5. session[conn].stage = "open" => gate' = gate /\ engine'.replica = engine.replica
  BY <1>4 DEF Renews
<1>6. Unrefused'
  BY <1>1, <1>2 DEF Unrefused
<1>7. Greeted'
  BY <1>1, <1>2, <1>3, <1>5 DEF Greeted
<1>8. Based'
  <2>1. CASE Renews(f)
    <3>1. IdsOf(Held)' \subseteq IdsOf(ToSet(log'))
      BY <1>2, <2>1
    <3> QED
      BY <3>1 DEF Based, IdsOf
  <2>2. CASE ~Renews(f)
    <3>1. engine'.replica = engine.replica /\ Held' \subseteq Held \cup ToSet(log)
      BY <2>2
    <3>2. IdsOf(Held)' \subseteq IdsOf(Held) \cup IdsOf(ToSet(log))
      BY <3>1 DEF IdsOf
    <3>3. IdsOf(Held)' \subseteq IdsOf(ToSet(log') \cup ToSet(unacked'))
      <4>1. \A A, B : IdsOf(A \cup B) = IdsOf(A) \cup IdsOf(B)
        BY DEF IdsOf
      <4>2. IdsOf(Held) \subseteq IdsOf(ToSet(log)) \cup IdsOf(ToSet(unacked))
        BY <1>1, <4>1 DEF Based
      <4>3. IdsOf(ToSet(unacked)) \subseteq IdsOf(ToSet(unacked')) \cup IdsOf(ToSet(log))
        BY <4>1
      <4> QED
        BY <1>2, <3>2, <4>1, <4>2, <4>3
    <3>4. open' /\ engine'.replica = conn' => IdsOf(Held)' \subseteq IdsOf(ToSet(log') \cup OpsIn(up'[conn']))
      BY <1>1, <1>2, <3>1, <3>2 DEF Based, IdsOf, SentBy
    <3>5. engine'.replica = conn' =>
            IdsOf(Held)' \cap IdsOf(ToSet(unacked')) \cap helloUnacked' \subseteq IdsOf(ToSet(log'))
      BY <1>1, <1>2, <3>1, <3>2 DEF Based, IdsOf
    <3> QED
      BY <3>3, <3>4, <3>5 DEF Based, SentBy
  <2> QED
    BY <2>1, <2>2
<1>9. ASSUME NEW m \in Connections PROVE Rooted(m)'
  <2>1. Rooted(m)
    BY DEF Accepting
  <2> QED
    BY <1>2, <1>3, <2>1, RootedKept
<1> QED
  BY <1>6, <1>7, <1>8, <1>9 DEF Accepting

\* The clean base holds nothing that is queued, so only what is saved.
LEMMA RebuiltIs ==
  ASSUME Types, Based, Rebuild
  PROVE  engine'.replica = conn /\ IdsOf(Held)' \subseteq IdsOf(ToSet(log))
<1>1. conn \in 0..MaxConnections /\ engine.nodes \in SUBSET Operations
  BY TypeParts DEF Engine
<1>2. PICK base \in SUBSET Operations :
        base = {o \in engine.nodes : o.id \notin IdsOf(ToSet(unacked))}
  BY <1>1
<1>3. engine' = Seeded(conn, base)
  BY <1>2 DEF Rebuild, CleanCatchupBase
<1>4. engine'.replica = conn /\ Held' = base
  BY <1>1, <1>3, SeededIs DEF Held
<1>5. IdsOf(base) \subseteq IdsOf(ToSet(log))
  BY <1>2 DEF Based, Held, IdsOf
<1> QED
  BY <1>4, <1>5

\* Every frame that is received.
LEMMA ReceiveAccepts ==
  ASSUME IInv, Accepting, Receive
  PROVE  Accepting'
<1>1. Types /\ Carried /\ Unrefused /\ Based
  BY DEF IInv, Accepting
<1>2. CASE ReceiveWelcome
  <2>1. PICK f \in Frames : f = Frame /\ f.kind = "welcome" /\ Consumed(f)
    BY <1>1, <1>2, ReceivesIs DEF ReceiveWelcome
  <2>2. /\ UNCHANGED <<unacked, helloUnacked, gate, rejected>>
        /\ IF Renews(f) THEN Rebuild ELSE engine' = engine
    BY <1>2, <2>1 DEF ReceiveWelcome, Renews
  <2>3. CASE Renews(f)
    BY <1>1, <2>1, <2>2, <2>3, RebuiltIs, ConsumedAccepts DEF IdsOf
  <2>4. CASE ~Renews(f)
    BY <2>1, <2>2, <2>4, ConsumedAccepts DEF IdsOf, Held
  <2> QED
    BY <2>3, <2>4
<1>3. CASE ReceiveSnapshot
  <2>1. PICK f \in Frames : f = Frame /\ f.kind = "snapshot" /\ Consumed(f)
    BY <1>1, <1>3, ReceivesIs DEF ReceiveSnapshot
  <2>2. UNCHANGED <<unacked, helloUnacked, gate, rejected>> /\ engine' = Seeded(conn, f.nodes) /\ Renews(f)
    BY <1>3, <2>1 DEF ReceiveSnapshot, Renews
  <2>3. f.nodes \in SUBSET Operations /\ f.nodes \subseteq ToSet(log) /\ conn \in 0..MaxConnections
    BY <1>1, <2>1, FrameFields, TypeParts DEF Carried, Told, Consumed
  <2>4. engine'.replica = conn /\ Held' = f.nodes
    BY <2>2, <2>3, SeededIs DEF Held
  <2> QED
    BY <2>1, <2>2, <2>3, <2>4, ConsumedAccepts DEF IdsOf
<1>4. CASE ReceiveBegin
  <2>1. PICK f \in Frames : f = Frame /\ f.kind = "begin" /\ Consumed(f)
    BY <1>1, <1>4, ReceivesIs DEF ReceiveBegin
  <2>2. UNCHANGED <<unacked, helloUnacked, gate, rejected>> /\ Rebuild /\ Renews(f)
    BY <1>4, <2>1 DEF ReceiveBegin, Renews
  <2> QED
    BY <1>1, <2>1, <2>2, RebuiltIs, ConsumedAccepts DEF IdsOf
<1>5. CASE ReceiveChained
  <2>1. PICK f \in Frames : f = Frame /\ f.kind \in {"chunk", "end", "have"} /\ Consumed(f)
    BY <1>1, <1>5, ReceivesIs DEF ReceiveChained
  <2>2. UNCHANGED <<engine, unacked, helloUnacked, rejected>> /\ ~Renews(f)
    BY <1>5, <2>1 DEF ReceiveChained, Renews
  <2> QED
    BY <2>1, <2>2, ConsumedAccepts DEF IdsOf, Held
<1>6. CASE ReceiveAck
  <2>1. PICK f \in Frames : f = Frame /\ f.kind = "ack" /\ Consumed(f)
    BY <1>1, <1>6, ReceivesIs DEF ReceiveAck
  <2>2. PICK S : S = {op \in ToSet(unacked) : op.id = f.id}
    OBVIOUS
  <2>3. UNCHANGED <<engine, helloUnacked, gate, rejected>> /\ unacked' = Dropped(unacked, S) /\ ~Renews(f)
    BY <1>6, <2>1, <2>2 DEF ReceiveAck, Without, Renews
  <2>4. ToSet(unacked') = ToSet(unacked) \ S
    BY <1>1, <2>3, TypeParts, DroppedIs
  <2>5. f.id \in IdsOf(ToSet(log))
    BY <1>1, <2>1 DEF Carried, Told, Consumed
  <2>6. IdsOf(ToSet(unacked)) \subseteq IdsOf(ToSet(unacked') \cup ToSet(log))
    BY <2>2, <2>4, <2>5 DEF IdsOf
  <2> QED
    BY <2>1, <2>3, <2>4, <2>6, ConsumedAccepts DEF Held
<1>7. CASE ReceiveReject
  <2>1. PICK f \in Frames : f = Frame /\ f.kind = "reject" /\ Consumed(f)
    BY <1>1, <1>7, ReceivesIs DEF ReceiveReject
  <2> QED
    BY <1>1, <2>1 DEF Unrefused, Consumed
<1>8. CASE ReceiveOp
  <2>1. PICK f \in Frames : f = Frame /\ f.kind = "op" /\ Consumed(f)
    BY <1>1, <1>8, ReceivesIs DEF ReceiveOp
  <2>2. /\ UNCHANGED <<unacked, helloUnacked, gate, rejected>> /\ ~Renews(f)
        /\ engine' = IF HasEngine THEN ApplyAll(engine, {f.op}) ELSE engine
    BY <1>8, <2>1 DEF ReceiveOp, Renews
  <2>3. {f.op} \in SUBSET Operations /\ f.op \in ToSet(log) /\ engine \in Engine
    BY <1>1, <2>1, FrameFields, TypeParts DEF Carried, Told, Consumed
  <2>4. engine'.replica = engine.replica /\ Held' \subseteq Held \cup ToSet(log)
    <3>1. CASE HasEngine
      BY <2>2, <2>3, <3>1, ApplyAllIs DEF Held, Engine
    <3>2. CASE ~HasEngine
      BY <2>2, <3>2 DEF Held
    <3> QED
      BY <3>1, <3>2
  <2> QED
    BY <2>1, <2>2, <2>4, ConsumedAccepts DEF IdsOf
<1> QED
  BY <1>2, <1>3, <1>4, <1>5, <1>6, <1>7, <1>8 DEF Receive

\* Callbacks that only feed the engine what is in the log.
LEMMA CallbackAccepts ==
  ASSUME IInv, Accepting, gate # <<>>,
         UNCHANGED <<log, parked, session, up, ops, control, conn, open, unacked, helloUnacked, rejected>>,
         engine'.replica = engine.replica, Held' \subseteq Held \cup ToSet(log)
  PROVE  Accepting'
<1>1. Unrefused /\ Greeted /\ Based
  BY DEF Accepting
<1>2. \A m \in Connections : SentBy(m)' = SentBy(m)
  BY DEF SentBy
<1>3. Unrefused'
  BY <1>1 DEF Unrefused
<1>4. Greeted'
  BY <1>1, <1>2 DEF Greeted
<1>5. Based'
  <2>1. IdsOf(Held)' \subseteq IdsOf(Held) \cup IdsOf(ToSet(log))
    BY DEF IdsOf
  <2>2. IdsOf(Held)' \subseteq IdsOf(ToSet(log') \cup ToSet(unacked'))
    BY <1>1, <2>1 DEF Based, IdsOf
  <2>3. open' /\ engine'.replica = conn' => IdsOf(Held)' \subseteq IdsOf(ToSet(log') \cup OpsIn(up'[conn']))
    BY <1>1, <2>1 DEF Based, IdsOf, SentBy
  <2>4. engine'.replica = conn' =>
          IdsOf(Held)' \cap IdsOf(ToSet(unacked')) \cap helloUnacked' \subseteq IdsOf(ToSet(log'))
    BY <1>1, <2>1 DEF Based, IdsOf
  <2> QED
    BY <2>2, <2>3, <2>4 DEF Based, SentBy
<1>6. ASSUME NEW m \in Connections PROVE Rooted(m)'
  <2>1. Rooted(m)
    BY DEF Accepting
  <2> QED
    BY <1>2, <2>1, RootedKept
<1> QED
  BY <1>3, <1>4, <1>5, <1>6 DEF Accepting

\* The callbacks before ALREADY_HAVE.
LEMMA CatchupAccepts ==
  ASSUME IInv, Accepting, RunYield \/ RunChunk \/ RunEnd
  PROVE  Accepting'
<1>1. Types /\ Carried
  BY DEF IInv
<1>2. CASE RunYield
  BY <1>2, CallbackAccepts DEF RunYield, server, network, Held
<1>3. CASE RunEnd
  BY <1>3, CallbackAccepts DEF RunEnd, server, network, Held
<1>4. CASE RunChunk
  <2>1. PICK f \in Frames : f = gate[1] /\ f.kind = "chunk" /\ Told(f)
    BY <1>1, <1>4, GateIs DEF RunChunk
  <2>2. PICK new \in SUBSET Operations : new = {entry.op : entry \in f.entries} /\ new \subseteq ToSet(log)
    <3>1. {entry.op : entry \in f.entries} \in SUBSET Operations
      BY <2>1, FrameFields DEF Numbered
    <3>2. {entry.op : entry \in f.entries} \subseteq ToSet(log)
      BY <2>1 DEF Told
    <3> QED
      BY <3>1, <3>2
  <2>3. /\ gate # <<>> /\ engine' = ApplyAll(engine, new)
        /\ UNCHANGED <<log, parked, session, up, ops, control, conn, open, unacked, helloUnacked, rejected>>
    BY <1>4, <2>1, <2>2 DEF RunChunk, server, network
  <2>4. engine \in Engine
    BY <1>1, TypeParts
  <2>5. engine'.replica = engine.replica /\ Held' \subseteq Held \cup ToSet(log)
    BY <2>2, <2>3, <2>4, ApplyAllIs DEF Held, Engine
  <2> QED
    BY <2>3, <2>5, CallbackAccepts
<1> QED
  BY <1>2, <1>3, <1>4

\* New operations of the engine are under way and queued; of what was queued, only
\* what HELLO reported is let go.
LEMMA MintingAccepts ==
  ASSUME IInv, Accepting, NEW new,
         open => engine.replica = conn,
         \A m \in Connections : SentBy(m)' = IF open /\ m = conn THEN SentBy(m) \cup new ELSE SentBy(m),
         \A o \in new : /\ o.id[2] = engine.replica /\ o.id \notin helloUnacked
                        /\ o.parent \in {Root} \cup IdsOf(engine.nodes \cup new),
         engine'.replica = engine.replica, Held' = Held \cup new,
         new \subseteq ToSet(unacked'), ToSet(unacked') \subseteq ToSet(unacked) \cup new,
         \A o \in ToSet(unacked) \ ToSet(unacked') : engine.replica = conn /\ o.id \in helloUnacked,
         gate' # <<>> => gate # <<>>,
         UNCHANGED <<log, parked, session, ops, control, conn, open, helloUnacked, rejected>>
  PROVE  Accepting'
<1>1. Types /\ Successions /\ Unrefused /\ Greeted /\ Based
  BY DEF IInv, Accepting
<1>2. open => conn \in Connections
  <2>1. conn \in 0..MaxConnections /\ (open => conn > 0)
    BY <1>1, TypeParts DEF Successions
  <2> QED
    BY <2>1, Bounds DEF Connections
<1>3. \A A, B : IdsOf(A \cup B) = IdsOf(A) \cup IdsOf(B)
  BY DEF IdsOf
<1>4. \A k \in IdsOf(new) : k \notin helloUnacked
  BY DEF IdsOf
<1>5. Unrefused'
  BY <1>1 DEF Unrefused
<1>6. Greeted'
  <2>1. open => session[conn].stage # "open"
    BY <1>1 DEF Greeted
  <2>2. \A m \in Connections : session'[m].stage = "open" => SentBy(m)' = {}
    BY <1>1, <2>1 DEF Greeted
  <2> QED
    BY <1>1, <2>1, <2>2 DEF Greeted
<1>7. IdsOf(Held)' = IdsOf(Held) \cup IdsOf(new)
  BY <1>3
<1>8. IdsOf(new) \subseteq IdsOf(ToSet(unacked'))
      /\ IdsOf(ToSet(unacked')) \subseteq IdsOf(ToSet(unacked)) \cup IdsOf(new)
  BY DEF IdsOf
<1>9. Based'
  <2>1. ASSUME NEW k \in IdsOf(Held), k \notin IdsOf(ToSet(log)) PROVE k \in IdsOf(ToSet(unacked'))
    <3>1. k \in IdsOf(ToSet(unacked))
      BY <1>1, <1>3, <2>1 DEF Based
    <3>2. PICK o \in ToSet(unacked) : o.id = k
      BY <3>1 DEF IdsOf
    <3>3. CASE o \in ToSet(unacked')
      BY <3>2, <3>3 DEF IdsOf
    <3>4. CASE o \notin ToSet(unacked')
      BY <1>1, <2>1, <3>1, <3>2, <3>4 DEF Based
    <3> QED
      BY <3>3, <3>4
  <2>2. IdsOf(Held)' \subseteq IdsOf(ToSet(log') \cup ToSet(unacked'))
    <3>1. IdsOf(ToSet(log') \cup ToSet(unacked')) = IdsOf(ToSet(log)) \cup IdsOf(ToSet(unacked'))
      BY <1>3
    <3>2. IdsOf(Held) \subseteq IdsOf(ToSet(log)) \cup IdsOf(ToSet(unacked'))
      BY <2>1
    <3> QED
      BY <1>7, <1>8, <3>1, <3>2
  <2>3. open' /\ engine'.replica = conn' => IdsOf(Held)' \subseteq IdsOf(ToSet(log') \cup OpsIn(up'[conn']))
    <3> SUFFICES ASSUME open, engine.replica = conn
                 PROVE  IdsOf(Held)' \subseteq IdsOf(ToSet(log) \cup OpsIn(up'[conn]))
      OBVIOUS
    <3>1. OpsIn(up'[conn]) = SentBy(conn) \cup new
      BY <1>2 DEF SentBy
    <3>2. IdsOf(Held) \subseteq IdsOf(ToSet(log)) \cup IdsOf(SentBy(conn))
      BY <1>1, <1>3 DEF Based
    <3>3. IdsOf(ToSet(log) \cup OpsIn(up'[conn])) =
            IdsOf(ToSet(log)) \cup (IdsOf(SentBy(conn)) \cup IdsOf(new))
      <4>1. \A L, S, N : IdsOf(L \cup (S \cup N)) = IdsOf(L) \cup (IdsOf(S) \cup IdsOf(N))
        BY DEF IdsOf
      <4> QED
        BY <3>1, <4>1
    <3> QED
      BY <1>7, <3>2, <3>3
  <2>4. engine'.replica = conn' =>
          IdsOf(Held)' \cap IdsOf(ToSet(unacked')) \cap helloUnacked' \subseteq IdsOf(ToSet(log'))
    BY <1>1, <1>4, <1>7, <1>8 DEF Based
  <2> QED
    BY <2>2, <2>3, <2>4 DEF Based, SentBy
<1>10. ASSUME NEW m \in Connections PROVE Rooted(m)'
  <2>1. Rooted(m)
    BY DEF Accepting
  <2>2. CASE ~(open /\ m = conn)
    <3>1. SentBy(m)' = SentBy(m)
      BY <2>2
    <3> QED
      BY <2>1, <3>1, RootedKept
  <2>3. CASE open /\ m = conn
    <3>1. SentBy(m)' = SentBy(m) \cup new /\ engine.replica = m
      BY <2>3
    <3>2. IdsOf(engine.nodes) \subseteq IdsOf(ToSet(log) \cup SentBy(m))
      BY <1>1, <2>3, <3>1 DEF Based, Held, IdsOf
    <3> SUFFICES ASSUME NEW o \in SentBy(m)'
                 PROVE  /\ o.id[2] = m
                        /\ session'[m].stage # "closed" =>
                             o.parent \in {Root} \cup IdsOf(ToSet(log') \cup SentBy(m)')
      BY DEF Rooted
    <3>3. CASE o \in new
      <4>1. o.id[2] = m /\ o.parent \in {Root} \cup IdsOf(engine.nodes) \cup IdsOf(new)
        BY <1>3, <3>1, <3>3
      <4>2. IdsOf(ToSet(log) \cup (SentBy(m) \cup new)) = IdsOf(ToSet(log) \cup SentBy(m)) \cup IdsOf(new)
        BY DEF IdsOf
      <4> QED
        BY <3>1, <3>2, <4>1, <4>2
    <3>4. CASE o \in SentBy(m)
      <4>1. IdsOf(ToSet(log) \cup SentBy(m)) \subseteq IdsOf(ToSet(log') \cup SentBy(m)')
        BY <3>1 DEF IdsOf
      <4> QED
        BY <2>1, <3>4, <4>1 DEF Rooted
    <3> QED
      BY <3>1, <3>3, <3>4
  <2> QED
    BY <2>2, <2>3
<1> QED
  BY <1>5, <1>6, <1>9, <1>10 DEF Accepting

\* A frame for each operation.
FramesFor(queue) == [i \in DOMAIN queue |-> [kind |-> "op", op |-> queue[i]]]

\* They are the operations under way once they are sent.
LEMMA FramesForIs ==
  ASSUME NEW queue \in Seq(Operations)
  PROVE  FramesFor(queue) \in Seq(ClientFrames) /\ OpsIn(FramesFor(queue)) = ToSet(queue)
<1>1. PICK m \in Nat : m = Len(queue) /\ DOMAIN queue = 1..m
  OBVIOUS
<1>2. \A i \in DOMAIN queue : [kind |-> "op", op |-> queue[i]] \in ClientFrames
  BY DEF ClientFrames
<1>3. FramesFor(queue) \in Seq(ClientFrames)
  BY <1>1, <1>2 DEF FramesFor
<1>4. DOMAIN FramesFor(queue) = DOMAIN queue
      /\ \A i \in DOMAIN queue : FramesFor(queue)[i].kind = "op" /\ FramesFor(queue)[i].op = queue[i]
  BY DEF FramesFor
<1>5. OpsIn(FramesFor(queue)) = ToSet(queue)
  BY <1>4 DEF OpsIn, ToSet
<1> QED
  BY <1>3, <1>5

\* What is under way after operations are sent.
LEMMA SentIs ==
  ASSUME Types, NEW queue \in Seq(Operations), open => conn \in Connections,
         up' = IF open THEN [up EXCEPT ![conn] = up[conn] \o FramesFor(queue)] ELSE up
  PROVE  \A m \in Connections :
           SentBy(m)' = IF open /\ m = conn THEN SentBy(m) \cup ToSet(queue) ELSE SentBy(m)
<1>1. up \in [Connections -> Seq(ClientFrames)]
  BY TypeParts
<1>2. \A m \in Connections : up'[m] = IF open /\ m = conn THEN up[m] \o FramesFor(queue) ELSE up[m]
  BY <1>1
<1>3. \A m \in Connections : OpsIn(up[m] \o FramesFor(queue)) = OpsIn(up[m]) \cup ToSet(queue)
  <2> SUFFICES ASSUME NEW m \in Connections
               PROVE  OpsIn(up[m] \o FramesFor(queue)) = OpsIn(up[m]) \cup ToSet(queue)
    OBVIOUS
  <2>1. up[m] \in Seq(ClientFrames)
    BY <1>1
  <2> QED
    BY <2>1, FramesForIs, OpsInIs
<1> SUFFICES ASSUME NEW m \in Connections
             PROVE  OpsIn(up'[m]) = IF open /\ m = conn THEN OpsIn(up[m]) \cup ToSet(queue) ELSE OpsIn(up[m])
  BY DEF SentBy
<1>4. CASE open /\ m = conn
  <2>1. up'[m] = up[m] \o FramesFor(queue)
    BY <1>2, <1>4
  <2> QED
    BY <1>3, <1>4, <2>1
<1>5. CASE ~(open /\ m = conn)
  <2>1. up'[m] = up[m]
    BY <1>2, <1>5
  <2> QED
    BY <1>5, <2>1
<1> QED
  BY <1>4, <1>5

\* The user types, while the connection has its engine or there is none.
LEMMA TypeAccepts ==
  ASSUME IInv, Accepting, Type, "early_typing" \notin faults
  PROVE  Accepting'
<1>1. Types /\ Successions /\ Fates
  BY DEF IInv
<1>2. PICK op :
        /\ \E parent \in IdsOf(engine.nodes) \cup {Root} : op = Op(<<typed + 1, engine.replica>>, parent)
        /\ engine' = ApplyAll(engine, {op})
        /\ unacked' = Append(unacked, op)
        /\ up' = IF open THEN [up EXCEPT ![conn] = Append(@, [kind |-> "op", op |-> op])] ELSE up
  BY DEF Type
<1>3. /\ UNCHANGED <<log, parked, session, ops, control, conn, open, helloUnacked, gate, rejected>>
      /\ typed < MaxEdits /\ engine.replica # 0
      /\ open => engine.replica = conn
  BY DEF Type, server, HasEngine
<1>4. /\ typed \in Nat /\ engine \in Engine /\ unacked \in Seq(Operations)
      /\ conn \in 0..MaxConnections /\ up \in [Connections -> Seq(ClientFrames)]
  BY <1>1, TypeParts, Bounds
<1>5. engine.replica \in Connections /\ engine.nodes \in SUBSET Operations
  BY <1>3, <1>4, Bounds DEF Engine, Connections
<1>6. open => conn \in Connections
  BY <1>3, <1>5
<1>7. /\ op \in Operations /\ op.id = <<typed + 1, engine.replica>>
      /\ op.parent \in IdsOf(engine.nodes) \cup {Root}
  <2> PICK parent \in IdsOf(engine.nodes) \cup {Root} : op = Op(<<typed + 1, engine.replica>>, parent)
    BY <1>2
  <2>1. <<typed + 1, engine.replica>> \in Ids
    <3>1. typed + 1 \in Edits
      BY <1>3, <1>4, Bounds DEF Edits
    <3> QED
      BY <1>5, <3>1 DEF Ids
  <2>2. parent \in Ids \cup {Root}
    BY <1>5, OperationFields DEF IdsOf
  <2> QED
    BY <2>1, <2>2 DEF Op, Operations
<1>8. op.id \notin helloUnacked
  <2>1. \A k \in helloUnacked : k[1] \in 1..typed
    BY <1>1 DEF Fates, Reported
  <2> QED
    BY <1>4, <1>7, <2>1
<1>9. PICK one \in Seq(Operations) : one = <<op>> /\ ToSet(one) = {op}
  <2>1. <<op>> \in Seq(Operations)
    BY <1>7
  <2>2. DOMAIN <<op>> = {1} /\ <<op>>[1] = op
    OBVIOUS
  <2> QED
    BY <2>1, <2>2 DEF ToSet
<1>10. up' = IF open THEN [up EXCEPT ![conn] = up[conn] \o FramesFor(one)] ELSE up
  <2>1. FramesFor(one) = <<[kind |-> "op", op |-> op]>>
    BY <1>9 DEF FramesFor
  <2>2. ASSUME open PROVE Append(up[conn], [kind |-> "op", op |-> op]) = up[conn] \o FramesFor(one)
    <3>1. up[conn] \in Seq(ClientFrames)
      BY <1>4, <1>6, <2>2
    <3>2. PICK frame \in ClientFrames : frame = [kind |-> "op", op |-> op]
      <4>1. [kind |-> "op", op |-> op] \in ClientFrames
        BY <1>7 DEF ClientFrames
      <4> QED
        BY <4>1
    <3>3. Append(up[conn], frame) = up[conn] \o <<frame>>
      BY <3>1
    <3> QED
      BY <2>1, <3>2, <3>3
  <2> QED
    BY <1>2, <2>2
<1>11. \A m \in Connections :
         SentBy(m)' = IF open /\ m = conn THEN SentBy(m) \cup {op} ELSE SentBy(m)
  BY <1>1, <1>6, <1>9, <1>10, SentIs
<1>12. engine'.replica = engine.replica /\ Held' = Held \cup {op}
  <2>1. {op} \in SUBSET Operations
    BY <1>7
  <2> QED
    BY <1>2, <1>4, <2>1, ApplyAllIs DEF Held, Engine
<1>13. ToSet(unacked') = ToSet(unacked) \cup {op}
  BY <1>2, <1>4, <1>7, Queues
<1>14. \A o \in {op} : /\ o.id[2] = engine.replica /\ o.id \notin helloUnacked
                       /\ o.parent \in {Root} \cup IdsOf(engine.nodes \cup {op})
  BY <1>7, <1>8 DEF IdsOf
<1> QED
  BY <1>3, <1>11, <1>12, <1>13, <1>14, MintingAccepts

\* ALREADY_HAVE is handled.
LEMMA FinishAccepts ==
  ASSUME IInv, Accepting, FinishHandshake
  PROVE  Accepting'
<1>1. Types /\ Successions /\ Renewals /\ Carried /\ Identity /\ Fates
  BY DEF IInv
<1>2. PICK f \in Frames : f = gate[1] /\ f.kind = "have" /\ gate # <<>> /\ 1 \in DOMAIN gate
  BY <1>1, GateIs DEF FinishHandshake
<1>3. /\ engine \in Engine /\ unacked \in Seq(Operations) /\ conn \in 0..MaxConnections
  BY <1>1, TypeParts
<1>4. conn \in Connections /\ engine.replica = conn /\ engine.replica # 0
  <2>1. conn > 0 /\ engine.replica = conn
    BY <1>1, <1>2 DEF Successions, Renewals
  <2> QED
    BY <1>3, <2>1, Bounds DEF Connections
<1>5. PICK hello : hello = {op \in ToSet(unacked) : op.id \in helloUnacked}
  OBVIOUS
<1>6. PICK reported \in Seq(Operations) : reported = Kept(unacked, hello) /\ ToSet(reported) \subseteq hello
  <2>1. Kept(unacked, hello) \in Seq(Operations) /\ ToSet(Kept(unacked, hello)) = ToSet(unacked) \cap hello
    BY <1>3, KeptIs
  <2> QED
    BY <2>1
<1>7. PICK recon \in Seq(Operations) :
        recon = ToReconcile(reported, f.ids) /\ ToSet(recon) \subseteq hello
  <2>1. PICK H : H = {op \in ToSet(reported) : op.id \in f.ids}
    OBVIOUS
  <2>2. Dropped(reported, H) \in Seq(Operations) /\ ToSet(Dropped(reported, H)) = ToSet(reported) \ H
    BY DroppedIs
  <2>3. ToReconcile(reported, f.ids) = Dropped(reported, H)
    BY <2>1 DEF ToReconcile
  <2> QED
    BY <1>6, <2>2, <2>3
<1>8. PICK rest \in Seq(Operations) : rest = Dropped(unacked, hello) /\ ToSet(rest) = ToSet(unacked) \ hello
  BY <1>3, DroppedIs
<1>9. \A o \in ToSet(recon) : o.id[2] # 0
  BY <1>1, <1>5, <1>7 DEF Identity, Descent, Descends
<1>10. PICK new \in Seq(Operations) :
         /\ new = Reminted(recon) /\ DOMAIN new = DOMAIN recon
         /\ \A i \in DOMAIN recon :
              /\ new[i].id = <<recon[i].id[1], conn>>
              /\ \/ \E j \in DOMAIN recon : new[i].parent = new[j].id
                 \/ new[i].parent \in IdsOf(engine.nodes)
                 \/ new[i].parent = Root
  <2>1. /\ Reminted(recon) \in Seq(Operations) /\ DOMAIN Reminted(recon) = DOMAIN recon
        /\ \A i \in DOMAIN recon :
             /\ Reminted(recon)[i].id = <<recon[i].id[1], engine.replica>>
             /\ \/ \E j \in DOMAIN recon : /\ recon[i].parent = recon[j].id
                                           /\ Reminted(recon)[i].parent = Reminted(recon)[j].id
                \/ Reminted(recon)[i].parent = recon[i].parent /\ recon[i].parent \in IdsOf(engine.nodes)
                \/ Reminted(recon)[i].parent = Root
    BY <1>3, <1>4, <1>9, RemintedIs
  <2> QED
    BY <1>4, <2>1
<1>11. \A i \in DOMAIN new : new[i] \in ToSet(new)
  BY DEF ToSet
<1>12. \A o \in ToSet(new) : /\ o.id[2] = conn
                             /\ o.parent \in {Root} \cup IdsOf(engine.nodes \cup ToSet(new))
  <2> SUFFICES ASSUME NEW i \in DOMAIN new
               PROVE  /\ new[i].id[2] = conn
                      /\ new[i].parent \in {Root} \cup IdsOf(engine.nodes \cup ToSet(new))
    BY DEF ToSet
  <2>1. new[i].id[2] = conn
    BY <1>10
  <2>2. CASE \E j \in DOMAIN recon : new[i].parent = new[j].id
    BY <1>10, <1>11, <2>1, <2>2 DEF IdsOf
  <2>3. CASE new[i].parent \in IdsOf(engine.nodes)
    BY <2>1, <2>3 DEF IdsOf
  <2>4. CASE new[i].parent = Root
    BY <2>1, <2>4
  <2> QED
    BY <1>10, <2>1, <2>2, <2>3, <2>4
<1>13. \A o \in ToSet(new) : o.id \notin helloUnacked
  <2>1. \A k \in helloUnacked : k[2] < conn
    BY <1>1 DEF Fates, Reported
  <2>2. ~(conn < conn)
    BY <1>3
  <2> QED
    BY <1>12, <2>1, <2>2
<1>14. /\ UNCHANGED <<log, parked, session, ops, control, conn, open, helloUnacked, rejected>>
       /\ gate' = Tail(gate) /\ unacked' = rest \o new
       /\ engine' = ApplyAll(engine, ToSet(new))
       /\ up' = IF open THEN [up EXCEPT ![conn] = up[conn] \o FramesFor(new)] ELSE up
  BY <1>2, <1>5, <1>6, <1>7, <1>8, <1>10 DEF FinishHandshake, server, QueueAgain, FramesFor
<1>15. \A m \in Connections :
         SentBy(m)' = IF open /\ m = conn THEN SentBy(m) \cup ToSet(new) ELSE SentBy(m)
  BY <1>1, <1>4, <1>14, SentIs
<1>16. engine'.replica = engine.replica /\ Held' = Held \cup ToSet(new)
  <2>1. ToSet(new) \in SUBSET Operations
    BY Queues
  <2> QED
    BY <1>3, <1>14, <2>1, ApplyAllIs DEF Held, Engine
<1>17. ToSet(unacked') = (ToSet(unacked) \ hello) \cup ToSet(new)
  BY <1>8, <1>14, Joins
<1>18. \A o \in ToSet(unacked) \ ToSet(unacked') : engine.replica = conn /\ o.id \in helloUnacked
  BY <1>4, <1>5, <1>17
<1> QED
  BY <1>2, <1>4, <1>12, <1>13, <1>14, <1>15, <1>16, <1>17, <1>18, MintingAccepts

\* Nothing is under way yet.
LEMMA InitAccepts ==
  ASSUME Init
  PROVE  Accepting
<1>1. /\ log = <<>> /\ parked = {} /\ session = [n \in Connections |-> NewSession]
      /\ up = [n \in Connections |-> <<>>] /\ ops = <<>> /\ control = <<>> /\ ~open
      /\ engine = NoEngine /\ rejected = {}
  BY DEF Init
<1>2. ToSet(ops) = {} /\ ToSet(control) = {}
  BY <1>1, NoMembers
<1>3. \A n \in Connections : SentBy(n) = {}
  BY <1>1 DEF SentBy, OpsIn
<1>4. IdsOf(Held) = {}
  BY <1>1 DEF Held, IdsOf, NoEngine
<1> QED
  BY <1>1, <1>2, <1>3, <1>4 DEF Accepting, Unrefused, Greeted, Based, Rooted

\* A step that moves no operation.
LEMMA StillAccepts ==
  ASSUME Accepting,
         UNCHANGED <<log, parked, session, up, ops, control, conn, open, engine, unacked, helloUnacked,
                     gate, rejected>>
  PROVE  Accepting'
<1>1. \A m \in Connections : SentBy(m)' = SentBy(m) /\ (Rooted(m) => Rooted(m)')
  BY DEF SentBy, Rooted
<1>2. Unrefused' /\ Greeted'
  BY <1>1 DEF Accepting, Unrefused, Greeted
<1>3. Based'
  BY BasedKept DEF Accepting
<1> QED
  BY <1>1, <1>2, <1>3 DEF Accepting

\* Every step, without typing before the new engine, keeps everything acceptable.
LEMMA NextAccepts ==
  ASSUME IInv, Accepting, "early_typing" \notin faults, [Next]_vars
  PROVE  Accepting'
<1>1. ASSUME NEW n \in Connections, Handshake(n) PROVE Accepting'
  BY <1>1, HandshakeAccepts, ClosesAccepts DEF Handshake, Closes
<1>2. ASSUME NEW n \in Connections, Take(n) PROVE Accepting'
  BY <1>2, TakeAccepts
<1>3. CASE PeerEdit
  BY <1>3, PeerEditAccepts
<1>4. CASE Commit
  BY <1>4, CommitAccepts
<1>5. ASSUME NEW op \in parked, Sweep(op) PROVE Accepting'
  BY DEF Accepting, Unrefused
<1>6. CASE OpenSocket
  BY <1>6, OpenSocketAccepts
<1>7. CASE Drop
  BY <1>7, DropAccepts
<1>8. CASE Reload
  BY <1>8, ReloadAccepts
<1>9. CASE Receive
  BY <1>9, ReceiveAccepts
<1>10. CASE Run
  BY <1>10, CatchupAccepts, FinishAccepts DEF Run
<1>11. CASE Type
  BY <1>11, TypeAccepts
<1>12. CASE Flush \/ CommitRows \/ LoseRows
  BY <1>12, StillAccepts DEF Flush, CommitRows, LoseRows, EndTransaction, server, network
<1>13. CASE UNCHANGED vars
  BY <1>13, StillAccepts DEF vars, server, network, client
<1> QED
  BY <1>1, <1>2, <1>3, <1>4, <1>5, <1>6, <1>7, <1>8, <1>9, <1>10, <1>11, <1>12, <1>13 DEF Next

\* The environment of a behaviour does not change.
LEMMA FaultsStay ==
  ASSUME [Next]_vars
  PROVE  faults' = faults
BY DEF Next, vars, Handshake, Admit, CloseMalformed, SendCatchup, SendAlreadyHave, NoticeClose, Take,
       RejectMismatch, AcceptOperation, TakeOperation, PeerEdit, Commit, Sweep, OpenSocket, Drop, Reload,
       Receive, ReceiveWelcome, ReceiveSnapshot, ReceiveBegin, ReceiveChained, ReceiveAck, ReceiveReject,
       ReceiveOp, Receives, Run, RunYield, RunChunk, RunEnd, FinishHandshake, Type, Flush, CommitRows,
       LoseRows, EndTransaction

\* With typing suspended between HELLO and the new engine, every operation on its
\* way carries the replica of its session, and the server never rejects or parks
\* one, whatever the lanes, the commits and the connections do
\* (reconcileOfflineQueue.ts:1-14).
THEOREM NothingRefusedAlways == Spec /\ Orderly => []NothingRefused
<1> DEFINE Inv == IInv /\ ("early_typing" \notin faults => Accepting)
<1>1. Init /\ Orderly => Inv
  BY InitInv, InitAccepts
<1>2. Inv /\ [Next]_vars => Inv'
  BY NextStep, NextAccepts, FaultsStay
<1>3. Inv => NothingRefused
  <2>1. \A n : UnderWay(n) = SentBy(n)
    BY DEF UnderWay, SentBy, OpsIn
  <2> QED
    BY <2>1 DEF Accepting, Unrefused, Rooted, NothingRefused, ParkedWaits
<1> QED
  BY <1>1, <1>2, <1>3, PTL DEF Spec

=============================================================================
