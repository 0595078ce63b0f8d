--------------------------- MODULE Library_proofs ---------------------------
(***************************************************************************)
(* Proofs about sign-in sessions, idempotency keys and the walk through    *)
(* the list of documents, for any browsers, calls, requests, keys, page    *)
(* size and clock.                                                         *)
(***************************************************************************)
EXTENDS Library, FiniteSetTheorems, TLAPS

-----------------------------------------------------------------------------
(* The inductive invariant of the sessions *)

Token == [family : Nat \ {0}, used : BOOLEAN, revoked : BOOLEAN, expired : BOOLEAN]

\* What a call under way may be: where it is goes with its kind, and so does what
\* it knows, the token it presented and the one it was given.
Underway ==
  {c \in [kind : {"login", "refresh", "logout"}, by : Browsers,
          at : {"family", "find", "revoke", "mark", "insert", "granted", "dead", "gone"},
          token : Nat, new : Nat] :
     /\ c.kind = "login" => c.at \in {"family", "granted"} /\ c.token = 0
     /\ c.kind = "refresh" => c.at \notin {"family", "gone"} /\ c.token # 0
     /\ c.kind = "logout" => c.at \in {"find", "revoke", "gone"}
     /\ c.at \in {"find", "revoke"} => c.token # 0
     /\ c.new # 0 <=> c.at = "granted"}

Live == {k \in Calls : calls[k] # NoCall}

SessionTypes ==
  /\ tokens \in Seq(Token)
  /\ families \in Nat
  /\ \A t \in DOMAIN tokens : tokens[t].family <= families
  /\ cookie \in [Browsers -> 0..Len(tokens)]
  /\ access \in [Browsers -> {"none", "valid", "expired"}]
  /\ calls \in [Calls -> {NoCall} \cup Underway]
  /\ \A k \in Calls : {calls[k].token, calls[k].new} \subseteq 0..Len(tokens)
  /\ signedIn \in [Browsers -> {"no", "calm", "troubled"}]
  /\ raced \subseteq 1..families

\* The tokens browser b knows or is about to be handed.
HeldBy(b) ==
  {t \in DOMAIN tokens :
     cookie[b] = t \/ \E k \in Live : calls[k].by = b /\ t \in {calls[k].token, calls[k].new}}

\* No two browsers hold tokens of one family.
Owned ==
  \A b, c \in Browsers : b # c =>
    \A t \in HeldBy(b), u \in HeldBy(c) : tokens[t].family # tokens[u].family

\* Nobody knows the token a login hands over but that login, and it is the only
\* one of its family.
Fresh(k, n) ==
  /\ Usable(n)
  /\ tokens[n].family \notin raced
  /\ \A t \in DOMAIN tokens : tokens[t].family = tokens[n].family => t = n
  /\ \A b \in Browsers : cookie[b] # n
  /\ \A x \in Live : calls[x].token # n /\ (x # k => calls[x].new # n)

LoginsFresh ==
  \A k \in Live : calls[k].kind = "login" /\ calls[k].at = "granted" => Fresh(k, calls[k].new)

\* One call at a time works on a family that is not raced, and what it has read
\* of the family still holds.
Alone(k, f) ==
  \A x \in Live : calls[x].token # 0 /\ tokens[calls[x].token].family = f => x = k

AsRead(k, t) ==
  /\ Alone(k, tokens[t].family)
  /\ calls[k].at = "mark" => Usable(t)
  /\ calls[k].at = "insert" =>
       \A u \in DOMAIN tokens :
         tokens[u].family = tokens[t].family => tokens[u].used /\ ~tokens[u].revoked

OneCall ==
  \A k \in Live :
    calls[k].token # 0 /\ tokens[calls[k].token].family \notin raced => AsRead(k, calls[k].token)

\* A family that is not raced has one usable token at most, and none once one of
\* its tokens is revoked.
OneUsable ==
  \A t, u \in DOMAIN tokens :
    tokens[t].family = tokens[u].family /\ tokens[t].family \notin raced /\ Usable(t) =>
      (Usable(u) => u = t) /\ ~tokens[u].revoked

\* A calm browser has one call under way at most, which presents its cookie, and
\* a token it can go on with.
Good(t) == t # 0 /\ Usable(t) /\ ~tokens[t].expired

Calm(b) ==
  /\ cookie[b] # 0 /\ tokens[cookie[b]].family \notin raced
  /\ \A k, x \in Live : calls[k].by = b /\ calls[x].by = b => k = x
  /\ ~(\E k \in Live : calls[k].by = b /\ calls[k].kind # "login") => Good(cookie[b])
  /\ \A k \in Live : calls[k].by = b =>
       /\ calls[k].token # 0 => calls[k].token = cookie[b]
       /\ calls[k].kind = "login" /\ calls[k].at = "granted" => ~tokens[calls[k].new].expired
       /\ calls[k].kind = "refresh" =>
            /\ calls[k].at \in {"find", "mark", "insert", "granted"}
            /\ calls[k].at \in {"find", "mark"} => Good(cookie[b])
            /\ calls[k].at = "insert" => ~tokens[cookie[b]].expired
            /\ calls[k].at = "granted" =>
                 /\ Good(calls[k].new)
                 /\ tokens[calls[k].new].family = tokens[cookie[b]].family

CalmSessions == \A b \in Browsers : signedIn[b] = "calm" => Calm(b)

AccountsInv ==
  SessionTypes /\ Owned /\ LoginsFresh /\ OneCall /\ OneUsable /\ CalmSessions

-----------------------------------------------------------------------------
(* The inductive invariant of the keys and of the walk *)

Document == [updated : Nat, title : Titles \cup {"old"}, open : BOOLEAN, mine : BOOLEAN]

Request ==
  {q \in [kind : {"post", "rename", "transfer", "delete"},
          at : {"find", "create", "save", "role", "write", "reply", "refused"},
          key : Keys \cup {"none"}, title : Titles \cup {"none"}, document : Nat,
          reached : Nat] :
     /\ q.kind = "post" => q.at \notin {"role", "write"} /\ q.key \in Keys
     /\ q.kind # "post" => q.at \notin {"find", "create", "save"} /\ q.document # 0
     /\ q.kind \in {"post", "rename"} => q.title \in Titles
     /\ q.at = "save" => q.document # 0}

Row == [key : Keys, title : Titles, document : Nat \ {0}, fresh : BOOLEAN]

LibraryTypes ==
  /\ documents \in Seq(Document)
  /\ keyRows \subseteq Row
  /\ \A row \in keyRows : row.document \in DOMAIN documents
  /\ \A p, q \in keyRows : p.key = q.key => p = q
  /\ requests \in [Requests -> {NoRequest} \cup Request]
  /\ \A r \in Requests : requests[r].document \in 0..Len(documents)
  /\ now \in Nat

RowsOf(key) == {row \in keyRows : row.key = key}

Asking(key) == {r \in Requests : requests[r].kind = "post" /\ requests[r].key = key}

\* What a key has made is in the row of the key, or in the hands of the one request
\* that is about to write that row.
Accounted(key) ==
  /\ \A r, s \in Asking(key) : r = s
  /\ \A row \in RowsOf(key) : row.fresh /\ [key |-> key, document |-> row.document] \in made
  /\ \A m \in made : m.key = key =>
       \/ \E row \in RowsOf(key) : row.document = m.document
       \/ \E r \in Asking(key) : requests[r].at = "save" /\ requests[r].document = m.document
  /\ \A r \in Asking(key) :
       /\ requests[r].at = "create" => \A m \in made : m.key # key
       /\ requests[r].at = "save" =>
            RowsOf(key) = {} /\ [key |-> key, document |-> requests[r].document] \in made
       /\ requests[r].at = "reply" =>
            \E row \in RowsOf(key) :
              row.title = requests[r].title /\ row.document = requests[r].document
  /\ \A p \in replies : p.key = key =>
       \E row \in RowsOf(key) : row.title = p.title /\ row.document = p.document

ResultTypes ==
  /\ made \subseteq [key : Keys, document : Nat]
  /\ replies \subseteq [key : Keys, title : Titles, document : Nat]

KeysAccounted == \A key \in Keys \ marred : Accounted(key)

Walk == [at : {"none", "page", "done"}, cursor : [ms : Nat, id : Nat], shown : Seq(Nat),
         since : Seq(Document), written : SUBSET Nat, setBack : SUBSET Nat]

WalkTypes ==
  /\ walk \in Walk
  /\ \A i \in DOMAIN walk.shown : walk.shown[i] \in DOMAIN documents
  /\ DOMAIN walk.since \subseteq DOMAIN documents

\* A document has the time it had when the walk began, or one written since.
TimesKnown ==
  walk.at # "none" =>
    \A d \in DOMAIN documents :
      \/ d \in DOMAIN walk.since /\ documents[d].updated = walk.since[d].updated
      \/ documents[d].updated \in walk.written

\* What the pages have shown is not below the cursor, unless it was set back; and a
\* document that stays as it was, alone in its millisecond, is shown or below it.
PagesKept ==
  /\ \A i, j \in DOMAIN walk.shown :
       i # j /\ walk.shown[i] = walk.shown[j] => walk.shown[i] \in walk.setBack
  /\ walk.at = "page" =>
       \A i \in DOMAIN walk.shown :
         walk.shown[i] \in walk.setBack \/ ~Below(walk.shown[i], walk.cursor)
  /\ walk.at \in {"page", "done"} =>
       \A d \in DOMAIN walk.since :
         walk.since[d].open /\ documents[d] = walk.since[d] /\ AloneInItsMillisecond(d) =>
           \/ \E i \in DOMAIN walk.shown : walk.shown[i] = d
           \/ walk.at = "page" /\ Below(d, walk.cursor)

WalkInv == WalkTypes /\ TimesKnown /\ PagesKept

LibraryInv == AccountsInv /\ LibraryTypes /\ KeysAccounted /\ ResultTypes /\ WalkInv

-----------------------------------------------------------------------------
(* The sessions *)

\* Of the token a row or a call names: it is a row of the table.
LEMMA TokenFacts ==
  ASSUME SessionTypes
  PROVE  /\ Len(tokens) \in Nat /\ DOMAIN tokens = 1..Len(tokens)
         /\ \A t \in DOMAIN tokens : tokens[t] \in Token
         /\ \A b \in Browsers : cookie[b] # 0 => cookie[b] \in DOMAIN tokens
         /\ \A k \in Live :
              /\ calls[k] \in Underway
              /\ calls[k].token # 0 => calls[k].token \in DOMAIN tokens
              /\ calls[k].new # 0 => calls[k].new \in DOMAIN tokens
         /\ Len(tokens) + 1 \notin DOMAIN tokens
<1>1. Len(tokens) \in Nat /\ DOMAIN tokens = 1..Len(tokens)
  BY DEF SessionTypes
<1>2. \A t \in DOMAIN tokens : tokens[t] \in Token
  BY <1>1 DEF SessionTypes
<1>3. \A b \in Browsers : cookie[b] # 0 => cookie[b] \in DOMAIN tokens
  BY <1>1 DEF SessionTypes
<1>4. ASSUME NEW k \in Live
      PROVE  /\ calls[k] \in Underway
             /\ calls[k].token # 0 => calls[k].token \in DOMAIN tokens
             /\ calls[k].new # 0 => calls[k].new \in DOMAIN tokens
  <2>1. k \in Calls /\ calls[k] \in Underway
    BY DEF Live, SessionTypes
  <2>2. calls[k].token \in 0..Len(tokens) /\ calls[k].new \in 0..Len(tokens)
    BY <2>1 DEF SessionTypes
  <2> QED
    BY <1>1, <2>1, <2>2
<1> QED
  BY <1>1, <1>2, <1>3, <1>4

\* Every browser starts with a family of its own, and its cookie is its token.
LEMMA BrowsersNumbered ==
  ASSUME NEW f \in [1..Cardinality(Browsers) -> Browsers],
         \A i, j \in DOMAIN f : i # j => f[i] # f[j],
         NEW b \in Browsers
  PROVE  \E i \in DOMAIN f : f[i] = b
<1> DEFINE n == Cardinality(Browsers)
<1>1. n \in Nat
  BY BrowsersAssumption, FS_CardinalityType
<1>2. Cardinality(1..n) = n
  BY <1>1, FS_Interval
<1>3. f \in Injection(1..n, Browsers)
  BY DEF Injection, IsInjective
<1>4. f \in Surjection(1..n, Browsers)
  BY <1>2, <1>3, BrowsersAssumption, FS_Injection
<1> QED
  BY <1>4 DEF Surjection

\* At first each browser holds the one token of a family of its own.
LEMMA AccountsInitInv == AccountsInit => AccountsInv
<1> SUFFICES ASSUME AccountsInit PROVE AccountsInv
  OBVIOUS
<1> DEFINE n == Cardinality(Browsers)
<1>1. n \in Nat
  BY BrowsersAssumption, FS_CardinalityType
<1>2. PICK f \in [1..n -> Browsers] :
        /\ \A i, j \in DOMAIN f : i # j => f[i] # f[j]
        /\ cookie = [b \in Browsers |-> CHOOSE i \in DOMAIN f : f[i] = b]
  BY DEF AccountsInit
<1>3. ASSUME NEW b \in Browsers
      PROVE  cookie[b] \in 1..n /\ f[cookie[b]] = b
  <2>1. \E i \in DOMAIN f : f[i] = b
    BY <1>2, BrowsersNumbered
  <2> QED
    BY <1>2, <2>1
<1>4. tokens = [i \in 1..n |->
                  [family |-> i, used |-> FALSE, revoked |-> FALSE, expired |-> FALSE]]
  BY DEF AccountsInit
<1>5. tokens \in Seq(Token) /\ Len(tokens) = n /\ DOMAIN tokens = 1..n
  <2>1. \A i \in 1..n : [family |-> i, used |-> FALSE, revoked |-> FALSE, expired |-> FALSE] \in Token
    BY <1>1 DEF Token
  <2>2. tokens \in [1..n -> Token]
    BY <1>4, <2>1
  <2> QED
    BY <1>1, <2>2
<1>6. Live = {}
  BY DEF AccountsInit, Live
<1>7. \A i \in 1..n : /\ tokens[i].family = i /\ ~tokens[i].used
                      /\ ~tokens[i].revoked /\ ~tokens[i].expired
  BY <1>4
<1>8. SessionTypes
  <2>1. families = n /\ raced = {}
    BY DEF AccountsInit
  <2>2. cookie \in [Browsers -> 0..Len(tokens)]
    BY <1>1, <1>2, <1>3, <1>5
  <2>3. calls \in [Calls -> {NoCall} \cup Underway]
    BY DEF AccountsInit
  <2>4. \A k \in Calls : {calls[k].token, calls[k].new} \subseteq 0..Len(tokens)
    BY <1>1, <1>5 DEF AccountsInit, NoCall
  <2> QED
    BY <1>1, <1>5, <1>7, <2>1, <2>2, <2>3, <2>4 DEF SessionTypes, AccountsInit
<1>9. Owned
  BY <1>3, <1>5, <1>6, <1>7 DEF Owned, HeldBy
<1>10. LoginsFresh /\ OneCall
  BY <1>6 DEF LoginsFresh, OneCall
<1>11. OneUsable
  BY <1>5, <1>7 DEF OneUsable, Usable
<1>12. CalmSessions
  BY <1>1, <1>3, <1>6, <1>7 DEF CalmSessions, Calm, Good, Usable, AccountsInit
<1> QED
  BY <1>8, <1>9, <1>10, <1>11, <1>12 DEF AccountsInv

\* A call that starts presents the cookie of its browser, or nothing.  A family
\* that another call works on is raced from then on, and a browser that has
\* another call under way is no longer calm.
LEMMA CallStarts ==
  ASSUME AccountsInv, NEW k \in Calls, NEW b \in Browsers, NEW kind, NEW at, NEW t,
         Begin(k, b, kind, at, t), UNCHANGED <<tokens, families, cookie, access>>,
         \/ kind = "login" /\ at = "family" /\ t = 0
         \/ kind \in {"refresh", "logout"} /\ at = "find" /\ t = cookie[b] /\ t # 0
         \/ kind = "logout" /\ at = "gone" /\ t = 0
  PROVE  AccountsInv'
<1>1. SessionTypes /\ Owned /\ LoginsFresh /\ OneCall /\ OneUsable /\ CalmSessions
  BY DEF AccountsInv
<1> DEFINE new == [kind |-> kind, by |-> b, at |-> at, token |-> t, new |-> 0]
<1>2. new \in Underway
  <2>1. t \in Nat
    BY <1>1 DEF SessionTypes
  <2>2. new \in [kind : {"login", "refresh", "logout"}, by : Browsers,
                 at : {"family", "find", "revoke", "mark", "insert", "granted", "dead", "gone"},
                 token : Nat, new : Nat]
    BY <2>1
  <2> QED
    BY <2>2 DEF Underway
<1>3. /\ new.kind = kind /\ new.by = b /\ new.at = at /\ new.token = t /\ new.new = 0
      /\ new # NoCall
  BY DEF NoCall
<1>4. /\ calls[k] = NoCall /\ calls \in [Calls -> {NoCall} \cup Underway]
      /\ calls' = [calls EXCEPT ![k] = new]
  BY <1>1 DEF Begin, SessionTypes
<1> HIDE DEF new
<1>5. /\ k \notin Live /\ Live' = Live \cup {k} /\ calls'[k] = new
      /\ \A x \in Calls : x # k => calls'[x] = calls[x]
      /\ \A x \in Live' : x = k \/ (x \in Live /\ calls'[x] = calls[x])
  <2>1. calls'[k] = new /\ \A x \in Calls : x # k => calls'[x] = calls[x]
    BY <1>4
  <2>2. k \notin Live /\ Live' = Live \cup {k}
    BY <1>3, <1>4, <2>1 DEF Live
  <2>3. Live \subseteq Calls
    BY DEF Live
  <2> QED
    BY <2>1, <2>2, <2>3
<1>6. t # 0 => t \in HeldBy(b) /\ t = cookie[b]
  BY <1>1, TokenFacts DEF HeldBy
<1>7. \A c \in Browsers : HeldBy(c)' = HeldBy(c)
  <2>1. Live \subseteq Calls
    BY DEF Live
  <2> QED
    BY <1>3, <1>5, <1>6, <2>1, TokenFacts, <1>1 DEF HeldBy
<1>8. \A x \in Live : calls[x].token # 0 =>
        tokens[calls[x].token].family \in FamiliesInUse
  BY DEF FamiliesInUse, Live
<1>9. /\ raced \subseteq raced'
      /\ \A f \in raced' \ raced : f \in FamiliesInUse /\ t # 0 /\ f = tokens[t].family
  BY DEF Begin
<1>10. SessionTypes'
  <2>1. raced' \subseteq 1..families
    <3>1. raced \subseteq 1..families /\ families \in Nat
      BY <1>1 DEF SessionTypes
    <3>2. ASSUME t # 0
          PROVE  tokens[t].family \in 1..families
      <4>1. t \in DOMAIN tokens
        BY <1>1, <1>6, <3>2, TokenFacts
      <4>2. tokens[t] \in Token /\ tokens[t].family <= families
        BY <1>1, <4>1, TokenFacts DEF SessionTypes
      <4> QED
        BY <3>1, <4>2 DEF Token
    <3> QED
      BY <1>9, <3>1, <3>2
  <2>2. \A x \in Calls : {calls'[x].token, calls'[x].new} \subseteq 0..Len(tokens)
    BY <1>1, <1>3, <1>5, <1>6, TokenFacts DEF SessionTypes
  <2>3. calls' \in [Calls -> {NoCall} \cup Underway]
    BY <1>2, <1>4
  <2>4. signedIn' \in [Browsers -> {"no", "calm", "troubled"}]
    BY <1>1 DEF SessionTypes, Begin, Troubled
  <2> QED
    BY <1>1, <2>1, <2>2, <2>3, <2>4 DEF SessionTypes
<1>11. Owned'
  BY <1>1, <1>7 DEF Owned
<1>12. LoginsFresh'
  <2> SUFFICES ASSUME NEW x \in Live', calls'[x].kind = "login", calls'[x].at = "granted"
               PROVE  Fresh(x, calls[x].new)'
    BY DEF LoginsFresh
  <2>1. x \in Live /\ x # k /\ calls'[x] = calls[x]
    BY <1>3, <1>5 DEF Live
  <2>2. calls[x].new # 0 /\ calls[x].new \in DOMAIN tokens
    BY <1>1, <2>1, TokenFacts DEF Underway
  <2>3. t # 0 => t \in DOMAIN tokens
    BY <1>6 DEF HeldBy
  <2>4. Fresh(x, calls[x].new)
    BY <1>1, <2>1 DEF LoginsFresh
  <2>5. \A y \in Live' : y = k \/ (y \in Live /\ calls'[y] = calls[y])
    BY <1>5
  <2>6. tokens[calls[x].new].family \notin raced'
    BY <1>6, <1>9, <2>3, <2>4 DEF Fresh
  <2>7. \A y \in Live' : calls'[y].token # calls[x].new /\ (y # x => calls'[y].new # calls[x].new)
    BY <1>3, <1>5, <1>6, <2>2, <2>4, <2>5 DEF Fresh
  <2> QED
    BY <2>1, <2>4, <2>6, <2>7 DEF Fresh, Usable
<1>13. OneCall'
  <2> SUFFICES ASSUME NEW x \in Live', calls'[x].token # 0,
                      tokens[calls'[x].token].family \notin raced'
               PROVE  AsRead(x, calls[x].token)'
    BY DEF OneCall
  <2>1. \A y \in Live' : y = k \/ (y \in Live /\ calls'[y] = calls[y])
    BY <1>5
  <2>2. \A y \in Live : t # 0 /\ calls[y].token # 0 /\ tokens[calls[y].token].family = tokens[t].family
          => tokens[t].family \in raced'
    BY <1>8 DEF Begin
  <2>3. CASE x = k
    <3>1. Alone(x, tokens[calls[x].token].family)'
      BY <1>3, <1>5, <2>1, <2>2, <2>3 DEF Alone
    <3> QED
      BY <1>3, <1>5, <2>3, <3>1 DEF AsRead
  <2>4. CASE x # k
    <3>1. x \in Live /\ calls'[x] = calls[x] /\ AsRead(x, calls[x].token)
      BY <1>1, <1>9, <2>1, <2>4 DEF OneCall
    <3>2. Alone(x, tokens[calls[x].token].family)'
      BY <1>3, <1>5, <2>1, <2>2, <3>1 DEF Alone, AsRead
    <3> QED
      BY <3>1, <3>2 DEF AsRead, Usable
  <2> QED
    BY <2>3, <2>4
<1>14. OneUsable'
  BY <1>1, <1>9 DEF OneUsable, Usable
<1>15. CalmSessions'
  <2> SUFFICES ASSUME NEW c \in Browsers, signedIn'[c] = "calm" PROVE Calm(c)'
    BY DEF CalmSessions
  <2>1. signedIn[c] = "calm" /\ (c = b => CallsOf(b) = {})
    BY <1>1 DEF Begin, Troubled, SessionTypes
  <2>2. Calm(c)
    BY <1>1, <2>1 DEF CalmSessions
  <2>3. \A x \in Live : calls'[x] = calls[x] /\ (c = b => calls[x].by # b)
    BY <1>5, <2>1 DEF Live, CallsOf
  <2>4. tokens[cookie[c]].family \notin raced'
    <3>1. cookie[c] \in HeldBy(c)
      BY <1>1, <2>2, TokenFacts DEF HeldBy, Calm
    <3>2. CASE c # b
      BY <1>1, <1>6, <1>9, <2>2, <3>1, <3>2 DEF Owned, Calm
    <3>3. CASE c = b
      <4>1. ASSUME NEW x \in Live, calls[x].token # 0
            PROVE  tokens[calls[x].token].family # tokens[cookie[c]].family
        <5>1. calls[x].by \in Browsers /\ calls[x].by # c
          BY <1>1, <2>3, <3>3, TokenFacts DEF Underway
        <5>2. calls[x].token \in HeldBy(calls[x].by)
          BY <1>1, <4>1, TokenFacts DEF HeldBy
        <5> QED
          BY <1>1, <3>1, <5>1, <5>2 DEF Owned
      <4>2. tokens[cookie[c]].family \notin FamiliesInUse
        BY <4>1 DEF FamiliesInUse, Live, NoCall
      <4> QED
        BY <1>9, <2>2, <4>2 DEF Calm
    <3> QED
      BY <3>2, <3>3
  <2> QED
    BY <1>3, <1>5, <1>6, <2>2, <2>3, <2>4 DEF Calm, Good, Usable
<1> QED
  BY <1>10, <1>11, <1>12, <1>13, <1>14, <1>15 DEF AccountsInv

-----------------------------------------------------------------------------
(* What a query leaves alone *)

\* A call goes to its next query, or to its answer with the token it is given.
LEMMA CallMoves ==
  ASSUME SessionTypes, NEW k \in Calls, NEW c \in Underway, calls[k] \in Underway,
         calls' = [calls EXCEPT ![k] = c]
  PROVE  /\ k \in Live /\ Live' = Live
         /\ calls'[k] = c
         /\ \A x \in Live : x # k => calls'[x] = calls[x]
         /\ calls' \in [Calls -> {NoCall} \cup Underway]
<1>1. NoCall \notin Underway
  BY DEF NoCall, Underway
<1>2. calls \in [Calls -> {NoCall} \cup Underway]
  BY DEF SessionTypes
<1> QED
  BY <1>1, <1>2 DEF Live

\* A call that ends leaves the others under way.
LEMMA CallEnds ==
  ASSUME SessionTypes, NEW k \in Live, End(k)
  PROVE  /\ k \in Calls /\ Live' = Live \ {k}
         /\ calls' \in [Calls -> {NoCall} \cup Underway]
         /\ \A x \in Live' : calls'[x] = calls[x]
         /\ \A x \in Calls : calls'[x] = NoCall \/ calls'[x] = calls[x]
<1>1. k \in Calls /\ calls' = [calls EXCEPT ![k] = NoCall]
      /\ calls \in [Calls -> {NoCall} \cup Underway]
  BY DEF SessionTypes, End, Live
<1> QED
  BY <1>1 DEF Live

\* Where a call is tells that there is one.
LEMMA CallIsLive ==
  ASSUME SessionTypes, NEW k \in Calls, calls[k].at # "none"
  PROVE  k \in Live /\ calls[k] \in Underway /\ calls[k].by \in Browsers
BY DEF SessionTypes, NoCall, Live, Underway

\* The tokens a call presents or is given are held by its browser.
LEMMA CallHolds ==
  ASSUME SessionTypes, NEW k \in Live
  PROVE  /\ calls[k].by \in Browsers
         /\ calls[k].token # 0 => calls[k].token \in HeldBy(calls[k].by)
         /\ calls[k].new # 0 => calls[k].new \in HeldBy(calls[k].by)
<1>1. calls[k] \in Underway
  BY TokenFacts
<1> QED
  BY <1>1, TokenFacts DEF HeldBy, Underway

\* A browser none of whose calls, and none of whose tokens, a step touches is as
\* calm as it was.
LEMMA CalmKept ==
  ASSUME AccountsInv, NEW c \in Browsers, Calm(c), cookie'[c] = cookie[c],
         \A x \in Live' : calls'[x].by = c => x \in Live /\ calls'[x] = calls[x],
         \A x \in Live : calls[x].by = c => x \in Live' /\ calls'[x] = calls[x],
         \A u \in HeldBy(c) : tokens'[u] = tokens[u],
         tokens[cookie[c]].family \notin raced'
  PROVE  Calm(c)'
<1>1. SessionTypes
  BY DEF AccountsInv
<1>2. cookie[c] \in HeldBy(c)
  BY <1>1, TokenFacts DEF Calm, HeldBy
<1>3. \A x \in Live : calls[x].by = c /\ calls[x].new # 0 => calls[x].new \in HeldBy(c)
  BY <1>1, CallHolds
<1>4. \A x \in Live : calls[x].by = c => calls[x] \in Underway
  BY <1>1, TokenFacts
<1>5. \A x \in Live : calls[x].by = c /\ calls[x].at = "granted" => calls[x].new # 0
  BY <1>4 DEF Underway
<1> QED
  BY <1>2, <1>3, <1>5 DEF Calm, Good, Usable

\* The login's token stays fresh while no other call is given it and no query
\* touches its family.
LEMMA FreshKept ==
  ASSUME AccountsInv, NEW x \in Live, NEW n, Fresh(x, n), n \in DOMAIN tokens,
         tokens'[n] = [tokens[n] EXCEPT !.expired = tokens'[n].expired],
         raced' = raced,
         \A t \in DOMAIN tokens' \ DOMAIN tokens : tokens'[t].family # tokens[n].family,
         \A t \in DOMAIN tokens : tokens'[t].family = tokens[t].family,
         \A b \in Browsers : cookie'[b] # n,
         \A y \in Live' : /\ y \in Live /\ calls'[y].token = calls[y].token
                          /\ calls'[y].new = calls[y].new \/ (y # x => calls'[y].new # n)
  PROVE  Fresh(x, n)'
<1>1. tokens[n] \in Token
  BY TokenFacts DEF AccountsInv
<1>2. tokens'[n].used = tokens[n].used /\ tokens'[n].revoked = tokens[n].revoked
      /\ tokens'[n].family = tokens[n].family
  BY <1>1 DEF Token
<1> QED
  BY <1>2 DEF Fresh, Usable

\* What a call has read of its family still holds while the tokens of the family
\* are as they were.
LEMMA AsReadKept ==
  ASSUME AccountsInv, NEW x \in Live, NEW t \in DOMAIN tokens, AsRead(x, t),
         calls'[x].at = calls[x].at,
         \A u \in DOMAIN tokens : tokens[u].family = tokens[t].family =>
           tokens'[u].used = tokens[u].used /\ tokens'[u].revoked = tokens[u].revoked,
         \A u \in DOMAIN tokens : tokens'[u].family = tokens[u].family,
         \A u \in DOMAIN tokens' \ DOMAIN tokens : tokens'[u].family # tokens[t].family,
         \A y \in Live' : /\ y \in Live
                          /\ calls'[y].token = calls[y].token
  PROVE  AsRead(x, t)'
<1>1. \A y \in Live : calls[y].token # 0 => calls[y].token \in DOMAIN tokens
  BY TokenFacts DEF AccountsInv
<1> QED
  BY <1>1 DEF AsRead, Alone, Usable

-----------------------------------------------------------------------------
(* The queries *)

\* findRefreshTokenByHash(): a refresh goes on with a token it finds usable.
LEMMA FindKeeps ==
  ASSUME AccountsInv, NEW k \in Calls, FindRefreshToken(k)
  PROVE  AccountsInv'
<1>1. SessionTypes /\ Owned /\ LoginsFresh /\ OneCall /\ OneUsable /\ CalmSessions
  BY DEF AccountsInv
<1>2. calls[k].at = "find" /\ UNCHANGED <<tokens, families, cookie, access, signedIn, raced, signLeft>>
  BY DEF FindRefreshToken
<1>3. k \in Live /\ calls[k] \in Underway /\ calls[k].kind # "login" /\ calls[k].token # 0
  BY <1>1, <1>2, CallIsLive DEF Underway
<1>4. PICK at \in {"revoke", "dead", "mark"} :
        /\ Proceed(k, at)
        /\ calls[k].kind = "logout" => at = "revoke"
        /\ at = "mark" => Usable(calls[k].token)
        /\ calls[k].kind = "refresh" /\ Good(calls[k].token) => at = "mark"
  BY DEF FindRefreshToken, Usable, Good
<1> DEFINE c == [calls[k] EXCEPT !.at = at]
<1>5. /\ c \in Underway /\ c.at = at /\ c.kind = calls[k].kind /\ c.by = calls[k].by
      /\ c.token = calls[k].token /\ c.new = calls[k].new /\ c.new = 0
  BY <1>2, <1>3, <1>4 DEF Underway
<1>6. calls' = [calls EXCEPT ![k] = c]
  BY <1>4 DEF Proceed
<1> HIDE DEF c
<1>7. /\ Live' = Live /\ calls'[k] = c
      /\ \A x \in Live : x # k => calls'[x] = calls[x]
      /\ calls' \in [Calls -> {NoCall} \cup Underway]
  BY <1>1, <1>3, <1>5, <1>6, CallMoves
<1>8. \A x \in Live : /\ calls'[x].token = calls[x].token /\ calls'[x].new = calls[x].new
                      /\ calls'[x].by = calls[x].by /\ calls'[x].kind = calls[x].kind
  BY <1>5, <1>7
<1>9. SessionTypes'
  <2>1. \A x \in Calls : {calls'[x].token, calls'[x].new} \subseteq 0..Len(tokens)
    BY <1>1, <1>5, <1>6 DEF SessionTypes
  <2> QED
    BY <1>1, <1>2, <1>7, <2>1 DEF SessionTypes
<1>10. Owned'
  <2>1. \A b \in Browsers : HeldBy(b)' = HeldBy(b)
    BY <1>2, <1>7, <1>8 DEF HeldBy
  <2> QED
    BY <1>1, <1>2, <2>1 DEF Owned
<1>11. LoginsFresh'
  <2> SUFFICES ASSUME NEW x \in Live', calls'[x].kind = "login", calls'[x].at = "granted"
               PROVE  Fresh(x, calls[x].new)'
    BY DEF LoginsFresh
  <2>1. x \in Live /\ calls'[x] = calls[x]
    BY <1>3, <1>5, <1>7
  <2>2. Fresh(x, calls[x].new)
    BY <1>1, <2>1 DEF LoginsFresh
  <2> QED
    BY <1>2, <1>7, <1>8, <2>1, <2>2 DEF Fresh, Usable
<1>12. OneCall'
  <2> SUFFICES ASSUME NEW x \in Live', calls'[x].token # 0,
                      tokens'[calls'[x].token].family \notin raced'
               PROVE  AsRead(x, calls[x].token)'
    BY DEF OneCall
  <2>1. x \in Live /\ AsRead(x, calls[x].token)
    BY <1>1, <1>2, <1>7, <1>8 DEF OneCall
  <2>2. Alone(x, tokens[calls[x].token].family)'
    BY <1>2, <1>7, <1>8, <2>1 DEF AsRead, Alone
  <2> QED
    BY <1>2, <1>4, <1>5, <1>7, <2>1, <2>2 DEF AsRead, Usable
<1>13. OneUsable'
  BY <1>1, <1>2 DEF OneUsable, Usable
<1>14. CalmSessions'
  <2> SUFFICES ASSUME NEW b \in Browsers, signedIn[b] = "calm" PROVE Calm(b)'
    BY <1>2 DEF CalmSessions
  <2>1. Calm(b)
    BY <1>1 DEF CalmSessions
  <2>2. CASE calls[k].by # b
    BY <1>2, <1>7, <1>8, <2>1, <2>2, CalmKept DEF Calm
  <2>3. CASE calls[k].by = b
    <3>1. \A x \in Live : calls'[x].by = b => x = k
      BY <1>3, <1>8, <2>1, <2>3 DEF Calm
    <3>2. c.token = cookie[b]
      BY <1>3, <1>5, <2>1, <2>3 DEF Calm
    <3>3. c.kind = "refresh" => at = "mark" /\ Good(cookie[b])
      BY <1>2, <1>3, <1>4, <1>5, <2>1, <2>3, <3>2 DEF Calm
    <3>4. Good(cookie[b])' <=> Good(cookie[b])
      BY <1>2 DEF Good, Usable
    <3> QED
      BY <1>2, <1>3, <1>4, <1>5, <1>7, <1>8, <2>1, <2>3, <3>1, <3>2, <3>3, <3>4 DEF Calm
  <2> QED
    BY <2>2, <2>3
<1> QED
  BY <1>9, <1>10, <1>11, <1>12, <1>13, <1>14 DEF AccountsInv

\* A query that writes to the family of the token its call presented, and to no
\* other, leaves the browsers that do not call, and the logins, as they were.
LEMMA FamilyWritten ==
  ASSUME AccountsInv, NEW k \in Live, calls[k].token # 0,
         UNCHANGED <<cookie, signedIn, raced>>, Live' = Live,
         \A x \in Live : x # k => calls'[x] = calls[x],
         calls'[k].token = calls[k].token, calls'[k].by = calls[k].by,
         calls'[k].kind = calls[k].kind, calls[k].kind # "login",
         calls'[k].new = calls[k].new \/ calls'[k].new \notin DOMAIN tokens,
         \A u \in DOMAIN tokens : tokens'[u].family = tokens[u].family,
         \A u \in DOMAIN tokens :
           tokens[u].family # tokens[calls[k].token].family => tokens'[u] = tokens[u],
         \A u \in DOMAIN tokens' \ DOMAIN tokens :
           tokens'[u].family = tokens[calls[k].token].family
  PROVE  /\ LoginsFresh'
         /\ \A b \in Browsers : b # calls[k].by /\ signedIn[b] = "calm" => Calm(b)'
         /\ \A x \in Live : /\ x # k /\ calls[x].token # 0
                            /\ tokens[calls[x].token].family \notin raced
                            => AsRead(x, calls[x].token)'
<1>1. SessionTypes /\ Owned /\ LoginsFresh /\ OneCall /\ OneUsable /\ CalmSessions
  BY DEF AccountsInv
<1>2. calls[k].token \in DOMAIN tokens /\ calls[k].token \in HeldBy(calls[k].by)
      /\ calls[k].by \in Browsers
  BY <1>1, TokenFacts, CallHolds
<1>3. \A x \in Live : calls'[x].token = calls[x].token
  OBVIOUS
<1>4. LoginsFresh'
  <2> SUFFICES ASSUME NEW x \in Live', calls'[x].kind = "login", calls'[x].at = "granted"
               PROVE  Fresh(x, calls[x].new)'
    BY DEF LoginsFresh
  <2>1. x \in Live /\ x # k /\ calls'[x] = calls[x]
    OBVIOUS
  <2>2. Fresh(x, calls[x].new)
    BY <1>1, <2>1 DEF LoginsFresh
  <2>3. PICK n : n = calls[x].new
    OBVIOUS
  <2>4. n \in DOMAIN tokens
    BY <1>1, <2>1, <2>3, TokenFacts DEF Underway
  <2>5. tokens[n].family # tokens[calls[k].token].family
    BY <1>2, <2>2, <2>3, <2>4 DEF Fresh
  <2>6. tokens'[n] = tokens[n]
    BY <2>4, <2>5
  <2>7. tokens'[n] = [tokens[n] EXCEPT !.expired = tokens'[n].expired]
    BY <1>1, <2>4, <2>6, TokenFacts DEF Token
  <2>8. Fresh(x, n)'
    BY <1>3, <2>1, <2>2, <2>3, <2>4, <2>5, <2>7, FreshKept DEF Fresh
  <2> QED
    BY <2>1, <2>3, <2>8
<1>5. ASSUME NEW b \in Browsers, b # calls[k].by, signedIn[b] = "calm"
      PROVE  Calm(b)'
  <2>1. Calm(b)
    BY <1>1, <1>5 DEF CalmSessions
  <2>2. \A u \in HeldBy(b) : tokens'[u] = tokens[u]
    BY <1>1, <1>2, <1>5 DEF Owned, HeldBy
  <2> QED
    BY <1>5, <2>1, <2>2, CalmKept DEF Calm
<1>6. ASSUME NEW x \in Live, x # k, calls[x].token # 0,
             tokens[calls[x].token].family \notin raced
      PROVE  AsRead(x, calls[x].token)'
  <2>1. PICK t : t = calls[x].token /\ t \in DOMAIN tokens
    BY <1>1, <1>6, TokenFacts
  <2>2. AsRead(x, t)
    BY <1>1, <1>6, <2>1 DEF OneCall
  <2>3. tokens[t].family # tokens[calls[k].token].family
    BY <1>6, <2>1, <2>2 DEF AsRead, Alone
  <2>4. AsRead(x, t)'
    BY <1>3, <1>6, <2>1, <2>2, <2>3, AsReadKept
  <2> QED
    BY <1>6, <2>1, <2>4
<1> QED
  BY <1>4, <1>5, <1>6

\* revokeFamily(): none of the family's tokens is usable from then on.
LEMMA RevokeKeeps ==
  ASSUME AccountsInv, NEW k \in Calls, RevokeFamily(k)
  PROVE  AccountsInv'
<1>1. SessionTypes /\ Owned /\ LoginsFresh /\ OneCall /\ OneUsable /\ CalmSessions
  BY DEF AccountsInv
<1>2. /\ calls[k].at = "revoke" /\ UNCHANGED <<families, cookie, access, signedIn, raced>>
      /\ tokens' = Revoked(calls[k].token)
  BY DEF RevokeFamily
<1>3. /\ k \in Live /\ calls[k] \in Underway /\ calls[k].kind \in {"logout", "refresh"}
      /\ calls[k].token # 0 /\ calls[k].token \in DOMAIN tokens /\ calls[k].new = 0
  <2>1. k \in Live /\ calls[k] \in Underway
    BY <1>1, <1>2, CallIsLive
  <2> QED
    BY <1>1, <1>2, <2>1, TokenFacts DEF Underway
<1>4. PICK at : /\ at = (IF calls[k].kind = "logout" THEN "gone" ELSE "dead")
                /\ Proceed(k, at)
  BY DEF RevokeFamily
<1> DEFINE c == [calls[k] EXCEPT !.at = at]
<1>5. /\ c \in Underway /\ c.at = at /\ c.kind = calls[k].kind /\ c.by = calls[k].by
      /\ c.token = calls[k].token /\ c.new = 0
  BY <1>2, <1>3, <1>4 DEF Underway
<1>6. calls' = [calls EXCEPT ![k] = c]
  BY <1>4 DEF Proceed
<1> HIDE DEF c
<1>7. /\ Live' = Live /\ calls'[k] = c
      /\ \A x \in Live : x # k => calls'[x] = calls[x]
      /\ calls' \in [Calls -> {NoCall} \cup Underway]
  BY <1>1, <1>3, <1>5, <1>6, CallMoves
<1>8. \A x \in Live : /\ calls'[x].token = calls[x].token /\ calls'[x].new = calls[x].new
                      /\ calls'[x].by = calls[x].by /\ calls'[x].kind = calls[x].kind
  BY <1>3, <1>5, <1>7
<1>9. /\ DOMAIN tokens' = DOMAIN tokens /\ Len(tokens') = Len(tokens)
      /\ tokens' \in Seq(Token)
      /\ \A u \in DOMAIN tokens :
           /\ tokens'[u].family = tokens[u].family /\ tokens'[u].used = tokens[u].used
           /\ tokens[u].family = tokens[calls[k].token].family => tokens'[u].revoked
           /\ tokens[u].family # tokens[calls[k].token].family => tokens'[u] = tokens[u]
  <2>1. DOMAIN tokens = 1..Len(tokens) /\ Len(tokens) \in Nat
        /\ \A u \in DOMAIN tokens : tokens[u] \in Token
    BY <1>1, TokenFacts
  <2>2. \A u \in DOMAIN tokens : [tokens[u] EXCEPT !.revoked = TRUE] \in Token
    BY <2>1 DEF Token
  <2>3. tokens' \in [1..Len(tokens) -> Token]
    BY <1>2, <2>1, <2>2 DEF Revoked
  <2>4. DOMAIN tokens' = DOMAIN tokens /\ Len(tokens') = Len(tokens) /\ tokens' \in Seq(Token)
    BY <2>1, <2>3
  <2> QED
    BY <1>2, <2>1, <2>4 DEF Revoked, Token
<1>10. SessionTypes'
  <2>1. \A x \in Calls : {calls'[x].token, calls'[x].new} \subseteq 0..Len(tokens')
    BY <1>1, <1>5, <1>6, <1>9 DEF SessionTypes
  <2> QED
    BY <1>1, <1>2, <1>7, <1>9, <2>1 DEF SessionTypes
<1>11. Owned'
  <2>1. \A b \in Browsers : HeldBy(b)' = HeldBy(b)
    BY <1>2, <1>7, <1>8, <1>9 DEF HeldBy
  <2> QED
    BY <1>1, <1>9, <2>1 DEF Owned, HeldBy
<1>12. /\ LoginsFresh'
       /\ \A b \in Browsers : b # calls[k].by /\ signedIn[b] = "calm" => Calm(b)'
       /\ \A x \in Live : /\ x # k /\ calls[x].token # 0
                          /\ tokens[calls[x].token].family \notin raced
                          => AsRead(x, calls[x].token)'
  BY <1>2, <1>3, <1>7, <1>8, <1>9, FamilyWritten
<1>13. OneCall'
  <2> SUFFICES ASSUME NEW x \in Live', calls'[x].token # 0,
                      tokens'[calls'[x].token].family \notin raced'
               PROVE  AsRead(x, calls[x].token)'
    BY DEF OneCall
  <2>1. x \in Live /\ tokens[calls[x].token].family \notin raced /\ calls[x].token # 0
    BY <1>1, <1>2, <1>7, <1>8, <1>9, TokenFacts
  <2>2. CASE x = k
    <3>1. Alone(k, tokens[calls[k].token].family)
      BY <1>1, <2>1, <2>2 DEF OneCall, AsRead
    <3>2. Alone(k, tokens[calls[k].token].family)'
      BY <1>1, <1>3, <1>7, <1>8, <1>9, <3>1, TokenFacts DEF Alone
    <3> QED
      BY <1>4, <1>5, <1>7, <2>2, <3>2 DEF AsRead
  <2> QED
    BY <1>12, <2>1, <2>2
<1>14. OneUsable'
  BY <1>1, <1>2, <1>3, <1>9 DEF OneUsable, Usable
<1>15. CalmSessions'
  <2> SUFFICES ASSUME NEW b \in Browsers, signedIn[b] = "calm" PROVE Calm(b)'
    BY <1>2 DEF CalmSessions
  <2>1. Calm(b)
    BY <1>1 DEF CalmSessions
  <2>2. CASE calls[k].by = b
    <3>1. \A x \in Live : calls'[x].by = b => x = k
      BY <1>3, <1>8, <2>1, <2>2 DEF Calm
    <3>2. calls[k].kind = "logout" /\ c.token = cookie[b]
      BY <1>2, <1>3, <1>5, <2>1, <2>2 DEF Calm
    <3>3. tokens'[cookie[b]].family \notin raced'
      BY <1>1, <1>2, <1>9, <2>1, TokenFacts DEF Calm
    <3> QED
      BY <1>2, <1>3, <1>5, <1>7, <1>8, <2>1, <2>2, <3>1, <3>2, <3>3 DEF Calm
  <2> QED
    BY <1>12, <2>2
<1> QED
  BY <1>10, <1>11, <1>12, <1>13, <1>14, <1>15 DEF AccountsInv

\* A row appended to a table is the next one, and the others stay.
LEMMA AppendIsNext ==
  ASSUME NEW S, NEW s \in Seq(S), NEW e \in S
  PROVE  /\ Append(s, e) \in Seq(S)
         /\ Len(Append(s, e)) = Len(s) + 1
         /\ DOMAIN Append(s, e) = DOMAIN s \cup {Len(s) + 1}
         /\ \A i \in DOMAIN s : Append(s, e)[i] = s[i]
         /\ Append(s, e)[Len(s) + 1] = e
<1>1. Len(s) \in Nat /\ DOMAIN s = 1..Len(s)
  OBVIOUS
<1>2. Append(s, e) \in Seq(S) /\ Len(Append(s, e)) = Len(s) + 1
  OBVIOUS
<1>3. DOMAIN Append(s, e) = 1..Len(s) + 1
  BY <1>2
<1> QED
  BY <1>1, <1>2, <1>3

\* markRefreshTokenUsed(): the family has no usable token until its next one is there.
LEMMA MarkKeeps ==
  ASSUME AccountsInv, NEW k \in Calls, MarkRefreshTokenUsed(k)
  PROVE  AccountsInv'
<1>1. SessionTypes /\ Owned /\ LoginsFresh /\ OneCall /\ OneUsable /\ CalmSessions
  BY DEF AccountsInv
<1>2. /\ calls[k].at = "mark" /\ UNCHANGED <<families, cookie, access, signedIn, raced>>
      /\ tokens' = [tokens EXCEPT ![calls[k].token].used = TRUE]
      /\ Proceed(k, "insert")
  BY DEF MarkRefreshTokenUsed
<1>3. /\ k \in Live /\ calls[k] \in Underway /\ calls[k].kind = "refresh"
      /\ calls[k].token # 0 /\ calls[k].token \in DOMAIN tokens /\ calls[k].new = 0
  <2>1. k \in Live /\ calls[k] \in Underway
    BY <1>1, <1>2, CallIsLive
  <2> QED
    BY <1>1, <1>2, <2>1, TokenFacts DEF Underway
<1> DEFINE c == [calls[k] EXCEPT !.at = "insert"]
<1>4. /\ c \in Underway /\ c.at = "insert" /\ c.kind = calls[k].kind /\ c.by = calls[k].by
      /\ c.token = calls[k].token /\ c.new = 0
  BY <1>2, <1>3 DEF Underway
<1>5. calls' = [calls EXCEPT ![k] = c]
  BY <1>2 DEF Proceed
<1> HIDE DEF c
<1>6. /\ Live' = Live /\ calls'[k] = c
      /\ \A x \in Live : x # k => calls'[x] = calls[x]
      /\ calls' \in [Calls -> {NoCall} \cup Underway]
  BY <1>1, <1>3, <1>4, <1>5, CallMoves
<1>7. \A x \in Live : /\ calls'[x].token = calls[x].token /\ calls'[x].new = calls[x].new
                      /\ calls'[x].by = calls[x].by /\ calls'[x].kind = calls[x].kind
  BY <1>3, <1>4, <1>6
<1>8. /\ DOMAIN tokens' = DOMAIN tokens /\ Len(tokens') = Len(tokens)
      /\ tokens' \in Seq(Token)
      /\ \A u \in DOMAIN tokens :
           /\ tokens'[u].family = tokens[u].family /\ tokens'[u].revoked = tokens[u].revoked
           /\ tokens'[u].expired = tokens[u].expired
           /\ u = calls[k].token => tokens'[u].used
           /\ u # calls[k].token => tokens'[u] = tokens[u]
  <2>1. DOMAIN tokens = 1..Len(tokens) /\ Len(tokens) \in Nat
        /\ \A u \in DOMAIN tokens : tokens[u] \in Token
    BY <1>1, TokenFacts
  <2>2. \A u \in DOMAIN tokens : [tokens[u] EXCEPT !.used = TRUE] \in Token
    BY <2>1 DEF Token
  <2>3. tokens' \in [1..Len(tokens) -> Token]
    BY <1>2, <1>3, <2>1, <2>2
  <2>4. DOMAIN tokens' = DOMAIN tokens /\ Len(tokens') = Len(tokens) /\ tokens' \in Seq(Token)
    BY <2>1, <2>3
  <2> QED
    BY <1>2, <1>3, <2>1, <2>4 DEF Token
<1>9. SessionTypes'
  <2>1. \A x \in Calls : {calls'[x].token, calls'[x].new} \subseteq 0..Len(tokens')
    BY <1>1, <1>4, <1>5, <1>8 DEF SessionTypes
  <2> QED
    BY <1>1, <1>2, <1>6, <1>8, <2>1 DEF SessionTypes
<1>10. Owned'
  <2>1. \A b \in Browsers : HeldBy(b)' = HeldBy(b)
    BY <1>2, <1>6, <1>7, <1>8 DEF HeldBy
  <2> QED
    BY <1>1, <1>8, <2>1 DEF Owned, HeldBy
<1>11. /\ LoginsFresh'
       /\ \A b \in Browsers : b # calls[k].by /\ signedIn[b] = "calm" => Calm(b)'
       /\ \A x \in Live : /\ x # k /\ calls[x].token # 0
                          /\ tokens[calls[x].token].family \notin raced
                          => AsRead(x, calls[x].token)'
  BY <1>2, <1>3, <1>6, <1>7, <1>8, FamilyWritten
<1>12. OneCall'
  <2> SUFFICES ASSUME NEW x \in Live', calls'[x].token # 0,
                      tokens'[calls'[x].token].family \notin raced'
               PROVE  AsRead(x, calls[x].token)'
    BY DEF OneCall
  <2>1. x \in Live /\ tokens[calls[x].token].family \notin raced /\ calls[x].token # 0
    BY <1>1, <1>2, <1>6, <1>7, <1>8, TokenFacts
  <2>2. CASE x = k
    <3>1. AsRead(k, calls[k].token)
      BY <1>1, <2>1, <2>2 DEF OneCall
    <3>2. Alone(k, tokens[calls[k].token].family)'
      BY <1>1, <1>3, <1>6, <1>7, <1>8, <3>1, TokenFacts DEF Alone, AsRead
    <3>3. ASSUME NEW u \in DOMAIN tokens, tokens[u].family = tokens[calls[k].token].family
          PROVE  tokens'[u].used /\ ~tokens'[u].revoked
      <4>1. Usable(calls[k].token)
        BY <1>2, <3>1 DEF AsRead
      <4>2. (Usable(u) => u = calls[k].token) /\ ~tokens[u].revoked
        BY <1>1, <1>3, <2>1, <2>2, <3>3, <4>1 DEF OneUsable
      <4> QED
        BY <1>8, <4>2 DEF Usable
    <3> QED
      BY <1>3, <1>4, <1>6, <1>8, <2>2, <3>2, <3>3 DEF AsRead
  <2> QED
    BY <1>11, <2>1, <2>2
<1>13. OneUsable'
  BY <1>1, <1>2, <1>3, <1>8 DEF OneUsable, Usable
<1>14. CalmSessions'
  <2> SUFFICES ASSUME NEW b \in Browsers, signedIn[b] = "calm" PROVE Calm(b)'
    BY <1>2 DEF CalmSessions
  <2>1. Calm(b)
    BY <1>1 DEF CalmSessions
  <2>2. CASE calls[k].by = b
    <3>1. \A x \in Live : calls'[x].by = b => x = k
      BY <1>3, <1>7, <2>1, <2>2 DEF Calm
    <3>2. c.token = cookie[b] /\ Good(cookie[b])
      BY <1>2, <1>3, <1>4, <2>1, <2>2 DEF Calm
    <3>3. tokens'[cookie[b]].family \notin raced' /\ ~tokens'[cookie[b]].expired
      BY <1>1, <1>2, <1>8, <2>1, <3>2, TokenFacts DEF Calm, Good
    <3> QED
      BY <1>2, <1>3, <1>4, <1>6, <1>7, <2>1, <2>2, <3>1, <3>2, <3>3 DEF Calm
  <2> QED
    BY <1>11, <2>2
<1> QED
  BY <1>9, <1>10, <1>11, <1>12, <1>13, <1>14 DEF AccountsInv

\* insertRefreshToken(): the next token is the one usable token of the family.
LEMMA InsertKeeps ==
  ASSUME AccountsInv, NEW k \in Calls, InsertRefreshToken(k)
  PROVE  AccountsInv'
<1>1. SessionTypes /\ Owned /\ LoginsFresh /\ OneCall /\ OneUsable /\ CalmSessions
  BY DEF AccountsInv
<1>2. /\ calls[k].at = "insert" /\ UNCHANGED <<families, cookie, access, signedIn, raced>>
      /\ Insert(tokens[calls[k].token].family)
      /\ Handed(k, "granted")
  BY DEF InsertRefreshToken
<1>3. /\ k \in Live /\ calls[k] \in Underway /\ calls[k].kind = "refresh"
      /\ calls[k].token # 0 /\ calls[k].token \in DOMAIN tokens /\ calls[k].new = 0
  <2>1. k \in Live /\ calls[k] \in Underway
    BY <1>1, <1>2, CallIsLive
  <2> QED
    BY <1>1, <1>2, <2>1, TokenFacts DEF Underway
<1>4. PICK n : n = Len(tokens) + 1 /\ n \in Nat \ {0} /\ n \notin DOMAIN tokens
  BY <1>1, TokenFacts
<1> DEFINE c == [calls[k] EXCEPT !.at = "granted", !.new = n]
           new == [family |-> tokens[calls[k].token].family, used |-> FALSE,
                   revoked |-> FALSE, expired |-> FALSE]
<1>5. /\ c \in Underway /\ c.at = "granted" /\ c.kind = calls[k].kind /\ c.by = calls[k].by
      /\ c.token = calls[k].token /\ c.new = n
  BY <1>2, <1>3, <1>4 DEF Underway
<1>6. calls' = [calls EXCEPT ![k] = c]
  BY <1>2, <1>4 DEF Handed
<1> HIDE DEF c
<1>7. /\ Live' = Live /\ calls'[k] = c
      /\ \A x \in Live : x # k => calls'[x] = calls[x]
      /\ calls' \in [Calls -> {NoCall} \cup Underway]
  BY <1>1, <1>3, <1>5, <1>6, CallMoves
<1>8. \A x \in Live : /\ calls'[x].token = calls[x].token
                      /\ calls'[x].by = calls[x].by /\ calls'[x].kind = calls[x].kind
  BY <1>3, <1>5, <1>7
<1>9. /\ DOMAIN tokens' = DOMAIN tokens \cup {n} /\ Len(tokens') = n
      /\ tokens' \in Seq(Token)
      /\ \A u \in DOMAIN tokens : tokens'[u] = tokens[u]
      /\ tokens'[n] = new
  <2>1. new \in Token
    BY <1>1, <1>3, TokenFacts DEF Token
  <2>2. tokens \in Seq(Token) /\ tokens' = Append(tokens, new)
    BY <1>1, <1>2 DEF SessionTypes, Insert
  <2> QED
    BY <1>4, <2>1, <2>2, AppendIsNext
<1>10. /\ tokens'[n].family = tokens[calls[k].token].family
       /\ ~tokens'[n].used /\ ~tokens'[n].revoked /\ ~tokens'[n].expired
  BY <1>9
<1> HIDE DEF new
<1>11. SessionTypes'
  <2>1. \A x \in Calls : {calls'[x].token, calls'[x].new} \subseteq 0..Len(tokens')
    BY <1>1, <1>4, <1>5, <1>6, <1>9, TokenFacts DEF SessionTypes
  <2>2. \A t \in DOMAIN tokens' : tokens'[t].family <= families
    BY <1>1, <1>3, <1>9, <1>10 DEF SessionTypes
  <2>3. cookie \in [Browsers -> 0..Len(tokens')]
    BY <1>1, <1>4, <1>9, TokenFacts DEF SessionTypes
  <2> QED
    BY <1>1, <1>2, <1>7, <1>9, <2>1, <2>2, <2>3 DEF SessionTypes
<1>12. Owned'
  <2>1. \A b \in Browsers :
          HeldBy(b)' \subseteq HeldBy(b) \cup (IF b = calls[k].by THEN {n} ELSE {})
    BY <1>2, <1>3, <1>4, <1>5, <1>7, <1>8, <1>9, <1>1, TokenFacts DEF HeldBy
  <2>2. calls[k].token \in HeldBy(calls[k].by)
    BY <1>1, <1>3, CallHolds
  <2>3. \A b \in Browsers : \A u \in HeldBy(b) : u \in DOMAIN tokens
    BY DEF HeldBy
  <2> SUFFICES ASSUME NEW b \in Browsers, NEW d \in Browsers, b # d,
                      NEW t \in HeldBy(b)', NEW u \in HeldBy(d)'
               PROVE  tokens'[t].family # tokens'[u].family
    BY DEF Owned
  <2>4. CASE t \in HeldBy(b) /\ u \in HeldBy(d)
    BY <1>1, <1>9, <2>3, <2>4 DEF Owned
  <2>5. CASE t = n /\ b = calls[k].by /\ u \in HeldBy(d)
    BY <1>1, <1>9, <1>10, <2>2, <2>3, <2>5 DEF Owned
  <2>6. CASE u = n /\ d = calls[k].by /\ t \in HeldBy(b)
    BY <1>1, <1>9, <1>10, <2>2, <2>3, <2>6 DEF Owned
  <2> QED
    BY <2>1, <2>4, <2>5, <2>6
<1>13. /\ LoginsFresh'
       /\ \A b \in Browsers : b # calls[k].by /\ signedIn[b] = "calm" => Calm(b)'
       /\ \A x \in Live : /\ x # k /\ calls[x].token # 0
                          /\ tokens[calls[x].token].family \notin raced
                          => AsRead(x, calls[x].token)'
  BY <1>2, <1>3, <1>4, <1>5, <1>7, <1>9, <1>10, FamilyWritten
<1>14. ASSUME tokens[calls[k].token].family \notin raced
       PROVE  /\ Alone(k, tokens[calls[k].token].family)
              /\ \A u \in DOMAIN tokens : tokens[u].family = tokens[calls[k].token].family =>
                   tokens[u].used /\ ~tokens[u].revoked
  BY <1>1, <1>2, <1>3, <1>14 DEF OneCall, AsRead
<1>15. OneCall'
  <2> SUFFICES ASSUME NEW x \in Live', calls'[x].token # 0,
                      tokens'[calls'[x].token].family \notin raced'
               PROVE  AsRead(x, calls[x].token)'
    BY DEF OneCall
  <2>1. x \in Live /\ tokens[calls[x].token].family \notin raced /\ calls[x].token # 0
    BY <1>1, <1>2, <1>7, <1>8, <1>9, TokenFacts
  <2>2. CASE x = k
    <3>1. Alone(k, tokens[calls[k].token].family)'
      BY <1>1, <1>3, <1>7, <1>8, <1>9, <1>14, <2>1, <2>2, TokenFacts DEF Alone
    <3> QED
      BY <1>5, <1>7, <2>2, <3>1 DEF AsRead
  <2> QED
    BY <1>13, <2>1, <2>2
<1>16. OneUsable'
  <2> SUFFICES ASSUME NEW t \in DOMAIN tokens', NEW u \in DOMAIN tokens',
                      tokens'[t].family = tokens'[u].family, tokens'[t].family \notin raced,
                      Usable(t)'
               PROVE  (Usable(u)' => u = t) /\ ~tokens'[u].revoked
    BY <1>2 DEF OneUsable
  <2>1. CASE tokens'[t].family = tokens[calls[k].token].family
    <3>1. \A v \in DOMAIN tokens' : tokens'[v].family = tokens'[t].family =>
            (Usable(v)' => v = n) /\ ~tokens'[v].revoked
      BY <1>9, <1>10, <1>14, <2>1 DEF Usable
    <3> QED
      BY <3>1
  <2>2. CASE tokens'[t].family # tokens[calls[k].token].family
    BY <1>1, <1>9, <1>10, <2>2 DEF OneUsable, Usable
  <2> QED
    BY <2>1, <2>2
<1>17. CalmSessions'
  <2> SUFFICES ASSUME NEW b \in Browsers, signedIn[b] = "calm" PROVE Calm(b)'
    BY <1>2 DEF CalmSessions
  <2>1. Calm(b)
    BY <1>1 DEF CalmSessions
  <2>2. CASE calls[k].by = b
    <3>1. \A x \in Live : calls'[x].by = b => x = k
      BY <1>3, <1>8, <2>1, <2>2 DEF Calm
    <3>2. c.token = cookie[b] /\ cookie[b] \in DOMAIN tokens
      BY <1>3, <1>5, <2>1, <2>2 DEF Calm
    <3>3. tokens'[cookie[b]].family \notin raced'
      BY <1>2, <1>9, <2>1, <3>2 DEF Calm
    <3>4. Good(n)' /\ tokens'[n].family = tokens'[cookie[b]].family
      BY <1>4, <1>5, <1>9, <1>10, <3>2 DEF Good, Usable
    <3> QED
      BY <1>2, <1>3, <1>5, <1>7, <1>8, <2>1, <2>2, <3>1, <3>2, <3>3, <3>4 DEF Calm
  <2> QED
    BY <1>13, <2>2
<1> QED
  BY <1>11, <1>12, <1>13, <1>15, <1>16, <1>17 DEF AccountsInv

\* createRefreshFamily(): the login alone knows the one token of the new family.
LEMMA CreateFamilyKeeps ==
  ASSUME AccountsInv, NEW k \in Calls, CreateRefreshFamily(k)
  PROVE  AccountsInv'
<1>1. SessionTypes /\ Owned /\ LoginsFresh /\ OneCall /\ OneUsable /\ CalmSessions
  BY DEF AccountsInv
<1>2. /\ calls[k].at = "family" /\ UNCHANGED <<cookie, access, signedIn, raced>>
      /\ families' = families + 1 /\ Insert(families + 1)
      /\ Handed(k, "granted")
  BY DEF CreateRefreshFamily
<1>3. /\ k \in Live /\ calls[k] \in Underway /\ calls[k].kind = "login"
      /\ calls[k].token = 0 /\ calls[k].new = 0 /\ calls[k].by \in Browsers
  <2>1. k \in Live /\ calls[k] \in Underway
    BY <1>1, <1>2, CallIsLive
  <2> QED
    BY <1>1, <1>2, <2>1 DEF Underway
<1>4. PICK n : n = Len(tokens) + 1 /\ n \in Nat \ {0} /\ n \notin DOMAIN tokens
  BY <1>1, TokenFacts
<1> DEFINE c == [calls[k] EXCEPT !.at = "granted", !.new = n]
           new == [family |-> families + 1, used |-> FALSE, revoked |-> FALSE,
                   expired |-> FALSE]
<1>5. /\ c \in Underway /\ c.at = "granted" /\ c.kind = "login" /\ c.by = calls[k].by
      /\ c.token = 0 /\ c.new = n
  BY <1>2, <1>3, <1>4 DEF Underway
<1>6. calls' = [calls EXCEPT ![k] = c]
  BY <1>2, <1>4 DEF Handed
<1> HIDE DEF c
<1>7. /\ Live' = Live /\ calls'[k] = c
      /\ \A x \in Live : x # k => calls'[x] = calls[x]
      /\ calls' \in [Calls -> {NoCall} \cup Underway]
  BY <1>1, <1>3, <1>5, <1>6, CallMoves
<1>8. \A x \in Live : /\ calls'[x].token = calls[x].token
                      /\ calls'[x].by = calls[x].by /\ calls'[x].kind = calls[x].kind
  BY <1>3, <1>5, <1>7
<1>9. /\ DOMAIN tokens' = DOMAIN tokens \cup {n} /\ Len(tokens') = n
      /\ tokens' \in Seq(Token)
      /\ \A u \in DOMAIN tokens : tokens'[u] = tokens[u]
      /\ tokens'[n] = new
  <2>1. new \in Token
    BY <1>1 DEF Token, SessionTypes
  <2>2. tokens \in Seq(Token) /\ tokens' = Append(tokens, new)
    BY <1>1, <1>2 DEF SessionTypes, Insert
  <2> QED
    BY <1>4, <2>1, <2>2, AppendIsNext
<1>10. /\ tokens'[n].family = families + 1
       /\ ~tokens'[n].used /\ ~tokens'[n].revoked /\ ~tokens'[n].expired
  BY <1>9
<1> HIDE DEF new
<1>11. /\ families \in Nat /\ families + 1 \notin raced
       /\ \A u \in DOMAIN tokens : tokens[u].family # families + 1
  BY <1>1, TokenFacts DEF SessionTypes, Token
<1>12. SessionTypes'
  <2>1. \A x \in Calls : {calls'[x].token, calls'[x].new} \subseteq 0..Len(tokens')
    BY <1>1, <1>4, <1>5, <1>6, <1>9, TokenFacts DEF SessionTypes
  <2>2. \A t \in DOMAIN tokens' : tokens'[t].family <= families'
    BY <1>1, <1>2, <1>3, <1>9, <1>10, TokenFacts DEF SessionTypes, Token
  <2>3. cookie \in [Browsers -> 0..Len(tokens')]
    BY <1>1, <1>4, <1>9, TokenFacts DEF SessionTypes
  <2>4. families' \in Nat /\ raced \subseteq 1..families'
    BY <1>1, <1>2 DEF SessionTypes
  <2> QED
    BY <1>1, <1>2, <1>7, <1>9, <2>1, <2>2, <2>3, <2>4 DEF SessionTypes
<1>13. Owned'
  <2>1. \A b \in Browsers :
          HeldBy(b)' \subseteq HeldBy(b) \cup (IF b = calls[k].by THEN {n} ELSE {})
    BY <1>2, <1>3, <1>4, <1>5, <1>7, <1>8, <1>9, <1>1, TokenFacts DEF HeldBy
  <2>2. \A b \in Browsers : \A u \in HeldBy(b) : u \in DOMAIN tokens
    BY DEF HeldBy
  <2> SUFFICES ASSUME NEW b \in Browsers, NEW d \in Browsers, b # d,
                      NEW t \in HeldBy(b)', NEW u \in HeldBy(d)'
               PROVE  tokens'[t].family # tokens'[u].family
    BY DEF Owned
  <2>3. CASE t \in HeldBy(b) /\ u \in HeldBy(d)
    BY <1>1, <1>9, <2>2, <2>3 DEF Owned
  <2>4. CASE t = n /\ u \in HeldBy(d)
    BY <1>9, <1>10, <1>11, <2>2, <2>4
  <2>5. CASE u = n /\ t \in HeldBy(b)
    BY <1>9, <1>10, <1>11, <2>2, <2>5
  <2> QED
    BY <2>1, <2>3, <2>4, <2>5
<1>14. LoginsFresh'
  <2> SUFFICES ASSUME NEW x \in Live', calls'[x].kind = "login", calls'[x].at = "granted"
               PROVE  Fresh(x, calls[x].new)'
    BY DEF LoginsFresh
  <2>1. \A y \in Live : calls[y].token # n /\ calls[y].new # n
    BY <1>1, <1>4, TokenFacts DEF Underway
  <2>2. \A b \in Browsers : cookie[b] # n
    BY <1>1, <1>4, TokenFacts
  <2>3. CASE x = k
    <3>1. Fresh(k, n)'
      BY <1>2, <1>5, <1>7, <1>8, <1>9, <1>10, <1>11, <2>1, <2>2 DEF Fresh, Usable
    <3> QED
      BY <1>5, <1>7, <2>3, <3>1
  <2>4. CASE x # k
    <3>1. x \in Live /\ calls'[x] = calls[x] /\ Fresh(x, calls[x].new)
      BY <1>1, <1>7, <2>4 DEF LoginsFresh
    <3>2. PICK m : m = calls[x].new
      OBVIOUS
    <3>3. m \in DOMAIN tokens /\ m # n
      BY <1>1, <1>4, <2>4, <3>1, <3>2, TokenFacts DEF Underway
    <3>4. tokens'[m] = [tokens[m] EXCEPT !.expired = tokens'[m].expired]
      BY <1>1, <1>9, <3>3, TokenFacts DEF Token
    <3>5. Fresh(x, m)'
      BY <1>2, <1>3, <1>5, <1>7, <1>8, <1>9, <1>10, <1>11, <3>1, <3>2, <3>3, <3>4, FreshKept
         DEF Fresh
    <3> QED
      BY <3>1, <3>2, <3>5
  <2> QED
    BY <2>3, <2>4
<1>15. OneCall'
  <2> SUFFICES ASSUME NEW x \in Live', calls'[x].token # 0,
                      tokens'[calls'[x].token].family \notin raced'
               PROVE  AsRead(x, calls[x].token)'
    BY DEF OneCall
  <2>1. /\ x \in Live /\ x # k /\ calls'[x] = calls[x] /\ calls[x].token \in DOMAIN tokens
        /\ tokens[calls[x].token].family \notin raced /\ calls[x].token # 0
    BY <1>1, <1>2, <1>3, <1>7, <1>8, <1>9, TokenFacts
  <2>2. AsRead(x, calls[x].token)
    BY <1>1, <2>1 DEF OneCall
  <2>3. PICK t \in DOMAIN tokens : t = calls[x].token
    BY <2>1
  <2>4. AsRead(x, t)'
    BY <1>7, <1>8, <1>9, <1>10, <1>11, <2>1, <2>2, <2>3, AsReadKept
  <2> QED
    BY <2>1, <2>3, <2>4
<1>16. OneUsable'
  BY <1>1, <1>2, <1>9, <1>10, <1>11 DEF OneUsable, Usable
<1>17. CalmSessions'
  <2> SUFFICES ASSUME NEW b \in Browsers, signedIn[b] = "calm" PROVE Calm(b)'
    BY <1>2 DEF CalmSessions
  <2>1. Calm(b)
    BY <1>1 DEF CalmSessions
  <2>2. CASE calls[k].by = b
    <3>1. \A x \in Live : calls'[x].by = b => x = k
      BY <1>3, <1>8, <2>1, <2>2 DEF Calm
    <3>2. cookie[b] \in DOMAIN tokens
      BY <1>1, <2>1, TokenFacts DEF Calm
    <3>3. tokens'[cookie[b]] = tokens[cookie[b]]
      BY <1>9, <3>2
    <3> QED
      BY <1>2, <1>3, <1>5, <1>7, <1>8, <1>10, <2>1, <2>2, <3>1, <3>2, <3>3
         DEF Calm, Good, Usable
  <2>3. CASE calls[k].by # b
    <3>1. \A u \in HeldBy(b) : tokens'[u] = tokens[u]
      BY <1>9 DEF HeldBy
    <3> QED
      BY <1>2, <1>7, <1>8, <2>1, <2>3, <3>1, CalmKept DEF Calm
  <2> QED
    BY <2>2, <2>3
<1> QED
  BY <1>12, <1>13, <1>14, <1>15, <1>16, <1>17 DEF AccountsInv

\* A call that ends, answered or not, knows nothing any more: what it leaves to its
\* browser is a cookie at most, which is none or the token it was given.
LEMMA EndKeeps ==
  ASSUME AccountsInv, NEW k \in Live, End(k),
         UNCHANGED <<tokens, families, raced>>,
         cookie' \in [Browsers -> 0..Len(tokens)],
         access' \in [Browsers -> {"none", "valid", "expired"}],
         signedIn' \in [Browsers -> {"no", "calm", "troubled"}],
         \A b \in Browsers : b # calls[k].by =>
           cookie'[b] = cookie[b] /\ signedIn'[b] = signedIn[b],
         cookie'[calls[k].by] \in {0, cookie[calls[k].by], calls[k].new},
         signedIn'[calls[k].by] = "calm" =>
           /\ cookie'[calls[k].by] # 0 /\ Good(cookie'[calls[k].by])
           /\ tokens[cookie'[calls[k].by]].family \notin raced
           /\ \A x \in Live : calls[x].by = calls[k].by => x = k
  PROVE  AccountsInv'
<1>1. SessionTypes /\ Owned /\ LoginsFresh /\ OneCall /\ OneUsable /\ CalmSessions
  BY DEF AccountsInv
<1>2. /\ k \in Calls /\ Live' = Live \ {k}
      /\ calls' \in [Calls -> {NoCall} \cup Underway]
      /\ \A x \in Live' : calls'[x] = calls[x]
      /\ \A x \in Calls : calls'[x] = NoCall \/ calls'[x] = calls[x]
  BY <1>1, CallEnds
<1>3. calls[k] \in Underway /\ calls[k].by \in Browsers
  BY <1>1, TokenFacts DEF Underway
<1>4. SessionTypes'
  <2>1. \A x \in Calls : {calls'[x].token, calls'[x].new} \subseteq 0..Len(tokens)
    BY <1>1, <1>2 DEF SessionTypes, NoCall
  <2> QED
    BY <1>1, <1>2, <2>1 DEF SessionTypes
<1>5. Owned'
  <2>1. \A b \in Browsers : HeldBy(b)' \subseteq HeldBy(b)
    BY <1>1, <1>2, <1>3, TokenFacts DEF HeldBy
  <2> QED
    BY <1>1, <2>1 DEF Owned
<1>6. LoginsFresh'
  <2> SUFFICES ASSUME NEW x \in Live', calls'[x].kind = "login", calls'[x].at = "granted"
               PROVE  Fresh(x, calls[x].new)'
    BY DEF LoginsFresh
  <2>1. x \in Live /\ x # k /\ calls'[x] = calls[x] /\ Fresh(x, calls[x].new)
    BY <1>1, <1>2 DEF LoginsFresh
  <2>2. calls[x].new # 0
    BY <1>1, <2>1, TokenFacts DEF Underway
  <2>3. \A b \in Browsers : cookie'[b] # calls[x].new
    BY <2>1, <2>2 DEF Fresh
  <2> QED
    BY <1>2, <2>1, <2>3 DEF Fresh, Usable
<1>7. OneCall'
  <2> SUFFICES ASSUME NEW x \in Live', calls'[x].token # 0,
                      tokens'[calls'[x].token].family \notin raced'
               PROVE  AsRead(x, calls[x].token)'
    BY DEF OneCall
  <2>1. x \in Live /\ calls'[x] = calls[x] /\ AsRead(x, calls[x].token)
    BY <1>1, <1>2 DEF OneCall
  <2>2. Alone(x, tokens[calls[x].token].family)'
    BY <1>2, <2>1 DEF AsRead, Alone
  <2> QED
    BY <2>1, <2>2 DEF AsRead, Usable
<1>8. OneUsable'
  BY <1>1 DEF OneUsable, Usable
<1>9. CalmSessions'
  <2> SUFFICES ASSUME NEW b \in Browsers, signedIn'[b] = "calm" PROVE Calm(b)'
    BY DEF CalmSessions
  <2>1. CASE b = calls[k].by
    <3>1. \A x \in Live' : calls'[x].by # b
      BY <1>2, <2>1
    <3> QED
      BY <2>1, <3>1 DEF Calm, Good, Usable
  <2>2. CASE b # calls[k].by
    <3>1. Calm(b)
      BY <1>1, <2>2 DEF CalmSessions
    <3> QED
      BY <1>2, <2>2, <3>1, CalmKept DEF Calm
  <2> QED
    BY <2>1, <2>2
<1> QED
  BY <1>4, <1>5, <1>6, <1>7, <1>8, <1>9 DEF AccountsInv

\* The answer: the browser takes the token its call was given.
LEMMA GrantedKeeps ==
  ASSUME AccountsInv, NEW k \in Calls, Granted(k)
  PROVE  AccountsInv'
<1>1. SessionTypes /\ LoginsFresh /\ CalmSessions
  BY DEF AccountsInv
<1>2. PICK b : b = calls[k].by
  OBVIOUS
<1>3. /\ calls[k].at = "granted" /\ End(k) /\ UNCHANGED <<tokens, families, raced>>
      /\ cookie' = [cookie EXCEPT ![b] = calls[k].new]
      /\ access' = [access EXCEPT ![b] = "valid"]
      /\ signedIn' = [signedIn EXCEPT ![b] =
                        IF /\ calls[k].kind = "login" /\ CallsOf(b) = {k}
                           /\ ~tokens[calls[k].new].expired
                        THEN "calm" ELSE @]
  BY <1>2 DEF Granted
<1>4. /\ k \in Live /\ calls[k] \in Underway /\ calls[k].kind \in {"login", "refresh"}
      /\ calls[k].new # 0 /\ calls[k].new \in DOMAIN tokens /\ b \in Browsers
  <2>1. k \in Live /\ calls[k] \in Underway
    BY <1>1, <1>3, CallIsLive
  <2> QED
    BY <1>1, <1>2, <1>3, <2>1, TokenFacts DEF Underway
<1>5. /\ cookie' \in [Browsers -> 0..Len(tokens)]
      /\ access' \in [Browsers -> {"none", "valid", "expired"}]
      /\ signedIn' \in [Browsers -> {"no", "calm", "troubled"}]
      /\ \A c \in Browsers : c # b => cookie'[c] = cookie[c] /\ signedIn'[c] = signedIn[c]
      /\ cookie'[b] = calls[k].new
  BY <1>1, <1>3, <1>4, TokenFacts DEF SessionTypes
<1>6. ASSUME signedIn'[b] = "calm"
      PROVE  /\ Good(calls[k].new) /\ tokens[calls[k].new].family \notin raced
             /\ \A x \in Live : calls[x].by = b => x = k
  <2>1. CASE /\ calls[k].kind = "login" /\ CallsOf(b) = {k}
             /\ ~tokens[calls[k].new].expired
    <3>1. Fresh(k, calls[k].new)
      BY <1>1, <1>3, <1>4, <2>1 DEF LoginsFresh
    <3>2. \A x \in Live : calls[x].by = b => x \in CallsOf(b)
      BY DEF CallsOf, Live
    <3> QED
      BY <1>4, <2>1, <3>1, <3>2 DEF Fresh, Good
  <2>2. CASE ~(/\ calls[k].kind = "login" /\ CallsOf(b) = {k}
               /\ ~tokens[calls[k].new].expired)
    <3>1. Calm(b)
      BY <1>1, <1>3, <1>4, <1>6, <2>2 DEF CalmSessions, SessionTypes
    <3>2. \A x \in Live : calls[x].by = b => x = k
      BY <1>2, <1>4, <3>1 DEF Calm
    <3>3. CASE calls[k].kind = "login"
      <4>1. Fresh(k, calls[k].new)
        BY <1>1, <1>3, <1>4, <3>3 DEF LoginsFresh
      <4> QED
        BY <1>2, <1>3, <1>4, <3>1, <3>2, <3>3, <4>1 DEF Fresh, Calm, Good
    <3>4. CASE calls[k].kind = "refresh"
      BY <1>2, <1>3, <1>4, <3>1, <3>2, <3>4 DEF Calm
    <3> QED
      BY <1>4, <3>3, <3>4
  <2> QED
    BY <2>1, <2>2
<1> QED
  BY <1>2, <1>3, <1>4, <1>5, <1>6, EndKeeps

\* A session that is refused or signed out leaves no cookie; a calm browser's is
\* not refused.
LEMMA ClearedKeeps ==
  ASSUME AccountsInv, NEW k \in Calls, Cleared(k)
  PROVE  AccountsInv'
<1>1. SessionTypes /\ CalmSessions
  BY DEF AccountsInv
<1>2. PICK b : b = calls[k].by
  OBVIOUS
<1>3. /\ calls[k].at \in {"dead", "gone"} /\ End(k) /\ UNCHANGED <<tokens, families, raced>>
      /\ cookie' = [cookie EXCEPT ![b] = 0]
      /\ access' = [access EXCEPT ![b] = IF calls[k].at = "gone" THEN "none" ELSE @]
      /\ signedIn' = [signedIn EXCEPT ![b] = IF calls[k].at = "gone" THEN "no" ELSE @]
  BY <1>2 DEF Cleared
<1>4. /\ k \in Live /\ calls[k] \in Underway /\ b \in Browsers
      /\ calls[k].at = "dead" => calls[k].kind = "refresh"
  <2>1. k \in Live /\ calls[k] \in Underway
    BY <1>1, <1>3, CallIsLive
  <2> QED
    BY <1>2, <2>1 DEF Underway
<1>5. /\ cookie' \in [Browsers -> 0..Len(tokens)]
      /\ access' \in [Browsers -> {"none", "valid", "expired"}]
      /\ signedIn' \in [Browsers -> {"no", "calm", "troubled"}]
      /\ \A c \in Browsers : c # b => cookie'[c] = cookie[c] /\ signedIn'[c] = signedIn[c]
      /\ cookie'[b] = 0
  BY <1>1, <1>3, <1>4, TokenFacts DEF SessionTypes
<1>6. signedIn'[b] # "calm"
  <2>1. CASE calls[k].at = "gone"
    BY <1>1, <1>3, <1>4, <2>1 DEF SessionTypes
  <2>2. CASE calls[k].at = "dead"
    <3>1. ~Calm(b)
      BY <1>2, <1>4, <2>2 DEF Calm
    <3> QED
      BY <1>1, <1>3, <1>4, <2>2, <3>1 DEF CalmSessions, SessionTypes
  <2> QED
    BY <1>3, <2>1, <2>2
<1> QED
  BY <1>2, <1>3, <1>4, <1>5, <1>6, EndKeeps

\* A lost answer or a query that throws ends the call, and its browser is troubled.
LEMMA BreakKeeps ==
  ASSUME AccountsInv, NEW k \in Calls, AnswerLost(k) \/ QueryFails(k)
  PROVE  AccountsInv'
<1>1. SessionTypes
  BY DEF AccountsInv
<1>2. PICK b : b = calls[k].by
  OBVIOUS
<1>3. /\ calls[k].at # "none" /\ End(k) /\ UNCHANGED <<tokens, families, cookie, access, raced>>
      /\ signedIn' = [signedIn EXCEPT ![b] = Troubled(b)]
  BY <1>2 DEF AnswerLost, QueryFails
<1>4. k \in Live /\ b \in Browsers
  BY <1>1, <1>2, <1>3, CallIsLive
<1>5. /\ signedIn' \in [Browsers -> {"no", "calm", "troubled"}]
      /\ \A c \in Browsers : c # b => signedIn'[c] = signedIn[c]
      /\ signedIn'[b] # "calm"
  BY <1>1, <1>3, <1>4 DEF SessionTypes, Troubled
<1> QED
  BY <1>1, <1>2, <1>3, <1>4, <1>5, EndKeeps DEF SessionTypes

\* Tokens that expire are as used and as revoked as they were, and every browser is
\* troubled.
LEMMA ExpiryKeeps ==
  ASSUME AccountsInv, NEW t \in DOMAIN tokens, TokenExpires(t)
  PROVE  AccountsInv'
<1>1. SessionTypes /\ Owned /\ LoginsFresh /\ OneCall /\ OneUsable
  BY DEF AccountsInv
<1>2. UNCHANGED <<families, cookie, access, calls, raced>> /\ Live' = Live
  BY DEF TokenExpires, Live
<1>3. /\ DOMAIN tokens' = DOMAIN tokens /\ Len(tokens') = Len(tokens)
      /\ tokens' \in Seq(Token)
      /\ \A u \in DOMAIN tokens :
           /\ tokens'[u].family = tokens[u].family /\ tokens'[u].used = tokens[u].used
           /\ tokens'[u].revoked = tokens[u].revoked
  <2>1. DOMAIN tokens = 1..Len(tokens) /\ Len(tokens) \in Nat
        /\ \A u \in DOMAIN tokens : tokens[u] \in Token
    BY <1>1, TokenFacts
  <2>2. \A u \in DOMAIN tokens : [tokens[u] EXCEPT !.expired = TRUE] \in Token
    BY <2>1 DEF Token
  <2>3. tokens' \in [1..Len(tokens) -> Token]
    BY <2>1, <2>2 DEF TokenExpires
  <2>4. DOMAIN tokens' = DOMAIN tokens /\ Len(tokens') = Len(tokens) /\ tokens' \in Seq(Token)
    BY <2>1, <2>3
  <2> QED
    BY <2>1, <2>4 DEF TokenExpires, Token
<1>4. \A b \in Browsers : signedIn'[b] # "calm"
  BY <1>1 DEF TokenExpires, Troubled
<1>5. SessionTypes'
  <2>1. signedIn' \in [Browsers -> {"no", "calm", "troubled"}]
    BY <1>1 DEF TokenExpires, Troubled, SessionTypes
  <2> QED
    BY <1>1, <1>2, <1>3, <2>1 DEF SessionTypes
<1>6. Owned'
  <2>1. \A b \in Browsers : HeldBy(b)' = HeldBy(b)
    BY <1>2, <1>3 DEF HeldBy
  <2> QED
    BY <1>1, <1>3, <2>1 DEF Owned, HeldBy
<1>7. LoginsFresh'
  <2> SUFFICES ASSUME NEW x \in Live, calls[x].kind = "login", calls[x].at = "granted"
               PROVE  Fresh(x, calls[x].new)'
    BY <1>2 DEF LoginsFresh
  <2>1. Fresh(x, calls[x].new) /\ calls[x].new \in DOMAIN tokens
    BY <1>1, TokenFacts DEF LoginsFresh, Underway
  <2> QED
    BY <1>2, <1>3, <2>1 DEF Fresh, Usable
<1>8. OneCall'
  <2> SUFFICES ASSUME NEW x \in Live, calls[x].token # 0,
                      tokens'[calls[x].token].family \notin raced
               PROVE  AsRead(x, calls[x].token)'
    BY <1>2 DEF OneCall
  <2>1. PICK u \in DOMAIN tokens : u = calls[x].token
    BY <1>1, TokenFacts
  <2>2. AsRead(x, u)
    BY <1>1, <1>3, <2>1 DEF OneCall
  <2>3. AsRead(x, u)'
    BY <1>2, <1>3, <2>1, <2>2, AsReadKept
  <2> QED
    BY <1>2, <2>1, <2>3
<1>9. OneUsable'
  BY <1>1, <1>2, <1>3 DEF OneUsable, Usable
<1> QED
  BY <1>4, <1>5, <1>6, <1>7, <1>8, <1>9 DEF AccountsInv, CalmSessions

\* Every step of the sign-in sessions keeps their invariant.
LEMMA AccountsStep ==
  ASSUME AccountsInv, AccountsNext
  PROVE  AccountsInv'
<1>1. ASSUME NEW k \in Calls, NEW b \in Browsers, Login(k, b) \/ Refresh(k, b) \/ Logout(k, b)
      PROVE  AccountsInv'
  <2>1. CASE Login(k, b)
    <3>1. Begin(k, b, "login", "family", 0) /\ UNCHANGED <<tokens, families, cookie, access>>
      BY <2>1 DEF Login
    <3> QED
      BY <3>1, CallStarts
  <2>2. CASE Refresh(k, b)
    <3>1. /\ cookie[b] # 0 /\ Begin(k, b, "refresh", "find", cookie[b])
          /\ UNCHANGED <<tokens, families, cookie, access>>
      BY <2>2 DEF Refresh
    <3> QED
      BY <3>1, CallStarts
  <2>3. CASE Logout(k, b)
    <3>1. /\ \/ cookie[b] # 0 /\ Begin(k, b, "logout", "find", cookie[b])
             \/ Begin(k, b, "logout", "gone", 0)
          /\ UNCHANGED <<tokens, families, cookie, access>>
      BY <2>3 DEF Logout
    <3> QED
      BY <3>1, CallStarts
  <2> QED
    BY <1>1, <2>1, <2>2, <2>3
<1>2. ASSUME NEW k \in Calls,
             \/ CreateRefreshFamily(k) \/ FindRefreshToken(k) \/ RevokeFamily(k)
             \/ MarkRefreshTokenUsed(k) \/ InsertRefreshToken(k)
             \/ Granted(k) \/ Cleared(k) \/ AnswerLost(k) \/ QueryFails(k)
      PROVE  AccountsInv'
  BY <1>2, CreateFamilyKeeps, FindKeeps, RevokeKeeps, MarkKeeps, InsertKeeps, GrantedKeeps,
     ClearedKeeps, BreakKeeps
<1>3. ASSUME NEW b \in Browsers, AccessLapses(b)
      PROVE  AccountsInv'
  <2>1. UNCHANGED <<tokens, families, cookie, calls, signedIn, raced>>
        /\ access' = [access EXCEPT ![b] = "expired"]
    BY <1>3 DEF AccessLapses
  <2>2. SessionTypes'
    BY <2>1 DEF AccountsInv, SessionTypes
  <2>3. Owned' /\ LoginsFresh' /\ OneCall' /\ OneUsable' /\ CalmSessions'
    BY <2>1 DEF AccountsInv, Owned, HeldBy, LoginsFresh, Fresh, OneCall, AsRead, Alone,
                OneUsable, CalmSessions, Calm, Good, Usable, Live
  <2> QED
    BY <2>2, <2>3 DEF AccountsInv
<1> QED
  BY <1>1, <1>2, <1>3, ExpiryKeeps DEF AccountsNext

\* What the invariant says of a table of tokens and of calm browsers is the property.
LEMMA AccountsSafe ==
  ASSUME AccountsInv
  PROVE  AccountsTypes /\ SessionHolds
<1>1. SessionTypes /\ OneUsable /\ CalmSessions
  BY DEF AccountsInv
<1>2. AccountsTypes
  <2>1. tokens \in Seq([family : 1..families, used : BOOLEAN, revoked : BOOLEAN,
                        expired : BOOLEAN])
    <3>1. \A t \in DOMAIN tokens :
            tokens[t] \in [family : 1..families, used : BOOLEAN, revoked : BOOLEAN,
                           expired : BOOLEAN]
      BY <1>1, TokenFacts DEF SessionTypes, Token
    <3>2. PICK S : S = [family : 1..families, used : BOOLEAN, revoked : BOOLEAN,
                        expired : BOOLEAN]
      OBVIOUS
    <3>3. tokens \in [1..Len(tokens) -> Token] /\ Len(tokens) \in Nat
      BY <1>1 DEF SessionTypes
    <3>4. \A t \in 1..Len(tokens) : tokens[t] \in S
      BY <3>1, <3>2, <3>3
    <3>5. tokens \in [1..Len(tokens) -> S]
      BY <3>3, <3>4
    <3>6. tokens \in Seq(S)
      BY <3>3, <3>5
    <3> QED
      BY <3>2, <3>6, Zenon
  <2>2. \A k \in Calls : calls[k] # NoCall => calls[k].by \in Browsers
    BY <1>1 DEF SessionTypes, Underway
  <2> QED
    BY <1>1, <2>1, <2>2 DEF AccountsTypes, SessionTypes
<1>3. ASSUME NEW b \in Browsers, signedIn[b] = "calm", CallsOf(b) = {}
      PROVE  cookie[b] # 0 /\ Usable(cookie[b]) /\ ~tokens[cookie[b]].expired
  <2>1. \A k \in Live : calls[k].by # b
    BY <1>3 DEF CallsOf, Live
  <2> QED
    BY <1>1, <1>3, <2>1 DEF CalmSessions, Calm, Good
<1>4. ASSUME NEW f \in (1..families) \ raced
      PROVE  /\ Cardinality(UsableOf(f)) <= 1
             /\ (\E t \in DOMAIN tokens : tokens[t].family = f /\ tokens[t].revoked)
                  => UsableOf(f) = {}
  <2>1. \A t, u \in UsableOf(f) : t = u
    BY <1>1 DEF OneUsable, UsableOf
  <2>2. UsableOf(f) = {} \/ \E t : UsableOf(f) = {t}
    BY <2>1
  <2>3. Cardinality(UsableOf(f)) <= 1
    BY <2>2, FS_EmptySet, FS_Singleton
  <2> QED
    BY <1>1, <2>3 DEF OneUsable, UsableOf
<1> QED
  BY <1>2, <1>3, <1>4 DEF SessionHolds

-----------------------------------------------------------------------------
(* The requests *)

\* The rows of documents are numbered from 1, and requests name such rows.
LEMMA DocumentFacts ==
  ASSUME LibraryTypes
  PROVE  /\ Len(documents) \in Nat /\ DOMAIN documents = 1..Len(documents)
         /\ \A d \in DOMAIN documents : documents[d] \in Document
         /\ \A r \in Requests : requests[r] \in {NoRequest} \cup Request
         /\ \A r \in Requests : requests[r].document # 0 => requests[r].document \in DOMAIN documents
<1>1. Len(documents) \in Nat /\ DOMAIN documents = 1..Len(documents)
  BY DEF LibraryTypes
<1>2. \A d \in DOMAIN documents : documents[d] \in Document
  BY <1>1 DEF LibraryTypes
<1> QED
  BY <1>1, <1>2 DEF LibraryTypes

\* A request whose query runs is one of those its stage tells.
LEMMA RequestFacts ==
  ASSUME LibraryTypes, NEW r \in Requests, requests[r].at # "none"
  PROVE  /\ requests[r] \in Request
         /\ requests[r].at \in {"find", "create", "save"} =>
              /\ requests[r].kind = "post" /\ requests[r].key \in Keys
              /\ requests[r].title \in Titles
         /\ requests[r].at \in {"role", "write"} \/ requests[r].at = "save" =>
              requests[r].document \in DOMAIN documents
<1>1. requests[r] \in Request
  BY DocumentFacts DEF NoRequest
<1>2. requests[r].document # 0 => requests[r].document \in DOMAIN documents
  BY DocumentFacts
<1> QED
  BY <1>1, <1>2 DEF Request

\* One request changes, or none: the types of the rest follow.
LEMMA RequestTypes ==
  ASSUME LibraryTypes, NEW r \in Requests, NEW q \in {NoRequest} \cup Request,
         requests' = [requests EXCEPT ![r] = q],
         q.document \in 0..Len(documents'),
         documents' \in Seq(Document), Len(documents) <= Len(documents'),
         keyRows' \subseteq Row,
         \A row \in keyRows' : row.document \in DOMAIN documents',
         \A s, t \in keyRows' : s.key = t.key => s = t,
         now' = now
  PROVE  LibraryTypes'
<1>1. \A s \in Requests : requests'[s].document \in 0..Len(documents')
  BY DocumentFacts DEF LibraryTypes
<1> QED
  BY <1>1 DEF LibraryTypes

\* A transaction that commits began at some time.
LEMMA BegunFacts ==
  ASSUME LibraryTypes, NEW r \in Requests, requests[r] \in Request, NEW t \in Begun(r)
  PROVE  t \in Nat
<1>1. requests[r].reached \in Nat /\ now \in Nat
  BY DEF Request, LibraryTypes
<1> QED
  BY <1>1 DEF Begun

\* A query of the owner writes one row: its time, or it closes it, or leaves it.
LEMMA DocumentWritten ==
  ASSUME LibraryTypes, NEW r \in Requests,
         UpdateDocumentTitle(r) \/ TransferOwnership(r) \/ RevokeDocumentAccess(r)
  PROVE  /\ requests[r] \in Request /\ requests[r].document \in DOMAIN documents
         /\ requests[r].kind # "post" /\ UNCHANGED <<keyRows, now, made, replies, marred>>
         /\ \E at \in {"reply", "refused"} : GoOn(r, at)
         /\ \E doc \in Document :
              /\ documents' = [documents EXCEPT ![requests[r].document] = doc]
              /\ \/ Stamped(requests[r].document, doc.updated)
                 \/ /\ UNCHANGED walk
                    /\ doc.updated = documents[requests[r].document].updated
                    /\ doc = documents[requests[r].document] \/ ~doc.open
<1>1. /\ requests[r] \in Request /\ requests[r].document \in DOMAIN documents
      /\ requests[r].kind # "post" /\ UNCHANGED <<keyRows, now, made, replies, marred>>
      /\ \E at \in {"reply", "refused"} : GoOn(r, at)
      /\ requests[r].kind = "rename" => requests[r].title \in Titles
  BY RequestFacts DEF UpdateDocumentTitle, TransferOwnership, RevokeDocumentAccess, Request
<1>2. PICK d \in DOMAIN documents : d = requests[r].document
  BY <1>1
<1>3. documents[d] \in Document /\ documents = [documents EXCEPT ![d] = documents[d]]
  BY DocumentFacts DEF LibraryTypes
<1>4. CASE UpdateDocumentTitle(r)
  <2>1. PICK t \in Begun(r) :
          /\ documents' = [documents EXCEPT ![d].title = requests[r].title, ![d].updated = t]
          /\ Stamped(d, t)
    BY <1>2, <1>4 DEF UpdateDocumentTitle
  <2>2. PICK doc : doc = [documents[d] EXCEPT !.title = requests[r].title, !.updated = t]
    OBVIOUS
  <2>3. t \in Nat /\ requests[r].title \in Titles
    BY <1>1, <1>4, BegunFacts DEF UpdateDocumentTitle
  <2>4. doc \in Document /\ doc.updated = t
    BY <1>3, <2>2, <2>3 DEF Document
  <2>5. documents' = [documents EXCEPT ![d] = doc]
    BY <1>3, <2>1, <2>2
  <2> QED
    BY <1>1, <1>2, <2>1, <2>4, <2>5
<1>5. CASE TransferOwnership(r) /\ ~UNCHANGED <<documents, walk>>
  <2>1. PICK t \in Begun(r) :
          /\ documents' = [documents EXCEPT ![d].mine = FALSE, ![d].updated = t]
          /\ Stamped(d, t)
    BY <1>2, <1>5 DEF TransferOwnership
  <2>2. PICK doc : doc = [documents[d] EXCEPT !.mine = FALSE, !.updated = t]
    OBVIOUS
  <2>3. t \in Nat
    BY <1>1, BegunFacts
  <2>4. doc \in Document /\ doc.updated = t
    BY <1>3, <2>2, <2>3 DEF Document
  <2>5. documents' = [documents EXCEPT ![d] = doc]
    BY <1>3, <2>1, <2>2
  <2> QED
    BY <1>1, <1>2, <2>1, <2>4, <2>5
<1>6. CASE UNCHANGED <<documents, walk>>
  <2>1. documents' = [documents EXCEPT ![d] = documents[d]] /\ UNCHANGED walk
    BY <1>3, <1>6
  <2> QED
    BY <1>1, <1>2, <1>3, <2>1
<1>7. CASE RevokeDocumentAccess(r)
  <2>1. documents' = [documents EXCEPT ![d].open = FALSE] /\ UNCHANGED walk
    BY <1>2, <1>7 DEF RevokeDocumentAccess
  <2>2. PICK doc : doc = [documents[d] EXCEPT !.open = FALSE]
    OBVIOUS
  <2>3. doc \in Document /\ doc.updated = documents[d].updated /\ ~doc.open
    BY <1>3, <2>2 DEF Document
  <2>4. documents' = [documents EXCEPT ![d] = doc]
    BY <2>1, <2>2
  <2> QED
    BY <1>1, <1>2, <2>1, <2>3, <2>4
<1> QED
  BY <1>4, <1>5, <1>6, <1>7

\* Every step keeps the types of the documents, the keys and the requests.
LEMMA LibraryTypesStep ==
  ASSUME LibraryTypes, LibraryNext
  PROVE  LibraryTypes'
<1>1. /\ documents \in Seq(Document) /\ Len(documents) \in Nat
      /\ DOMAIN documents = 1..Len(documents)
      /\ keyRows \subseteq Row /\ now \in Nat
      /\ \A row \in keyRows : row.document \in DOMAIN documents
      /\ \A s, t \in keyRows : s.key = t.key => s = t
  BY DocumentFacts DEF LibraryTypes
<1>2. ASSUME UNCHANGED <<documents, keyRows, requests>>, now' \in Nat
      PROVE  LibraryTypes'
  BY <1>2 DEF LibraryTypes
<1>3. ASSUME NEW r \in Requests, NEW q \in {NoRequest} \cup Request,
             requests' = [requests EXCEPT ![r] = q], q.document \in 0..Len(documents),
             UNCHANGED <<documents, keyRows, now>>
      PROVE  LibraryTypes'
  <2>1. \A s \in Requests : requests'[s].document \in 0..Len(documents)
    BY <1>3 DEF LibraryTypes
  <2> QED
    BY <1>1, <1>3, <2>1 DEF LibraryTypes
<1>4. ASSUME NEW r \in Requests, NEW at \in {"save", "reply", "refused", "create", "write"},
             requests[r] \in Request, GoOn(r, at),
             at = "create" => requests[r].kind = "post",
             at = "write" => requests[r].kind # "post",
             at # "save", UNCHANGED <<documents, now>>,
             keyRows' \subseteq Row,
             \A row \in keyRows' : row.document \in DOMAIN documents,
             \A s, t \in keyRows' : s.key = t.key => s = t
      PROVE  LibraryTypes'
  <2>1. PICK q : q = [requests[r] EXCEPT !.at = at, !.reached = now]
    OBVIOUS
  <2>2. q \in Request /\ q.document = requests[r].document
    BY <1>1, <1>4, <2>1 DEF Request
  <2>3. q \in {NoRequest} \cup Request /\ q.document \in 0..Len(documents')
    BY <1>4, <2>2 DEF LibraryTypes
  <2>4. requests' = [requests EXCEPT ![r] = q]
    BY <1>4, <2>1 DEF GoOn
  <2>5. documents' \in Seq(Document) /\ Len(documents) <= Len(documents')
        /\ \A row \in keyRows' : row.document \in DOMAIN documents'
    BY <1>1, <1>4
  <2> QED
    BY <1>4, <2>3, <2>4, <2>5, RequestTypes
<1>5. ASSUME NEW r \in Requests, NEW key \in Keys, NEW title \in Titles, Post(r, key, title)
      PROVE  LibraryTypes'
  <2>1. PICK q : q = [kind |-> "post", at |-> "find", key |-> key, title |-> title, document |-> 0,
                      reached |-> now]
    OBVIOUS
  <2>2. q \in Request /\ q.document = 0
    BY <1>1, <1>5, <2>1 DEF Request
  <2>3. requests' = [requests EXCEPT ![r] = q] /\ UNCHANGED <<documents, keyRows, now>>
    BY <1>5, <2>1 DEF Post, Ask
  <2>4. q \in {NoRequest} \cup Request /\ q.document \in 0..Len(documents)
    BY <1>1, <2>2
  <2> QED
    BY <1>3, <2>3, <2>4
<1>6. ASSUME NEW r \in Requests, NEW d \in DOMAIN documents, NEW title \in Titles,
             Rename(r, d, title)
      PROVE  LibraryTypes'
  <2>1. PICK q : q = [kind |-> "rename", at |-> "role", key |-> "none", title |-> title,
                      document |-> d, reached |-> now]
    OBVIOUS
  <2>2. q \in Request /\ q.document = d
    BY <1>1, <2>1 DEF Request
  <2>3. requests' = [requests EXCEPT ![r] = q] /\ UNCHANGED <<documents, keyRows, now>>
    BY <1>6, <2>1 DEF Rename, Ask
  <2>4. q \in {NoRequest} \cup Request /\ q.document \in 0..Len(documents)
    BY <1>1, <2>2
  <2> QED
    BY <1>3, <2>3, <2>4
<1>7. ASSUME NEW r \in Requests, NEW d \in DOMAIN documents, Delete(r, d) \/ Transfer(r, d)
      PROVE  LibraryTypes'
  <2>1. PICK kind \in {"delete", "transfer"} :
          /\ requests' = [requests EXCEPT ![r] = [kind |-> kind, at |-> "role", key |-> "none",
                                                  title |-> "none", document |-> d,
                                                  reached |-> now]]
          /\ UNCHANGED <<documents, keyRows, now>>
    BY <1>7 DEF Delete, Transfer, Ask
  <2>2. PICK q : q = [kind |-> kind, at |-> "role", key |-> "none", title |-> "none",
                      document |-> d, reached |-> now]
    OBVIOUS
  <2>3. q \in Request /\ q.document = d
    BY <1>1, <2>2 DEF Request
  <2>4. requests' = [requests EXCEPT ![r] = q]
    BY <2>1, <2>2
  <2>5. q \in {NoRequest} \cup Request /\ q.document \in 0..Len(documents)
    BY <1>1, <2>3
  <2> QED
    BY <1>3, <2>1, <2>4, <2>5
<1>8. ASSUME NEW r \in Requests, FindIdempotencyRecord(r)
      PROVE  LibraryTypes'
  <2>1. requests[r] \in Request /\ requests[r].kind = "post"
    BY <1>8, RequestFacts DEF FindIdempotencyRecord
  <2>2. UNCHANGED <<documents, keyRows, now>>
    BY <1>8 DEF FindIdempotencyRecord
  <2>3. CASE \E at \in {"refused", "create"} : GoOn(r, at)
    BY <1>1, <1>4, <2>1, <2>2, <2>3
  <2>4. CASE \E row \in Replayable(requests[r].key, requests[r].title) :
               requests' = [requests EXCEPT ![r].at = "reply", ![r].document = row.document]
    <3>1. PICK row \in keyRows :
            requests' = [requests EXCEPT ![r].at = "reply", ![r].document = row.document]
      BY <2>4 DEF Replayable
    <3>2. row.document \in 1..Len(documents)
      BY <1>1
    <3>3. PICK q : q = [requests[r] EXCEPT !.at = "reply", !.document = row.document]
      OBVIOUS
    <3>4. q \in Request /\ q.document = row.document
      <4>1. row.document \in Nat \ {0}
        BY <1>1, <3>2
      <4> QED
        BY <2>1, <3>3, <4>1 DEF Request
    <3>5. requests' = [requests EXCEPT ![r] = q]
      BY <3>1, <3>3
    <3>6. q \in {NoRequest} \cup Request /\ q.document \in 0..Len(documents)
      BY <1>1, <3>2, <3>4
    <3> QED
      BY <1>3, <2>2, <3>5, <3>6
  <2> QED
    BY <1>8, <2>3, <2>4 DEF FindIdempotencyRecord
<1>9. ASSUME NEW r \in Requests, CreateDocument(r)
      PROVE  LibraryTypes'
  <2>1. requests[r] \in Request /\ requests[r].kind = "post" /\ requests[r].title \in Titles
    BY <1>9, RequestFacts DEF CreateDocument
  <2>2. PICK doc \in Document, n \in Nat \ {0} :
          /\ n = Len(documents) + 1
          /\ documents' = Append(documents, doc) /\ UNCHANGED <<keyRows, now>>
          /\ requests' = [requests EXCEPT ![r].at = "save", ![r].document = n]
    <3>1. PICK t \in Begun(r) :
            documents' = Append(documents, [updated |-> t, title |-> requests[r].title,
                                            open |-> TRUE, mine |-> TRUE])
      BY <1>9 DEF CreateDocument
    <3>2. t \in Nat
      BY <2>1, BegunFacts
    <3>3. [updated |-> t, title |-> requests[r].title, open |-> TRUE, mine |-> TRUE] \in Document
      BY <2>1, <3>2 DEF Document
    <3>4. Len(documents) + 1 \in Nat \ {0}
      BY <1>1
    <3>5. /\ UNCHANGED <<keyRows, now>>
          /\ requests' = [requests EXCEPT ![r].at = "save", ![r].document = Len(documents) + 1]
      BY <1>9 DEF CreateDocument
    <3> QED
      BY <3>1, <3>3, <3>4, <3>5
  <2>3. doc \in Document /\ n \in Nat \ {0}
    OBVIOUS
  <2>4. /\ documents' = Append(documents, doc) /\ UNCHANGED <<keyRows, now>>
        /\ requests' = [requests EXCEPT ![r].at = "save", ![r].document = n]
    BY <2>2
  <2>5. /\ documents' \in Seq(Document) /\ Len(documents') = n
        /\ DOMAIN documents' = DOMAIN documents \cup {n}
    BY <1>1, <2>2, <2>3, <2>4, AppendIsNext
  <2>6. PICK q : q = [requests[r] EXCEPT !.at = "save", !.document = n]
    OBVIOUS
  <2>7. q \in Request /\ q.document = n
    BY <2>1, <2>3, <2>6 DEF Request
  <2>8. requests' = [requests EXCEPT ![r] = q]
    BY <2>4, <2>6
  <2>9. q \in {NoRequest} \cup Request /\ q.document \in 0..Len(documents')
    BY <2>3, <2>5, <2>7
  <2>10. /\ Len(documents) <= Len(documents') /\ keyRows' \subseteq Row
         /\ \A row \in keyRows' : row.document \in DOMAIN documents'
         /\ \A s, t \in keyRows' : s.key = t.key => s = t
    BY <1>1, <2>2, <2>4, <2>5
  <2> QED
    BY <2>4, <2>5, <2>8, <2>9, <2>10, RequestTypes
<1>10. ASSUME NEW r \in Requests, SaveIdempotencyRecord(r)
      PROVE  LibraryTypes'
  <2>1. /\ requests[r] \in Request /\ requests[r].key \in Keys /\ requests[r].title \in Titles
        /\ requests[r].document \in DOMAIN documents
    BY <1>10, RequestFacts DEF SaveIdempotencyRecord
  <2>2. PICK row : row = [key |-> requests[r].key, title |-> requests[r].title,
                          document |-> requests[r].document, fresh |-> TRUE]
    OBVIOUS
  <2>3. row \in Row /\ row.document = requests[r].document /\ row.key = requests[r].key
    BY <1>1, <2>1, <2>2 DEF Row
  <2>4. keyRows' = IF \E s \in keyRows : s.key = requests[r].key THEN keyRows
                   ELSE keyRows \cup {row}
    BY <1>10, <2>2 DEF SaveIdempotencyRecord, Saved
  <2> QED
    BY <1>1, <1>4, <1>10, <2>1, <2>3, <2>4 DEF SaveIdempotencyRecord
<1>11. ASSUME NEW r \in Requests, RoleOfOwner(r)
       PROVE  LibraryTypes'
  <2>1. requests[r] \in Request /\ requests[r].kind # "post"
    BY <1>11, RequestFacts DEF RoleOfOwner, Request
  <2> QED
    BY <1>1, <1>4, <1>11, <2>1 DEF RoleOfOwner
<1>12. ASSUME NEW r \in Requests,
              UpdateDocumentTitle(r) \/ TransferOwnership(r) \/ RevokeDocumentAccess(r)
       PROVE  LibraryTypes'
  <2>1. /\ requests[r] \in Request /\ requests[r].document \in DOMAIN documents
        /\ requests[r].kind # "post" /\ UNCHANGED <<keyRows, now>>
    BY <1>12, DocumentWritten
  <2>2. PICK d \in DOMAIN documents : d = requests[r].document
    BY <2>1
  <2>3. PICK doc \in Document : documents' = [documents EXCEPT ![d] = doc]
    BY <1>12, <2>2, DocumentWritten
  <2>4. documents' \in Seq(Document) /\ Len(documents') = Len(documents)
        /\ DOMAIN documents' = DOMAIN documents
    BY <1>1, <2>3
  <2>5. PICK at \in {"reply", "refused"} : GoOn(r, at)
    BY <1>12, DocumentWritten
  <2>10. PICK q : q = [requests[r] EXCEPT !.at = at, !.reached = now]
    OBVIOUS
  <2>6. q \in Request /\ q.document = requests[r].document
    BY <1>1, <2>1, <2>10 DEF Request
  <2>7. q \in {NoRequest} \cup Request /\ q.document \in 0..Len(documents')
    BY <1>1, <2>1, <2>4, <2>6
  <2>8. requests' = [requests EXCEPT ![r] = q]
    BY <2>5, <2>10 DEF GoOn
  <2>9. /\ Len(documents) <= Len(documents') /\ keyRows' \subseteq Row
        /\ \A row \in keyRows' : row.document \in DOMAIN documents'
        /\ \A s, t \in keyRows' : s.key = t.key => s = t
    BY <1>1, <2>1, <2>4
  <2> QED
    BY <2>1, <2>4, <2>7, <2>8, <2>9, RequestTypes
<1>13. ASSUME NEW r \in Requests, Reply(r) \/ RequestFails(r)
       PROVE  LibraryTypes'
  <2>1. requests' = [requests EXCEPT ![r] = NoRequest] /\ UNCHANGED <<documents, keyRows, now>>
    BY <1>13 DEF Reply, RequestFails
  <2>2. NoRequest.document \in 0..Len(documents)
    BY <1>1 DEF NoRequest
  <2> QED
    BY <1>3, <2>1, <2>2
<1>14. ASSUME NEW row \in keyRows, KeyAges(row)
       PROVE  LibraryTypes'
  <2>1. PICK old : old = [row EXCEPT !.fresh = FALSE]
    OBVIOUS
  <2>2. old \in Row /\ old.key = row.key /\ old.document = row.document
    BY <1>1, <2>1 DEF Row
  <2>3. keyRows' = (keyRows \ {row}) \cup {old} /\ UNCHANGED <<documents, requests, now>>
    BY <1>14, <2>1 DEF KeyAges
  <2> QED
    BY <1>1, <2>2, <2>3 DEF LibraryTypes
<1>15. CASE WalkStarts \/ NextPage \/ Tick \/ (AccountsNext /\ UNCHANGED library)
  BY <1>1, <1>2, <1>15 DEF WalkStarts, NextPage, Tick, library
<1> QED
  BY <1>5, <1>6, <1>7, <1>8, <1>9, <1>10, <1>11, <1>12, <1>13, <1>14, <1>15 DEF LibraryNext

-----------------------------------------------------------------------------
(* The keys *)

\* A key none of whose requests, rows and results a step touches is accounted for
\* as it was.
LEMMA KeyKept ==
  ASSUME NEW key, Accounted(key), Asking(key)' = Asking(key),
         \A r \in Asking(key) : requests'[r] = requests[r],
         RowsOf(key)' = RowsOf(key),
         \A m \in made' : m.key = key => m \in made,
         made \subseteq made',
         \A p \in replies' : p.key = key => p \in replies
  PROVE  Accounted(key)'
<1>1. \A r \in Asking(key)' :
        /\ requests'[r].at = "create" => \A m \in made' : m.key # key
        /\ requests'[r].at = "save" =>
             RowsOf(key)' = {} /\ [key |-> key, document |-> requests'[r].document] \in made'
        /\ requests'[r].at = "reply" =>
             \E row \in RowsOf(key)' :
               row.title = requests'[r].title /\ row.document = requests'[r].document
  BY DEF Accounted
<1>2. /\ \A row \in RowsOf(key)' : row.fresh /\ [key |-> key, document |-> row.document] \in made'
      /\ \A m \in made' : m.key = key =>
           \/ \E row \in RowsOf(key)' : row.document = m.document
           \/ \E r \in Asking(key)' : requests'[r].at = "save" /\ requests'[r].document = m.document
  BY DEF Accounted
<1>3. /\ \A r, s \in Asking(key)' : r = s
      /\ \A p \in replies' : p.key = key =>
           \E row \in RowsOf(key)' : row.title = p.title /\ row.document = p.document
  BY DEF Accounted
<1> QED
  BY <1>1, <1>2, <1>3 DEF Accounted

\* A request that is not about the key, before and after the step, is not asking.
LEMMA AskingKept ==
  ASSUME LibraryTypes, NEW key, NEW r \in Requests, NEW q,
         requests' = [requests EXCEPT ![r] = q],
         ~(requests[r].kind = "post" /\ requests[r].key = key),
         ~(q.kind = "post" /\ q.key = key)
  PROVE  /\ Asking(key)' = Asking(key)
         /\ \A s \in Asking(key) : requests'[s] = requests[s]
<1>1. \A s \in Requests : s # r => requests'[s] = requests[s]
  BY DEF LibraryTypes
<1>2. requests'[r] = q
  BY DEF LibraryTypes
<1> QED
  BY <1>1, <1>2 DEF Asking

\* A second request with a key, next to the first, mars the key.
LEMMA PostKeepsKeys ==
  ASSUME LibraryTypes, KeysAccounted, NEW r \in Requests, NEW k \in Keys, NEW title \in Titles,
         Post(r, k, title)
  PROVE  KeysAccounted'
<1> SUFFICES ASSUME NEW key \in Keys, key \notin marred' PROVE Accounted(key)'
  BY DEF KeysAccounted
<1>1. PICK q : q = [kind |-> "post", at |-> "find", key |-> k, title |-> title, document |-> 0,
                    reached |-> now]
  OBVIOUS
<1>2. /\ requests' = [requests EXCEPT ![r] = q] /\ requests[r] = NoRequest
      /\ UNCHANGED <<keyRows, made, replies>>
      /\ marred' = IF AskedWith(k) = {} THEN marred ELSE marred \cup {k}
  BY <1>1 DEF Post, Ask
<1>3. Accounted(key) /\ RowsOf(key)' = RowsOf(key)
  BY <1>2 DEF KeysAccounted, RowsOf
<1>4. requests[r].kind = "none" /\ q.kind = "post" /\ q.key = k /\ q.at = "find"
  BY <1>1, <1>2 DEF NoRequest
<1>5. CASE key # k
  BY <1>2, <1>3, <1>4, <1>5, AskingKept, KeyKept
<1>6. CASE key = k
  <2>1. AskedWith(k) = {}
    BY <1>2, <1>6
  <2>2. Asking(key) = {}
    BY <1>6, <2>1 DEF Asking, AskedWith
  <2>3. Asking(key)' = {r} /\ requests'[r] = q
    <3>1. requests'[r] = q /\ \A s \in Requests : s # r => requests'[s] = requests[s]
      BY <1>2 DEF LibraryTypes
    <3> QED
      BY <1>4, <1>6, <2>2, <3>1 DEF Asking
  <2> QED
    BY <1>2, <1>3, <1>4, <2>2, <2>3 DEF Accounted
<1> QED
  BY <1>5, <1>6

\* With no row of the key and no other request, nothing was made for the key; with
\* one, the row names what was made.
LEMMA FindKeepsKeys ==
  ASSUME LibraryTypes, KeysAccounted, NEW r \in Requests, FindIdempotencyRecord(r)
  PROVE  KeysAccounted'
<1> SUFFICES ASSUME NEW key \in Keys, key \notin marred' PROVE Accounted(key)'
  BY DEF KeysAccounted
<1>1. /\ UNCHANGED <<keyRows, made, replies, marred>> /\ requests[r].at = "find"
      /\ requests[r].kind = "post" /\ requests[r] \in Request
  BY RequestFacts DEF FindIdempotencyRecord
<1>2. Accounted(key) /\ RowsOf(key)' = RowsOf(key)
  BY <1>1 DEF KeysAccounted, RowsOf
<1>3. PICK q : /\ requests' = [requests EXCEPT ![r] = q]
               /\ q.kind = requests[r].kind /\ q.key = requests[r].key
               /\ q.title = requests[r].title
               /\ \/ /\ q.at = "reply"
                     /\ \E row \in Replayable(q.key, q.title) : q.document = row.document
                  \/ q.at = "refused"
                  \/ q.at = "create" /\ {row \in keyRows : row.key = q.key /\ row.fresh} = {}
  <2>1. CASE \E row \in Replayable(requests[r].key, requests[r].title) :
               requests' = [requests EXCEPT ![r].at = "reply", ![r].document = row.document]
    <3>1. PICK row \in Replayable(requests[r].key, requests[r].title) :
            requests' = [requests EXCEPT ![r].at = "reply", ![r].document = row.document]
      BY <2>1
    <3>2. PICK q : q = [requests[r] EXCEPT !.at = "reply", !.document = row.document]
      OBVIOUS
    <3>3. /\ q.kind = requests[r].kind /\ q.key = requests[r].key /\ q.title = requests[r].title
          /\ q.at = "reply" /\ q.document = row.document
      BY <1>1, <3>2 DEF Request
    <3>4. requests' = [requests EXCEPT ![r] = q]
      BY <3>1, <3>2
    <3> QED
      BY <3>1, <3>3, <3>4
  <2>2. CASE \E at \in {"refused", "create"} :
               /\ GoOn(r, at)
               /\ at = "create" =>
                    {row \in keyRows : row.key = requests[r].key /\ row.fresh} = {}
    <3>1. PICK at \in {"refused", "create"} :
               /\ GoOn(r, at)
               /\ at = "create" =>
                    {row \in keyRows : row.key = requests[r].key /\ row.fresh} = {}
      BY <2>2
    <3>2. PICK q : q = [requests[r] EXCEPT !.at = at, !.reached = now]
      OBVIOUS
    <3>3. /\ q.kind = requests[r].kind /\ q.key = requests[r].key /\ q.title = requests[r].title
          /\ q.at = at
      BY <1>1, <3>2 DEF Request
    <3>4. requests' = [requests EXCEPT ![r] = q]
      BY <3>1, <3>2 DEF GoOn
    <3> QED
      BY <3>1, <3>3, <3>4
  <2> QED
    BY <2>1, <2>2 DEF FindIdempotencyRecord
<1>4. CASE requests[r].key # key
  BY <1>1, <1>2, <1>3, <1>4, AskingKept, KeyKept
<1>5. CASE requests[r].key = key
  <2>1. Asking(key) = {r}
    BY <1>1, <1>2, <1>5 DEF Asking, Accounted
  <2>2. Asking(key)' = {r} /\ requests'[r] = q
    <3>1. requests'[r] = q /\ \A s \in Requests : s # r => requests'[s] = requests[s]
      BY <1>3 DEF LibraryTypes
    <3> QED
      BY <1>1, <1>3, <1>5, <2>1, <3>1 DEF Asking
  <2>3. \A m \in made : m.key = key => \E row \in RowsOf(key) : row.document = m.document
    BY <1>1, <1>2, <2>1 DEF Accounted
  <2>4. q.at = "create" => \A m \in made : m.key # key
    <3>1. q.at = "create" => {row \in keyRows : row.key = q.key /\ row.fresh} = {}
      BY <1>3
    <3>2. \A row \in RowsOf(key) : row.fresh
      BY <1>2 DEF Accounted
    <3>3. q.at = "create" => RowsOf(key) = {}
      BY <1>3, <1>5, <3>1, <3>2 DEF RowsOf
    <3> QED
      BY <2>3, <3>3
  <2>5. q.at = "reply" => \E row \in RowsOf(key) : row.title = q.title /\ row.document = q.document
    BY <1>3, <1>5 DEF Replayable, RowsOf
  <2>6. q.at \in {"reply", "refused", "create"}
    BY <1>3
  <2> QED
    BY <1>1, <1>2, <2>1, <2>2, <2>3, <2>4, <2>5, <2>6 DEF Accounted
<1> QED
  BY <1>4, <1>5

\* The document made for a key is in the hands of the request that made it.
LEMMA CreateKeepsKeys ==
  ASSUME LibraryTypes, KeysAccounted, NEW r \in Requests, CreateDocument(r)
  PROVE  KeysAccounted'
<1> SUFFICES ASSUME NEW key \in Keys, key \notin marred' PROVE Accounted(key)'
  BY DEF KeysAccounted
<1>1. /\ UNCHANGED <<keyRows, replies, marred>> /\ requests[r].at = "create"
      /\ requests[r].kind = "post" /\ requests[r] \in Request
  BY RequestFacts DEF CreateDocument
<1>2. Accounted(key) /\ RowsOf(key)' = RowsOf(key)
  BY <1>1 DEF KeysAccounted, RowsOf
<1>3. PICK n : n = Len(documents) + 1
  OBVIOUS
<1>4. PICK q : q = [requests[r] EXCEPT !.at = "save", !.document = n]
  OBVIOUS
<1>5. /\ requests' = [requests EXCEPT ![r] = q]
      /\ q.kind = "post" /\ q.key = requests[r].key /\ q.at = "save" /\ q.document = n
  BY <1>1, <1>3, <1>4 DEF CreateDocument, Request
<1>6. PICK new : new = [key |-> requests[r].key, document |-> n]
  OBVIOUS
<1>7. new.key = requests[r].key /\ new.document = n
  BY <1>6
<1>8. made' = made \cup {new}
  BY <1>3, <1>6 DEF CreateDocument
<1>9. CASE requests[r].key # key
  <2>1. \A m \in made' : m.key = key => m \in made
    BY <1>7, <1>8, <1>9
  <2>2. made \subseteq made'
    BY <1>8
  <2>3. ~(requests[r].kind = "post" /\ requests[r].key = key) /\ ~(q.kind = "post" /\ q.key = key)
    BY <1>5, <1>9
  <2>4. Asking(key)' = Asking(key) /\ \A s \in Asking(key) : requests'[s] = requests[s]
    BY <1>5, <2>3, AskingKept
  <2> QED
    BY <1>1, <1>2, <2>1, <2>2, <2>4, KeyKept
<1>10. CASE requests[r].key = key
  <2>1. Asking(key) = {r}
    BY <1>1, <1>2, <1>10 DEF Asking, Accounted
  <2>2. Asking(key)' = {r} /\ requests'[r] = q
    <3>1. requests'[r] = q /\ \A s \in Requests : s # r => requests'[s] = requests[s]
      BY <1>5 DEF LibraryTypes
    <3> QED
      BY <1>1, <1>5, <1>10, <2>1, <3>1 DEF Asking
  <2>3. \A m \in made : m.key # key
    BY <1>1, <1>2, <2>1 DEF Accounted
  <2>4. RowsOf(key) = {}
    <3>1. \A row \in RowsOf(key) : [key |-> key, document |-> row.document] \in made
      BY <1>2 DEF Accounted
    <3> QED
      BY <2>3, <3>1
  <2>5. \A m \in made' : m.key = key => m = new
    BY <1>8, <2>3
  <2> QED
    BY <1>1, <1>2, <1>5, <1>7, <1>6, <1>8, <1>10, <2>1, <2>2, <2>3, <2>4, <2>5 DEF Accounted
<1> QED
  BY <1>9, <1>10

\* The row of the key takes over what the request has in hand.
LEMMA SaveKeepsKeys ==
  ASSUME LibraryTypes, KeysAccounted, NEW r \in Requests, SaveIdempotencyRecord(r)
  PROVE  KeysAccounted'
<1> SUFFICES ASSUME NEW key \in Keys, key \notin marred' PROVE Accounted(key)'
  BY DEF KeysAccounted
<1>1. /\ UNCHANGED <<made, replies, marred>> /\ requests[r].at = "save"
      /\ requests[r].kind = "post" /\ requests[r] \in Request
  BY RequestFacts DEF SaveIdempotencyRecord
<1>2. Accounted(key)
  BY <1>1 DEF KeysAccounted
<1>3. PICK q : q = [requests[r] EXCEPT !.at = "reply", !.reached = now]
  OBVIOUS
<1>4. /\ requests' = [requests EXCEPT ![r] = q]
      /\ q.kind = "post" /\ q.key = requests[r].key /\ q.at = "reply"
      /\ q.title = requests[r].title /\ q.document = requests[r].document
  BY <1>1, <1>3 DEF SaveIdempotencyRecord, GoOn, Request
<1>5. PICK new : new = [key |-> q.key, title |-> q.title, document |-> q.document, fresh |-> TRUE]
  OBVIOUS
<1>6. new.key = q.key /\ new.title = q.title /\ new.document = q.document /\ new.fresh = TRUE
  BY <1>5
<1>7. keyRows' = IF \E row \in keyRows : row.key = q.key THEN keyRows ELSE keyRows \cup {new}
  BY <1>4, <1>5 DEF SaveIdempotencyRecord, Saved
<1>8. CASE q.key # key
  <2>1. RowsOf(key)' = RowsOf(key)
    BY <1>6, <1>7, <1>8 DEF RowsOf
  <2>2. Asking(key)' = Asking(key) /\ \A s \in Asking(key) : requests'[s] = requests[s]
    BY <1>4, <1>8, AskingKept
  <2> QED
    BY <1>1, <1>2, <2>1, <2>2, KeyKept
<1>9. CASE q.key = key
  <2>1. Asking(key) = {r}
    BY <1>1, <1>2, <1>4, <1>9 DEF Asking, Accounted
  <2>2. Asking(key)' = {r} /\ requests'[r] = q
    <3>1. requests'[r] = q /\ \A s \in Requests : s # r => requests'[s] = requests[s]
      BY <1>4 DEF LibraryTypes
    <3> QED
      BY <1>1, <1>4, <1>9, <2>1, <3>1 DEF Asking
  <2>3. RowsOf(key) = {} /\ [key |-> key, document |-> q.document] \in made
    BY <1>1, <1>2, <1>4, <2>1 DEF Accounted
  <2>4. RowsOf(key)' = {new}
    BY <1>6, <1>7, <1>9, <2>3 DEF RowsOf
  <2>5. \A m \in made : m.key = key => m.document = new.document
    BY <1>2, <1>4, <1>6, <2>1, <2>3 DEF Accounted
  <2>6. \A p \in replies : p.key # key
    BY <1>2, <2>3 DEF Accounted
  <2> QED
    BY <1>1, <1>4, <1>6, <2>2, <2>3, <2>4, <2>5, <2>6 DEF Accounted
<1> QED
  BY <1>8, <1>9

\* An answer repeats the row of the key; a request that breaks off with a document
\* in hand mars the key.
LEMMA EndKeepsKeys ==
  ASSUME LibraryTypes, KeysAccounted, NEW r \in Requests, Reply(r) \/ RequestFails(r)
  PROVE  KeysAccounted'
<1> SUFFICES ASSUME NEW key \in Keys, key \notin marred' PROVE Accounted(key)'
  BY DEF KeysAccounted
<1>1. /\ UNCHANGED <<keyRows, made>> /\ marred \subseteq marred'
      /\ requests' = [requests EXCEPT ![r] = NoRequest] /\ requests[r].at # "none"
      /\ requests[r].at = "save" => requests[r].key \in marred'
      /\ requests[r].at \in {"reply", "refused"} \/ UNCHANGED replies
  BY DEF Reply, RequestFails
<1>2. Accounted(key) /\ RowsOf(key)' = RowsOf(key)
  BY <1>1 DEF KeysAccounted, RowsOf
<1>3. requests[r] \in Request
  BY <1>1, RequestFacts
<1>4. PICK new : new = [key |-> requests[r].key, title |-> requests[r].title,
                        document |-> requests[r].document]
  OBVIOUS
<1>5. /\ new.key = requests[r].key /\ new.title = requests[r].title
      /\ new.document = requests[r].document
  BY <1>4
<1>6. /\ replies' \subseteq replies \cup {new}
      /\ replies' = replies \/ (requests[r].kind = "post" /\ requests[r].at = "reply")
  BY <1>4 DEF Reply, RequestFails
<1>7. NoRequest.kind = "none"
  BY DEF NoRequest
<1>8. CASE ~(requests[r].kind = "post" /\ requests[r].key = key)
  <2>1. Asking(key)' = Asking(key) /\ \A s \in Asking(key) : requests'[s] = requests[s]
    BY <1>1, <1>7, <1>8, AskingKept
  <2>2. \A p \in replies' : p.key = key => p \in replies
    BY <1>5, <1>6, <1>8
  <2> QED
    BY <1>1, <1>2, <2>1, <2>2, KeyKept
<1>9. CASE requests[r].kind = "post" /\ requests[r].key = key
  <2>1. Asking(key) = {r}
    BY <1>2, <1>9 DEF Asking, Accounted
  <2>2. Asking(key)' = {}
    <3>1. requests'[r] = NoRequest /\ \A s \in Requests : s # r => requests'[s] = requests[s]
      BY <1>1 DEF LibraryTypes
    <3> QED
      BY <1>7, <2>1, <3>1 DEF Asking
  <2>3. requests[r].at # "save"
    BY <1>1, <1>9
  <2>4. \A m \in made : m.key = key => \E row \in RowsOf(key) : row.document = m.document
    BY <1>2, <2>1, <2>3 DEF Accounted
  <2>5. \A p \in replies' : p.key = key =>
          \E row \in RowsOf(key) : row.title = p.title /\ row.document = p.document
    BY <1>2, <1>5, <1>6, <2>1 DEF Accounted
  <2> QED
    BY <1>1, <1>2, <2>2, <2>4, <2>5 DEF Accounted
<1> QED
  BY <1>8, <1>9

\* What a key made and what it answered carry the key, and the answers the title.
LEMMA ResultsStep ==
  ASSUME LibraryTypes, ResultTypes, LibraryNext
  PROVE  ResultTypes'
<1>1. ASSUME NEW r \in Requests, CreateDocument(r)
      PROVE  ResultTypes'
  <2>1. requests[r].key \in Keys
    BY <1>1, RequestFacts DEF CreateDocument
  <2>2. Len(documents) + 1 \in Nat
    BY DocumentFacts
  <2> QED
    BY <1>1, <2>1, <2>2 DEF ResultTypes, CreateDocument
<1>2. ASSUME NEW r \in Requests, Reply(r)
      PROVE  ResultTypes'
  <2>1. requests[r] \in Request
    BY <1>2, RequestFacts DEF Reply
  <2>2. requests[r].kind = "post" => /\ requests[r].key \in Keys /\ requests[r].title \in Titles
                                     /\ requests[r].document \in Nat
    BY <2>1 DEF Request
  <2> QED
    BY <1>2, <2>2 DEF ResultTypes, Reply
<1>3. CASE UNCHANGED <<made, replies>>
  BY <1>3 DEF ResultTypes
<1>4. \/ UNCHANGED <<made, replies>>
      \/ \E r \in Requests : CreateDocument(r) \/ Reply(r)
  BY DEF LibraryNext, library, Post, Delete, Transfer, Rename, FindIdempotencyRecord,
         SaveIdempotencyRecord, RoleOfOwner, UpdateDocumentTitle, TransferOwnership,
         RevokeDocumentAccess, RequestFails, KeyAges, WalkStarts, NextPage, Tick
<1> QED
  BY <1>1, <1>2, <1>3, <1>4

\* Every step keeps the keys that are not marred accounted for.
LEMMA KeysStep ==
  ASSUME LibraryTypes, KeysAccounted, LibraryNext
  PROVE  KeysAccounted'
<1>1. ASSUME NEW r \in Requests, NEW q, requests' = [requests EXCEPT ![r] = q],
             requests[r].kind # "post", q.kind # "post",
             UNCHANGED <<keyRows, made, replies, marred>>
      PROVE  KeysAccounted'
  <2> SUFFICES ASSUME NEW key \in Keys, key \notin marred' PROVE Accounted(key)'
    BY DEF KeysAccounted
  <2>1. Accounted(key) /\ RowsOf(key)' = RowsOf(key)
    BY <1>1 DEF KeysAccounted, RowsOf
  <2>2. Asking(key)' = Asking(key) /\ \A s \in Asking(key) : requests'[s] = requests[s]
    BY <1>1, AskingKept
  <2> QED
    BY <1>1, <2>1, <2>2, KeyKept
<1>2. ASSUME NEW r \in Requests, NEW d \in DOMAIN documents, Delete(r, d) \/ Transfer(r, d)
      PROVE  KeysAccounted'
  <2>1. PICK kind \in {"delete", "transfer"} :
          /\ requests' = [requests EXCEPT ![r] = [kind |-> kind, at |-> "role", key |-> "none",
                                                  title |-> "none", document |-> d,
                                                  reached |-> now]]
          /\ requests[r].kind = "none" /\ UNCHANGED <<keyRows, made, replies, marred>>
    BY <1>2 DEF Delete, Transfer, Ask, NoRequest
  <2>2. PICK q : q = [kind |-> kind, at |-> "role", key |-> "none", title |-> "none",
                      document |-> d, reached |-> now]
    OBVIOUS
  <2>3. requests' = [requests EXCEPT ![r] = q] /\ q.kind # "post" /\ requests[r].kind # "post"
    BY <2>1, <2>2
  <2> QED
    BY <1>1, <2>1, <2>3
<1>3. ASSUME NEW r \in Requests, NEW d \in DOMAIN documents, NEW title \in Titles,
             Rename(r, d, title)
      PROVE  KeysAccounted'
  <2>1. PICK q : q = [kind |-> "rename", at |-> "role", key |-> "none", title |-> title,
                      document |-> d, reached |-> now]
    OBVIOUS
  <2>2. /\ requests' = [requests EXCEPT ![r] = q] /\ q.kind = "rename"
        /\ requests[r].kind = "none" /\ UNCHANGED <<keyRows, made, replies, marred>>
    BY <1>3, <2>1 DEF Rename, Ask, NoRequest
  <2> QED
    BY <1>1, <2>2
<1>4. ASSUME NEW r \in Requests,
             \/ RoleOfOwner(r)
             \/ UpdateDocumentTitle(r) \/ TransferOwnership(r) \/ RevokeDocumentAccess(r)
      PROVE  KeysAccounted'
  <2>1. PICK at : GoOn(r, at)
    BY <1>4, DocumentWritten DEF RoleOfOwner
  <2>2. UNCHANGED <<keyRows, made, replies, marred>>
    BY <1>4 DEF RoleOfOwner, UpdateDocumentTitle, TransferOwnership, RevokeDocumentAccess
  <2>3. requests[r] \in Request /\ requests[r].kind # "post"
    BY <1>4, RequestFacts, DocumentWritten DEF RoleOfOwner, Request
  <2>4. PICK q : q = [requests[r] EXCEPT !.at = at, !.reached = now]
    OBVIOUS
  <2>5. q.kind = requests[r].kind /\ requests' = [requests EXCEPT ![r] = q]
    BY <2>1, <2>3, <2>4 DEF GoOn, Request
  <2> QED
    BY <1>1, <2>2, <2>3, <2>5
<1>5. ASSUME NEW row \in keyRows, KeyAges(row)
      PROVE  KeysAccounted'
  <2> SUFFICES ASSUME NEW key \in Keys, key \notin marred' PROVE Accounted(key)'
    BY DEF KeysAccounted
  <2>1. PICK old : old = [row EXCEPT !.fresh = FALSE]
    OBVIOUS
  <2>2. row \in Row
    BY DEF LibraryTypes
  <2>3. old.key = row.key
    BY <2>1, <2>2 DEF Row
  <2>4. /\ keyRows' = (keyRows \ {row}) \cup {old} /\ marred' = marred \cup {row.key}
        /\ UNCHANGED <<requests, made, replies>>
    BY <1>5, <2>1 DEF KeyAges
  <2>5. key # row.key /\ Accounted(key)
    BY <2>4 DEF KeysAccounted
  <2>6. RowsOf(key)' = RowsOf(key) /\ Asking(key)' = Asking(key)
    BY <2>3, <2>4, <2>5 DEF RowsOf, Asking
  <2> QED
    BY <2>4, <2>5, <2>6, KeyKept
<1>6. ASSUME UNCHANGED <<requests, keyRows, made, replies, marred>>
      PROVE  KeysAccounted'
  <2> SUFFICES ASSUME NEW key \in Keys, key \notin marred' PROVE Accounted(key)'
    BY DEF KeysAccounted
  <2>1. Accounted(key) /\ RowsOf(key)' = RowsOf(key) /\ Asking(key)' = Asking(key)
    BY <1>6 DEF KeysAccounted, RowsOf, Asking
  <2> QED
    BY <1>6, <2>1, KeyKept
<1>7. CASE WalkStarts \/ NextPage \/ Tick \/ (AccountsNext /\ UNCHANGED library)
  BY <1>6, <1>7 DEF WalkStarts, NextPage, Tick, library
<1> QED
  BY <1>2, <1>3, <1>4, <1>5, <1>7, PostKeepsKeys, FindKeepsKeys, CreateKeepsKeys, SaveKeepsKeys,
     EndKeepsKeys DEF LibraryNext

\* What is accounted for is one document and one answer.
LEMMA KeysSafe ==
  ASSUME LibraryTypes, KeysAccounted, ResultTypes
  PROVE  KeyHonoured
<1> SUFFICES ASSUME NEW key \in Keys \ marred
             PROVE  /\ \A m, n \in made : m.key = key /\ n.key = key => m = n
                    /\ \A p, q \in replies : p.key = key /\ q.key = key => p = q
                    /\ \A p \in replies : p.key = key =>
                         [key |-> key, document |-> p.document] \in made
  BY DEF KeyHonoured
<1>1. Accounted(key)
  BY DEF KeysAccounted
<1>2. \A s, t \in RowsOf(key) : s = t
  BY DEF RowsOf, LibraryTypes
<1>3. \A m \in made : m.key = key => m = [key |-> key, document |-> m.document]
  BY DEF ResultTypes
<1>4. \A m, n \in made : m.key = key /\ n.key = key => m.document = n.document
  <2>1. CASE RowsOf(key) = {}
    BY <1>1, <2>1 DEF Accounted
  <2>2. CASE RowsOf(key) # {}
    <3>1. \A m \in made : m.key = key => \E row \in RowsOf(key) : row.document = m.document
      BY <1>1, <2>2 DEF Accounted
    <3> QED
      BY <1>2, <3>1
  <2> QED
    BY <2>1, <2>2
<1>5. \A m, n \in made : m.key = key /\ n.key = key => m = n
  BY <1>3, <1>4
<1>6. \A p \in replies : p.key = key =>
        p = [key |-> key, title |-> p.title, document |-> p.document]
  BY DEF ResultTypes
<1>7. \A p, q \in replies : p.key = key /\ q.key = key =>
        p.title = q.title /\ p.document = q.document
  BY <1>1, <1>2 DEF Accounted
<1>8. \A p, q \in replies : p.key = key /\ q.key = key => p = q
  BY <1>6, <1>7
<1>9. \A p \in replies : p.key = key => [key |-> key, document |-> p.document] \in made
  <2>1. \A row \in RowsOf(key) : [key |-> key, document |-> row.document] \in made
    BY <1>1 DEF Accounted
  <2> QED
    BY <1>1, <2>1 DEF Accounted
<1> QED
  BY <1>5, <1>8, <1>9

-----------------------------------------------------------------------------
(* The order of a listing *)

\* How many elements of S come before d.
Before(S, R, d) == {e \in S : <<e, d>> \in R}

\* In a finite, strictly ordered set each place is taken by one element.
LEMMA Places ==
  ASSUME NEW S, IsFiniteSet(S), NEW R,
         \A x \in S : <<x, x>> \notin R,
         \A x, y, z \in S : <<x, y>> \in R /\ <<y, z>> \in R => <<x, z>> \in R,
         \A x, y \in S : x = y \/ <<x, y>> \in R \/ <<y, x>> \in R
  PROVE  /\ Cardinality(S) \in Nat
         /\ \A d \in S : Cardinality(Before(S, R, d)) \in 0..Cardinality(S) - 1
         /\ \A x, y \in S : <<x, y>> \in R =>
              Cardinality(Before(S, R, x)) < Cardinality(Before(S, R, y))
         /\ \A i \in 0..Cardinality(S) - 1 : \E d \in S : Cardinality(Before(S, R, d)) = i
<1> DEFINE n == Cardinality(S)
           place == [d \in S |-> Cardinality(Before(S, R, d))]
<1>1. n \in Nat
  BY FS_CardinalityType
<1>2. \A T \in SUBSET S : /\ IsFiniteSet(T) /\ Cardinality(T) \in Nat /\ Cardinality(T) <= n
                          /\ T # S => Cardinality(T) < n
  <2> SUFFICES ASSUME NEW T \in SUBSET S
               PROVE  /\ IsFiniteSet(T) /\ Cardinality(T) \in Nat /\ Cardinality(T) <= n
                      /\ T # S => Cardinality(T) < n
    OBVIOUS
  <2>1. IsFiniteSet(T) /\ Cardinality(T) <= n /\ (n = Cardinality(T) => S = T)
    BY FS_Subset
  <2>2. Cardinality(T) \in Nat
    BY <2>1, FS_CardinalityType
  <2> QED
    BY <1>1, <2>1, <2>2
<1>3. ASSUME NEW d \in S PROVE Cardinality(Before(S, R, d)) \in 0..n - 1
  <2>1. Before(S, R, d) \in SUBSET S /\ d \notin Before(S, R, d)
    BY DEF Before
  <2>2. Before(S, R, d) # S
    BY <2>1
  <2>3. Cardinality(Before(S, R, d)) \in Nat /\ Cardinality(Before(S, R, d)) < n
    BY <1>2, <2>1, <2>2
  <2> QED
    BY <1>1, <2>3
<1>4. ASSUME NEW x \in S, NEW y \in S, <<x, y>> \in R
      PROVE  Cardinality(Before(S, R, x)) < Cardinality(Before(S, R, y))
  <2>1. Before(S, R, x) \in SUBSET Before(S, R, y)
    BY <1>4 DEF Before
  <2>2. x \in Before(S, R, y) /\ x \notin Before(S, R, x)
    BY <1>4 DEF Before
  <2>3. Before(S, R, x) \in SUBSET S /\ Before(S, R, y) \in SUBSET S
    BY DEF Before
  <2>4. IsFiniteSet(Before(S, R, y)) /\ Cardinality(Before(S, R, y)) \in Nat
        /\ Cardinality(Before(S, R, x)) \in Nat
    BY <1>2, <2>3
  <2>5. /\ Cardinality(Before(S, R, x)) <= Cardinality(Before(S, R, y))
        /\ Cardinality(Before(S, R, y)) = Cardinality(Before(S, R, x)) =>
             Before(S, R, y) = Before(S, R, x)
    BY <2>1, <2>4, FS_Subset
  <2> QED
    BY <2>2, <2>4, <2>5
<1>5. place \in [S -> 0..n - 1]
  BY <1>3
<1>6. \A x, y \in S : x # y => place[x] # place[y]
  <2> SUFFICES ASSUME NEW x \in S, NEW y \in S, x # y PROVE place[x] # place[y]
    OBVIOUS
  <2>1. Cardinality(Before(S, R, x)) \in Nat /\ Cardinality(Before(S, R, y)) \in Nat
    BY <1>1, <1>3
  <2>2. CASE <<x, y>> \in R
    BY <1>4, <2>1, <2>2
  <2>3. CASE <<y, x>> \in R
    BY <1>4, <2>1, <2>3
  <2> QED
    BY <2>2, <2>3
<1>7. place \in Injection(S, 0..n - 1)
  BY <1>5, <1>6 DEF Injection, IsInjective
<1>8. IsFiniteSet(0..n - 1) /\ Cardinality(0..n - 1) = n
  <2>1. PICK m \in Int : m = n - 1
    BY <1>1
  <2>2. IsFiniteSet(0..m) /\ Cardinality(0..m) = IF 0 > m THEN 0 ELSE m - 0 + 1
    BY FS_Interval
  <2> QED
    BY <1>1, <2>1, <2>2
<1>9. place \in Surjection(S, 0..n - 1)
  BY <1>7, <1>8, FS_Injection
<1>10. \A i \in 0..n - 1 : \E d \in S : Cardinality(Before(S, R, d)) = i
  BY <1>9 DEF Surjection
<1> QED
  BY <1>1, <1>3, <1>4, <1>10

\* The times of documents are numbers.
LEMMA TimeFacts ==
  ASSUME LibraryTypes, NEW d \in DOMAIN documents
  PROVE  d \in Nat \ {0} /\ documents[d].updated \in Nat
BY DocumentFacts DEF Document

\* ORDER BY updated_at DESC, id DESC lists each document it finds once, the newer
\* ones first.
LEMMA ListedInOrder ==
  ASSUME LibraryTypes, NEW found \in SUBSET DOMAIN documents
  PROVE  /\ Cardinality(found) \in Nat
         /\ Listed(found) \in [1..Cardinality(found) -> found]
         /\ \A i, j \in 1..Cardinality(found) : i < j => Newer(Listed(found)[i], Listed(found)[j])
         /\ \A i, j \in 1..Cardinality(found) : i # j => Listed(found)[i] # Listed(found)[j]
         /\ \A d \in found : \E i \in 1..Cardinality(found) : Listed(found)[i] = d
<1> DEFINE n == Cardinality(found)
           R == {p \in found \X found : Newer(p[1], p[2])}
<1>1. \A x \in found : x \in Nat \ {0} /\ documents[x].updated \in Nat
  BY TimeFacts
<1>2. IsFiniteSet(found)
  <2>1. IsFiniteSet(DOMAIN documents)
    BY DocumentFacts, FS_Interval
  <2> QED
    BY <2>1, FS_Subset
<1>3. \A x, y \in found : <<x, y>> \in R <=> Newer(x, y)
  OBVIOUS
<1>4. /\ \A x \in found : ~Newer(x, x)
      /\ \A x, y, z \in found : Newer(x, y) /\ Newer(y, z) => Newer(x, z)
      /\ \A x, y \in found : x = y \/ Newer(x, y) \/ Newer(y, x)
      /\ \A x, y \in found : ~(Newer(x, y) /\ Newer(y, x))
  BY <1>1 DEF Newer
<1>5. \A d \in found : Before(found, R, d) = {e \in found : Newer(e, d)}
  BY <1>3 DEF Before
<1> HIDE DEF R
<1>6. /\ n \in Nat
      /\ \A d \in found : Cardinality(Before(found, R, d)) \in 0..n - 1
      /\ \A x, y \in found : <<x, y>> \in R =>
           Cardinality(Before(found, R, x)) < Cardinality(Before(found, R, y))
      /\ \A i \in 0..n - 1 : \E d \in found : Cardinality(Before(found, R, d)) = i
  BY <1>2, <1>3, <1>4, Places
<1>7. ASSUME NEW i \in 1..n
      PROVE  Listed(found)[i] \in found
             /\ Cardinality(Before(found, R, Listed(found)[i])) = i - 1
  <2>1. i - 1 \in 0..n - 1
    BY <1>6
  <2>2. \E d \in found : Cardinality({e \in found : Newer(e, d)}) = i - 1
    BY <1>5, <1>6, <2>1
  <2>3. Listed(found)[i] = CHOOSE d \in found : Cardinality({e \in found : Newer(e, d)}) = i - 1
    BY DEF Listed
  <2>4. Listed(found)[i] \in found
        /\ Cardinality({e \in found : Newer(e, Listed(found)[i])}) = i - 1
    BY <2>2, <2>3
  <2> QED
    BY <1>5, <2>4
<1>8. Listed(found) \in [1..n -> found]
  <2> DEFINE f == [i \in 1..n |->
                    CHOOSE d \in found : Cardinality({e \in found : Newer(e, d)}) = i - 1]
  <2>1. Listed(found) = f
    BY DEF Listed
  <2>2. \A i \in 1..n : f[i] \in found
    BY <1>7, <2>1
  <2>3. f \in [1..n -> found]
    BY <2>2
  <2> QED
    BY <2>1, <2>3
<1>9. \A i, j \in 1..n : i # j => Listed(found)[i] # Listed(found)[j]
  <2> SUFFICES ASSUME NEW i \in 1..n, NEW j \in 1..n, i # j, Listed(found)[i] = Listed(found)[j]
               PROVE  FALSE
    OBVIOUS
  <2> QED
    BY <1>6, <1>7
<1>10. \A i, j \in 1..n : i < j => Newer(Listed(found)[i], Listed(found)[j])
  <2> SUFFICES ASSUME NEW i \in 1..n, NEW j \in 1..n, i < j
               PROVE  Newer(Listed(found)[i], Listed(found)[j])
    OBVIOUS
  <2>1. PICK x, y : x = Listed(found)[i] /\ y = Listed(found)[j]
    OBVIOUS
  <2>2. /\ x \in found /\ y \in found
        /\ Cardinality(Before(found, R, x)) = i - 1 /\ Cardinality(Before(found, R, y)) = j - 1
    BY <1>7, <2>1
  <2>3. x # y /\ ~Newer(y, x)
    <3>1. CASE Newer(y, x)
      <4>1. Cardinality(Before(found, R, y)) < Cardinality(Before(found, R, x))
        BY <1>3, <1>6, <2>2, <3>1
      <4> QED
        BY <2>2, <4>1
    <3> QED
      BY <2>2, <3>1
  <2> QED
    BY <1>4, <2>1, <2>2, <2>3
<1>11. ASSUME NEW d \in found PROVE \E i \in 1..n : Listed(found)[i] = d
  <2>1. PICK i \in 1..n : Cardinality(Before(found, R, d)) = i - 1
    <3>1. Cardinality(Before(found, R, d)) + 1 \in 1..n
      BY <1>6
    <3>2. Cardinality(Before(found, R, d)) \in Int
      BY <1>6
    <3> QED
      BY <3>1, <3>2
  <2>2. Listed(found)[i] \in found /\ Cardinality(Before(found, R, Listed(found)[i])) = i - 1
    BY <1>7
  <2>3. PICK e \in found : e = Listed(found)[i] /\ Cardinality(Before(found, R, e)) = i - 1
    BY <2>2
  <2>4. ~(Cardinality(Before(found, R, d)) < Cardinality(Before(found, R, e)))
        /\ ~(Cardinality(Before(found, R, e)) < Cardinality(Before(found, R, d)))
    BY <2>1, <2>3
  <2>5. <<d, e>> \notin R /\ <<e, d>> \notin R
    BY <1>6, <2>4
  <2> QED
    BY <1>3, <1>4, <2>3, <2>5
<1> QED
  BY <1>6, <1>8, <1>9, <1>10, <1>11

\* A Date drops less than a millisecond.
LEMMA Floor ==
  ASSUME NEW t \in Nat
  PROVE  /\ Millisecond(t) \in Nat
         /\ Millisecond(t) * PartsPerMs \in Nat
         /\ Millisecond(t) * PartsPerMs <= t
         /\ t < (Millisecond(t) + 1) * PartsPerMs
BY LibraryAssumption DEF Millisecond

\* Milliseconds are in the order of the times, and so are whole ones.
LEMMA WholeInOrder ==
  ASSUME NEW a \in Nat, NEW b \in Nat
  PROVE  /\ a <= b => a * PartsPerMs <= b * PartsPerMs
         /\ a < b => (a + 1) * PartsPerMs <= b * PartsPerMs
<1>1. PartsPerMs \in Nat
  BY LibraryAssumption
<1>2. ASSUME NEW x \in Nat, NEW y \in Nat, x <= y
      PROVE  x * PartsPerMs <= y * PartsPerMs
  <2>1. PICK k \in Nat : y = x + k
    BY <1>2, y - x \in Nat
  <2>2. y * PartsPerMs = x * PartsPerMs + k * PartsPerMs
    BY <1>1, <2>1
  <2>3. k * PartsPerMs \in Nat /\ x * PartsPerMs \in Nat
    BY <1>1
  <2> QED
    BY <2>2, <2>3
<1>3. a < b => a + 1 <= b
  OBVIOUS
<1> QED
  BY <1>2, <1>3

-----------------------------------------------------------------------------
(* The walk *)

\* A step that gives no document another time leaves the walk as it was.
LEMMA CloseKeepsWalk ==
  ASSUME LibraryTypes, WalkInv, UNCHANGED walk, DOMAIN documents' = DOMAIN documents,
         \A d \in DOMAIN documents :
           /\ documents'[d].updated = documents[d].updated
           /\ documents'[d] = documents[d] \/ ~documents'[d].open
  PROVE  WalkInv'
<1>1. WalkTypes /\ TimesKnown /\ PagesKept
  BY DEF WalkInv
<1>2. WalkTypes'
  BY <1>1 DEF WalkTypes
<1>3. TimesKnown'
  BY <1>1 DEF TimesKnown
<1>4. \A d \in DOMAIN documents : Below(d, walk.cursor)' <=> Below(d, walk.cursor)
  BY DEF Below
<1>5. \A d : AloneInItsMillisecond(d)' <=> AloneInItsMillisecond(d)
  BY DEF AloneInItsMillisecond, Millisecond
<1>6. DOMAIN walk.since \subseteq DOMAIN documents
      /\ \A i \in DOMAIN walk.shown : walk.shown[i] \in DOMAIN documents
  BY <1>1 DEF WalkTypes
<1>7. walk.at = "page" =>
        \A i \in DOMAIN walk.shown :
          walk.shown[i] \in walk.setBack \/ ~Below(walk.shown[i], walk.cursor)'
  BY <1>1, <1>4, <1>6 DEF PagesKept
<1>8. ASSUME NEW d \in DOMAIN walk.since, walk.at \in {"page", "done"},
             walk.since[d].open, documents'[d] = walk.since[d], AloneInItsMillisecond(d)
      PROVE  \/ \E i \in DOMAIN walk.shown : walk.shown[i] = d
             \/ walk.at = "page" /\ Below(d, walk.cursor)'
  <2>1. documents[d] = walk.since[d]
    BY <1>6, <1>8
  <2> QED
    BY <1>1, <1>4, <1>6, <1>8, <2>1 DEF PagesKept
<1>9. PagesKept'
  BY <1>1, <1>5, <1>7, <1>8 DEF PagesKept
<1> QED
  BY <1>2, <1>3, <1>9 DEF WalkInv

\* One document is given a time, or is new.
LEMMA StampKeepsWalk ==
  ASSUME LibraryTypes, WalkInv, NEW c \in Nat, NEW t \in Nat, Stamped(c, t),
         DOMAIN documents' = DOMAIN documents \cup {c},
         documents'[c].updated = t,
         \A d \in DOMAIN documents : d # c => documents'[d] = documents[d]
  PROVE  WalkInv'
<1>1. WalkTypes /\ TimesKnown /\ PagesKept /\ walk \in Walk
  BY DEF WalkInv, WalkTypes
<1>2. PICK back : /\ back = IF c \in DOMAIN documents /\ t < documents[c].updated
                             THEN walk.setBack \cup {c} ELSE walk.setBack
  OBVIOUS
<1>3. walk' = [walk EXCEPT !.written = walk.written \cup {t}, !.setBack = back]
  BY <1>2 DEF Stamped
<1>4. /\ walk'.at = walk.at /\ walk'.cursor = walk.cursor /\ walk'.shown = walk.shown
      /\ walk'.since = walk.since /\ walk'.written = walk.written \cup {t}
      /\ walk'.setBack = back /\ walk' \in Walk
  <2>1. back \in SUBSET Nat
    BY <1>1, <1>2 DEF Walk
  <2>2. walk.written \cup {t} \in SUBSET Nat
    BY <1>1 DEF Walk
  <2> QED
    BY <1>1, <1>3, <2>1, <2>2 DEF Walk
<1>5. walk.setBack \subseteq back
  BY <1>2
<1>6. /\ DOMAIN walk.since \subseteq DOMAIN documents
      /\ \A i \in DOMAIN walk.shown : walk.shown[i] \in DOMAIN documents
  BY <1>1 DEF WalkTypes
<1>7. WalkTypes'
  BY <1>4, <1>6 DEF WalkTypes
<1>8. TimesKnown'
  <2> SUFFICES ASSUME walk.at # "none", NEW d \in DOMAIN documents \cup {c}
               PROVE  \/ /\ d \in DOMAIN walk.since
                         /\ documents'[d].updated = walk.since[d].updated
                      \/ documents'[d].updated \in walk.written \cup {t}
    BY <1>4 DEF TimesKnown
  <2> QED
    BY <1>1 DEF TimesKnown
<1>9. ASSUME NEW d \in DOMAIN documents, ~Below(d, walk.cursor), d \notin back
      PROVE  ~Below(d, walk.cursor)'
  <2>1. CASE d # c
    BY <1>4, <1>9, <2>1 DEF Below
  <2>2. CASE d = c
    <3>1. PICK u \in Nat : u = documents[d].updated
      BY TimeFacts
    <3>2. u <= t
      BY <1>2, <1>9, <2>2, <3>1
    <3>3. PICK w \in Nat : w = walk.cursor.ms * PartsPerMs
      BY <1>1, LibraryAssumption DEF Walk
    <3>4. walk.cursor # NoCursor /\ ~(u < w) /\ ~(u = w /\ d < walk.cursor.id)
      BY <1>9, <3>1, <3>3 DEF Below
    <3>5. ~(t < w) /\ ~(t = w /\ d < walk.cursor.id)
      BY <3>2, <3>4
    <3> QED
      BY <1>4, <2>2, <3>3, <3>4, <3>5 DEF Below
  <2> QED
    BY <2>1, <2>2
<1>10. ASSUME NEW d, AloneInItsMillisecond(d)'
       PROVE  AloneInItsMillisecond(d) /\ Millisecond(t) # Millisecond(walk.since[d].updated)
  BY <1>4, <1>10 DEF AloneInItsMillisecond, Millisecond
<1>11. \A i, j \in DOMAIN walk.shown :
         i # j /\ walk.shown[i] = walk.shown[j] => walk.shown[i] \in back
  BY <1>1, <1>5 DEF PagesKept
<1>12. walk.at = "page" =>
         \A i \in DOMAIN walk.shown :
           walk.shown[i] \in back \/ ~Below(walk.shown[i], walk.cursor)'
  <2> SUFFICES ASSUME walk.at = "page", NEW i \in DOMAIN walk.shown, walk.shown[i] \notin back
               PROVE  ~Below(walk.shown[i], walk.cursor)'
    OBVIOUS
  <2>1. PICK d \in DOMAIN documents : d = walk.shown[i]
    BY <1>6
  <2>2. ~Below(d, walk.cursor)
    BY <1>1, <1>5, <2>1 DEF PagesKept
  <2>3. ~Below(d, walk.cursor)'
    BY <1>9, <2>1, <2>2
  <2>4. walk'.shown[i] = d
    BY <1>4, <2>1
  <2> QED
    BY <2>3, <2>4 DEF Below
<1>13. ASSUME NEW d \in DOMAIN walk.since, walk.at \in {"page", "done"},
              walk.since[d].open, documents'[d] = walk.since[d], AloneInItsMillisecond(d)'
       PROVE  \/ \E i \in DOMAIN walk.shown : walk.shown[i] = d
              \/ walk.at = "page" /\ Below(d, walk.cursor)'
  <2>1. AloneInItsMillisecond(d) /\ d # c
    BY <1>10, <1>13
  <2>2. documents[d] = walk.since[d]
    BY <1>6, <1>13, <2>1
  <2>3. \/ \E i \in DOMAIN walk.shown : walk.shown[i] = d
        \/ walk.at = "page" /\ Below(d, walk.cursor)
    BY <1>1, <1>13, <2>1, <2>2 DEF PagesKept
  <2>4. Below(d, walk.cursor)' <=> Below(d, walk.cursor)
    <3>1. documents'[d] = documents[d] /\ walk'.cursor = walk.cursor
      BY <1>4, <1>13, <2>2
    <3> QED
      BY <3>1 DEF Below
  <2> QED
    BY <2>3, <2>4
<1>14. PagesKept'
  BY <1>4, <1>11, <1>12, <1>13 DEF PagesKept
<1> QED
  BY <1>7, <1>8, <1>14 DEF WalkInv

\* A new walk has shown nothing, and everything is below its cursor.
LEMMA StartKeepsWalk ==
  ASSUME LibraryTypes, WalkInv, WalkStarts
  PROVE  WalkInv'
<1>1. documents \in Seq(Document)
  BY DEF LibraryTypes
<1>2. PICK w : w = [NoWalk EXCEPT !.at = "page", !.since = documents]
  OBVIOUS
<1>3. /\ w.at = "page" /\ w.cursor = NoCursor /\ w.shown = <<>> /\ w.since = documents
      /\ w \in Walk
  <2>1. NoCursor \in [ms : Nat, id : Nat]
    BY DEF NoCursor
  <2>2. /\ w.at = "page" /\ w.cursor = NoCursor /\ w.shown = <<>> /\ w.since = documents
    BY <1>2 DEF NoWalk
  <2>3. NoWalk \in Walk
    BY <2>1 DEF NoWalk, Walk
  <2>4. w \in Walk
    BY <1>1, <1>2, <2>3 DEF Walk
  <2> QED
    BY <2>2, <2>4
<1>4. walk' = w /\ UNCHANGED documents
  BY <1>2 DEF WalkStarts
<1>5. WalkTypes' /\ TimesKnown'
  BY <1>3, <1>4 DEF WalkTypes, TimesKnown
<1>6. PagesKept'
  BY <1>3, <1>4 DEF PagesKept, Below
<1> QED
  BY <1>5, <1>6 DEF WalkInv

\* A later time is in no earlier millisecond.
LEMMA FloorInOrder ==
  ASSUME NEW s \in Nat, NEW t \in Nat, s <= t
  PROVE  Millisecond(s) <= Millisecond(t)
<1>1. /\ Millisecond(s) \in Nat /\ Millisecond(t) \in Nat
      /\ Millisecond(s) * PartsPerMs <= s /\ t < (Millisecond(t) + 1) * PartsPerMs
  BY Floor
<1>2. Millisecond(s) * PartsPerMs \in Nat /\ (Millisecond(t) + 1) * PartsPerMs \in Nat
  BY <1>1, LibraryAssumption
<1>3. ASSUME Millisecond(t) < Millisecond(s)
      PROVE  FALSE
  <2>1. (Millisecond(t) + 1) * PartsPerMs <= Millisecond(s) * PartsPerMs
    BY <1>1, <1>3, WholeInOrder
  <2> QED
    BY <1>1, <1>2, <2>1
<1> QED
  BY <1>1, <1>3

\* The next cursor: what was not below the old one, and the page up to its last
\* document, is not below it; what comes after in an earlier millisecond is.
LEMMA CursorMoves ==
  ASSUME LibraryTypes, NEW c \in [ms : Nat, id : Nat], NEW last \in DOMAIN documents,
         Below(last, c), NEW d \in DOMAIN documents
  PROVE  /\ CursorOf(last) \in [ms : Nat, id : Nat] /\ CursorOf(last) # NoCursor
         /\ ~Below(d, c) => ~Below(d, CursorOf(last))
         /\ d = last \/ Newer(d, last) => ~Below(d, CursorOf(last))
         /\ Newer(last, d)
              /\ Millisecond(documents[d].updated) < Millisecond(documents[last].updated)
              => Below(d, CursorOf(last))
<1>1. PICK u, v, m, n : /\ u = documents[d].updated /\ v = documents[last].updated
                        /\ m = Millisecond(v) /\ n = c.ms * PartsPerMs
  OBVIOUS
<1>2. /\ u \in Nat /\ v \in Nat /\ d \in Nat \ {0} /\ last \in Nat \ {0}
      /\ m \in Nat /\ n \in Nat /\ c.id \in Nat
  <2>1. u \in Nat /\ v \in Nat /\ d \in Nat \ {0} /\ last \in Nat \ {0}
    BY <1>1, TimeFacts
  <2>2. m \in Nat
    BY <1>1, <2>1, Floor
  <2>3. c.ms \in Nat /\ c.id \in Nat
    OBVIOUS
  <2> QED
    BY <1>1, <2>1, <2>2, <2>3, LibraryAssumption
<1>3. PICK w \in Nat : w = m * PartsPerMs /\ w <= v
  BY <1>1, <1>2, Floor
<1>4. /\ CursorOf(last) \in [ms : Nat, id : Nat] /\ CursorOf(last) # NoCursor
      /\ CursorOf(last).id = last /\ CursorOf(last).ms = m
  BY <1>1, <1>2 DEF CursorOf, NoCursor
<1>5. Below(d, CursorOf(last)) <=> u < w \/ (u = w /\ d < last)
  BY <1>1, <1>3, <1>4 DEF Below
<1>6. ~Below(d, c) => ~Below(d, CursorOf(last))
  <2>1. c # NoCursor => (Below(d, c) <=> u < n \/ (u = n /\ d < c.id))
    BY <1>1 DEF Below
  <2>2. c # NoCursor => v < n \/ (v = n /\ last < c.id)
    BY <1>1 DEF Below
  <2>3. c = NoCursor => Below(d, c)
    BY DEF Below
  <2> QED
    BY <1>2, <1>3, <1>5, <2>1, <2>2, <2>3
<1>7. d = last \/ Newer(d, last) => ~Below(d, CursorOf(last))
  <2>1. Newer(d, last) <=> u > v \/ (u = v /\ d > last)
    BY <1>1 DEF Newer
  <2>2. d = last => u = v
    BY <1>1
  <2> QED
    BY <1>2, <1>3, <1>5, <2>1, <2>2
<1>8. ASSUME Millisecond(u) < m PROVE u < w
  <2>1. /\ Millisecond(u) \in Nat /\ u < (Millisecond(u) + 1) * PartsPerMs
    BY <1>2, Floor
  <2>2. (Millisecond(u) + 1) * PartsPerMs <= w
    BY <1>2, <1>3, <1>8, <2>1, WholeInOrder
  <2>3. (Millisecond(u) + 1) * PartsPerMs \in Nat
    BY <2>1, LibraryAssumption
  <2> QED
    BY <1>2, <1>3, <2>1, <2>2, <2>3
<1> QED
  BY <1>1, <1>4, <1>5, <1>6, <1>7, <1>8

\* A document that stayed as it was, alone in its millisecond, is in an earlier one
\* than every document listed before it.
LEMMA AloneIsEarlier ==
  ASSUME LibraryTypes, WalkInv, walk.at # "none", NEW d \in DOMAIN walk.since,
         documents[d] = walk.since[d], AloneInItsMillisecond(d),
         NEW e \in DOMAIN documents, Newer(e, d)
  PROVE  Millisecond(documents[d].updated) < Millisecond(documents[e].updated)
<1>1. WalkTypes /\ TimesKnown
  BY DEF WalkInv
<1>2. d \in DOMAIN documents
  BY <1>1 DEF WalkTypes
<1>3. PICK u \in Nat, v \in Nat : u = documents[d].updated /\ v = documents[e].updated
  BY <1>2, TimeFacts
<1>4. u <= v /\ e # d
  BY <1>2, <1>3, TimeFacts DEF Newer
<1>5. /\ Millisecond(u) \in Nat /\ Millisecond(v) \in Nat
      /\ Millisecond(u) <= Millisecond(v)
  BY <1>3, <1>4, Floor, FloorInOrder
<1>6. u = walk.since[d].updated
  BY <1>3
<1>7. Millisecond(v) # Millisecond(u)
  <2>1. CASE e \in DOMAIN walk.since /\ v = walk.since[e].updated
    BY <1>4, <1>6, <2>1 DEF AloneInItsMillisecond
  <2>2. CASE v \in walk.written
    BY <1>6, <2>2 DEF AloneInItsMillisecond
  <2> QED
    BY <1>1, <1>3, <2>1, <2>2 DEF TimesKnown
<1> QED
  BY <1>3, <1>5, <1>7

\* listDocumentsForUser(): the page is the next documents below the cursor.
LEMMA PageKeepsWalk ==
  ASSUME LibraryTypes, WalkInv, NextPage
  PROVE  WalkInv'
<1>1. WalkTypes /\ TimesKnown /\ PagesKept /\ PageSize \in Nat \ {0}
      /\ UNCHANGED <<documents, now>> /\ walk.at = "page"
  BY LibraryAssumption DEF WalkInv, NextPage
<1>2. PICK found : found = {d \in OpenDocuments : Below(d, walk.cursor)}
  OBVIOUS
<1>3. found \in SUBSET DOMAIN documents /\ \A d \in found : Below(d, walk.cursor)
  BY <1>2 DEF OpenDocuments
<1>4. PICK rows, n : rows = Listed(found) /\ n = Cardinality(found)
  OBVIOUS
<1>5. /\ n \in Nat /\ rows \in [1..n -> found]
      /\ \A i, j \in 1..n : i < j => Newer(rows[i], rows[j])
      /\ \A i, j \in 1..n : i # j => rows[i] # rows[j]
      /\ \A d \in found : \E i \in 1..n : rows[i] = d
  BY <1>3, <1>4, ListedInOrder
<1>6. found \subseteq Nat
  BY <1>3, DocumentFacts
<1>7. rows \in Seq(Nat) /\ Len(rows) = n
  <2>1. rows \in [1..n -> Nat]
    BY <1>5, <1>6
  <2> QED
    BY <1>5, <2>1
<1>8. PICK page : page = IF n > PageSize THEN SubSeq(rows, 1, PageSize) ELSE rows
  OBVIOUS
<1>9. PICK p \in Nat : p = IF n > PageSize THEN PageSize ELSE n
  BY <1>1, <1>5
<1>10. /\ page \in Seq(Nat) /\ Len(page) = p /\ p <= n
       /\ \A i \in 1..p : page[i] = rows[i]
  BY <1>1, <1>5, <1>7, <1>8, <1>9
<1>11. walk' = [walk EXCEPT !.at = IF n > PageSize THEN "page" ELSE "done",
                            !.cursor = IF n > PageSize THEN CursorOf(page[PageSize]) ELSE @,
                            !.shown = @ \o page]
  BY <1>2, <1>4, <1>7, <1>8 DEF NextPage
<1>12. /\ walk'.since = walk.since /\ walk'.written = walk.written
       /\ walk'.setBack = walk.setBack
       /\ walk'.at = IF n > PageSize THEN "page" ELSE "done"
       /\ walk'.cursor = IF n > PageSize THEN CursorOf(page[PageSize]) ELSE walk.cursor
       /\ walk'.shown = walk.shown \o page
  BY <1>1, <1>11 DEF WalkTypes, Walk
<1>13. /\ walk.shown \in Seq(Nat) /\ walk.cursor \in [ms : Nat, id : Nat]
       /\ walk.since \in Seq(Document)
  BY <1>1 DEF WalkTypes, Walk
<1>14. PICK m \in Nat : m = Len(walk.shown)
  BY <1>13
<1>15. m \in Nat /\ p \in Nat /\ n \in Nat /\ p <= n
  BY <1>5, <1>10
<1>16. /\ walk'.shown \in Seq(Nat) /\ DOMAIN walk'.shown = 1..m + p
       /\ DOMAIN walk.shown = 1..m
       /\ \A i \in 1..m : walk'.shown[i] = walk.shown[i]
       /\ \A i \in m + 1..m + p : walk'.shown[i] = rows[i - m] /\ i - m \in 1..p
  <2>1. PICK s \in Seq(Nat) : s = walk.shown
    BY <1>13
  <2>2. walk'.shown = s \o page /\ Len(s) = m /\ Len(page) = p
    BY <1>10, <1>12, <1>14, <2>1
  <2>3. /\ s \o page \in Seq(Nat) /\ DOMAIN (s \o page) = 1..m + p /\ DOMAIN s = 1..m
        /\ \A i \in 1..m : (s \o page)[i] = s[i]
        /\ \A i \in m + 1..m + p : (s \o page)[i] = page[i - m]
    <3>1. s \o page \in Seq(Nat) /\ Len(s \o page) = m + p
      <4>1. page \in Seq(Nat) /\ s \in Seq(Nat)
        BY <1>10, <2>1
      <4>2. s \o page \in Seq(Nat) /\ Len(s \o page) = Len(s) + Len(page)
        BY <4>1
      <4> QED
        BY <2>2, <4>2
    <3>2. DOMAIN (s \o page) = 1..m + p /\ DOMAIN s = 1..m
      BY <2>2, <3>1
    <3>3. \A i \in 1..m + p : (s \o page)[i] = IF i <= m THEN s[i] ELSE page[i - m]
      BY <1>10, <2>2
    <3>4. \A i \in 1..m : i \in 1..m + p /\ i <= m
      BY <1>15
    <3>5. \A i \in m + 1..m + p : i \in 1..m + p /\ ~(i <= m)
      BY <1>15
    <3> QED
      BY <3>1, <3>2, <3>3, <3>4, <3>5
  <2>4. \A i \in m + 1..m + p : i - m \in 1..p
    BY <1>15
  <2> QED
    BY <1>10, <2>1, <2>2, <2>3, <2>4
<1>17. ASSUME n > PageSize
       PROVE  page[PageSize] = rows[PageSize] /\ rows[PageSize] \in found
              /\ rows[PageSize] \in DOMAIN documents /\ Below(rows[PageSize], walk.cursor)
  BY <1>1, <1>3, <1>5, <1>9, <1>10, <1>17
<1>18. WalkTypes'
  <2>1. walk'.cursor \in [ms : Nat, id : Nat]
    BY <1>12, <1>13, <1>17, CursorMoves
  <2>2. walk' \in Walk
    BY <1>1, <1>11, <1>12, <1>16, <2>1 DEF WalkTypes, Walk
  <2>3. \A i \in 1..m + p : walk'.shown[i] \in DOMAIN documents
    <3>1. \A i \in 1..m : walk'.shown[i] \in DOMAIN documents
      BY <1>1, <1>16 DEF WalkTypes
    <3>2. \A i \in m + 1..m + p : walk'.shown[i] \in DOMAIN documents
      BY <1>3, <1>5, <1>10, <1>16
    <3>3. \A i \in 1..m + p : i \in 1..m \/ i \in m + 1..m + p
      BY <1>14
    <3> QED
      BY <3>1, <3>2, <3>3
  <2> QED
    BY <1>1, <1>12, <1>16, <2>2, <2>3 DEF WalkTypes
<1>19. TimesKnown'
  BY <1>1, <1>12 DEF TimesKnown
<1>20. \A i \in 1..m : /\ walk.shown[i] \in DOMAIN documents
                       /\ walk.shown[i] \in walk.setBack \/ ~Below(walk.shown[i], walk.cursor)
  BY <1>1, <1>16 DEF PagesKept, WalkTypes
<1>21. \A i, j \in 1..m + p :
         i # j /\ walk'.shown[i] = walk'.shown[j] => walk'.shown[i] \in walk.setBack
  <2> SUFFICES ASSUME NEW i \in 1..m + p, NEW j \in 1..m + p, i < j,
                      walk'.shown[i] \notin walk.setBack
               PROVE  walk'.shown[i] # walk'.shown[j]
    OBVIOUS
  <2>1. CASE j \in 1..m
    <3>1. i \in 1..m /\ i # j
      BY <1>15, <2>1
    <3> QED
      BY <1>1, <1>16, <2>1, <3>1 DEF PagesKept
  <2>2. CASE i \in 1..m /\ j \in m + 1..m + p
    BY <1>3, <1>5, <1>10, <1>16, <1>20, <2>2
  <2>3. CASE i \in m + 1..m + p /\ j \in m + 1..m + p
    <3>1. PICK x \in 1..n, y \in 1..n : x = i - m /\ y = j - m /\ x # y
      <4>1. i - m \in 1..n /\ j - m \in 1..n /\ i - m # j - m
        BY <1>15, <2>3
      <4> QED
        BY <4>1
    <3>2. rows[x] # rows[y]
      BY <1>5, <3>1
    <3> QED
      BY <1>16, <2>3, <3>1, <3>2
  <2>4. i \in 1..m \/ i \in m + 1..m + p
    BY <1>15
  <2>5. j \in 1..m \/ j \in m + 1..m + p
    BY <1>15
  <2>6. i \in m + 1..m + p => j \notin 1..m
    BY <1>15
  <2> QED
    BY <2>1, <2>2, <2>3, <2>4, <2>5, <2>6
<1>22. ASSUME n > PageSize, NEW i \in 1..m + p, walk'.shown[i] \notin walk.setBack
       PROVE  ~Below(walk'.shown[i], CursorOf(rows[PageSize]))
  <2>1. CASE i \in 1..m
    BY <1>13, <1>16, <1>17, <1>20, <1>22, <2>1, CursorMoves
  <2>2. CASE i \in m + 1..m + p
    <3>1. PICK x \in 1..PageSize : x = i - m /\ walk'.shown[i] = rows[x]
      BY <1>9, <1>16, <1>22, <2>2
    <3>2. rows[x] = rows[PageSize] \/ Newer(rows[x], rows[PageSize])
      BY <1>1, <1>5, <1>22
    <3>3. rows[x] \in DOMAIN documents
      BY <1>1, <1>3, <1>5, <1>22
    <3> QED
      BY <1>13, <1>17, <1>22, <3>1, <3>2, <3>3, CursorMoves
  <2> QED
    BY <1>14, <2>1, <2>2
<1>23. ASSUME NEW d \in DOMAIN walk.since, walk.since[d].open, documents[d] = walk.since[d],
              AloneInItsMillisecond(d)
       PROVE  \/ \E i \in 1..m + p : walk'.shown[i] = d
              \/ n > PageSize /\ Below(d, CursorOf(rows[PageSize]))
  <2>1. CASE \E i \in 1..m : walk.shown[i] = d
    <3>1. PICK i \in 1..m : walk.shown[i] = d
      BY <2>1
    <3>2. i \in 1..m + p
      BY <1>15
    <3> QED
      BY <1>16, <3>1, <3>2
  <2>2. CASE Below(d, walk.cursor)
    <3>1. d \in DOMAIN documents /\ d \in found
      BY <1>1, <1>2, <1>23, <2>2 DEF WalkTypes, OpenDocuments
    <3>2. PICK x \in 1..n : rows[x] = d
      BY <1>5, <3>1
    <3>3. CASE x <= p
      <4>1. PICK y \in m + 1..m + p : y \in 1..m + p /\ y - m = x
        <5>1. m + x \in m + 1..m + p /\ m + x \in 1..m + p /\ m + x - m = x
          BY <1>15, <3>3
        <5> QED
          BY <5>1
      <4> QED
        BY <1>16, <3>2, <4>1
    <3>4. CASE ~(x <= p)
      <4>1. n > PageSize /\ PageSize < x
        BY <1>5, <1>9, <3>4
      <4>2. Newer(rows[PageSize], d)
        BY <1>1, <1>5, <3>2, <4>1
      <4>3. Millisecond(documents[d].updated) < Millisecond(documents[rows[PageSize]].updated)
        BY <1>1, <1>17, <1>23, <4>1, <4>2, AloneIsEarlier
      <4> QED
        BY <1>13, <1>17, <3>1, <4>1, <4>2, <4>3, CursorMoves
    <3> QED
      BY <3>3, <3>4
  <2> QED
    BY <1>1, <1>16, <1>23, <2>1, <2>2 DEF PagesKept
<1>24. PagesKept'
  <2>1. \A d : AloneInItsMillisecond(d)' <=> AloneInItsMillisecond(d)
    BY <1>12 DEF AloneInItsMillisecond, Millisecond
  <2>2. \A d : Below(d, CursorOf(rows[PageSize]))' <=> Below(d, CursorOf(rows[PageSize]))
    BY <1>1 DEF Below, CursorOf, Millisecond
  <2>3. /\ DOMAIN walk'.since = DOMAIN walk.since
        /\ n > PageSize => walk'.at = "page" /\ walk'.cursor = CursorOf(rows[PageSize])
        /\ ~(n > PageSize) => walk'.at = "done"
    BY <1>12, <1>17
  <2>4. walk'.at = "page" =>
          \A i \in DOMAIN walk'.shown :
            walk'.shown[i] \in walk.setBack \/ ~Below(walk.shown[i], walk.cursor)'
    BY <1>1, <1>16, <1>22, <2>3 DEF Below
  <2>5. ASSUME NEW d \in DOMAIN walk'.since, walk'.since[d].open,
               documents'[d] = walk'.since[d], AloneInItsMillisecond(d)'
        PROVE  \/ \E i \in DOMAIN walk'.shown : walk'.shown[i] = d
               \/ walk'.at = "page" /\ Below(d, walk.cursor)'
    <3>1. \/ \E i \in 1..m + p : walk'.shown[i] = d
          \/ n > PageSize /\ Below(d, CursorOf(rows[PageSize]))
      BY <1>1, <1>12, <1>23, <2>1, <2>3, <2>5
    <3>2. n > PageSize /\ Below(d, CursorOf(rows[PageSize])) => Below(d, walk.cursor)'
      BY <1>1, <2>3 DEF Below
    <3> QED
      BY <1>16, <2>3, <3>1, <3>2
  <2> QED
    BY <1>12, <1>16, <1>21, <2>4, <2>5 DEF PagesKept
<1> QED
  BY <1>18, <1>19, <1>24 DEF WalkInv

\* The other requests leave the walk alone: a document may be created or renamed
\* now, or closed.
LEMMA WalkStep ==
  ASSUME LibraryTypes, WalkInv, LibraryNext
  PROVE  WalkInv'
<1>1. /\ documents \in Seq(Document) /\ Len(documents) \in Nat /\ now \in Nat
      /\ DOMAIN documents = 1..Len(documents)
      /\ \A d \in DOMAIN documents : documents[d] \in Document
  BY DocumentFacts DEF LibraryTypes
<1>2. ASSUME UNCHANGED <<walk, documents>>
      PROVE  WalkInv'
  BY <1>1, <1>2, CloseKeepsWalk
<1>3. ASSUME NEW r \in Requests, CreateDocument(r)
      PROVE  WalkInv'
  <2>1. requests[r] \in Request
    BY <1>3, RequestFacts DEF CreateDocument
  <2>8. PICK c : c = Len(documents) + 1
    OBVIOUS
  <2>2. PICK t \in Begun(r) :
          /\ documents' = Append(documents, [updated |-> t, title |-> requests[r].title,
                                             open |-> TRUE, mine |-> TRUE])
          /\ Stamped(c, t)
    BY <1>3, <2>8 DEF CreateDocument
  <2>3. PICK new : new = [updated |-> t, title |-> requests[r].title, open |-> TRUE, mine |-> TRUE]
    OBVIOUS
  <2>4. t \in Nat /\ new.updated = t /\ c \in Nat
    BY <1>1, <2>1, <2>2, <2>8, <2>3, BegunFacts
  <2>5. documents' = Append(documents, new) /\ DOMAIN documents' = 1..c
    BY <1>1, <2>2, <2>8, <2>3
  <2>6. /\ documents'[c] = new
        /\ \A d \in 1..Len(documents) : d # c => documents'[d] = documents[d]
    BY <1>1, <2>2, <2>8, <2>5
  <2>7. 1..c = DOMAIN documents \cup {c}
    BY <1>1, <2>2, <2>8
  <2> QED
    BY <1>1, <2>2, <2>4, <2>5, <2>6, <2>7, StampKeepsWalk
<1>4. ASSUME NEW r \in Requests,
             UpdateDocumentTitle(r) \/ TransferOwnership(r) \/ RevokeDocumentAccess(r)
      PROVE  WalkInv'
  <2>1. PICK d \in DOMAIN documents, doc \in Document :
          /\ documents' = [documents EXCEPT ![d] = doc]
          /\ \/ Stamped(d, doc.updated)
             \/ /\ UNCHANGED walk /\ doc.updated = documents[d].updated
                /\ doc = documents[d] \/ ~doc.open
    BY <1>4, DocumentWritten
  <2>2. /\ DOMAIN documents' = DOMAIN documents /\ DOMAIN documents = DOMAIN documents \cup {d}
        /\ documents'[d] = doc
        /\ \A e \in DOMAIN documents : e # d => documents'[e] = documents[e]
    BY <2>1
  <2>3. d \in Nat /\ doc.updated \in Nat
    BY <1>1 DEF Document
  <2>4. CASE Stamped(d, doc.updated)
    BY <2>2, <2>3, <2>4, StampKeepsWalk
  <2>5. CASE UNCHANGED walk /\ doc.updated = documents[d].updated
             /\ (doc = documents[d] \/ ~doc.open)
    BY <2>2, <2>5, CloseKeepsWalk
  <2> QED
    BY <2>1, <2>4, <2>5
<1>7. ASSUME Tick
      PROVE  UNCHANGED <<walk, documents>>
  BY <1>7 DEF Tick
<1>8. ASSUME NEW r \in Requests,
             \/ \E key \in Keys, title \in Titles : Post(r, key, title)
             \/ \E d \in DOMAIN documents :
                  Delete(r, d) \/ Transfer(r, d) \/ \E title \in Titles : Rename(r, d, title)
             \/ FindIdempotencyRecord(r) \/ SaveIdempotencyRecord(r)
             \/ RoleOfOwner(r) \/ Reply(r) \/ RequestFails(r)
      PROVE  UNCHANGED <<walk, documents>>
  BY <1>8 DEF Post, Delete, Transfer, Rename, FindIdempotencyRecord, SaveIdempotencyRecord,
              RoleOfOwner, Reply, RequestFails
<1>9. ASSUME (AccountsNext /\ UNCHANGED library) \/ \E row \in keyRows : KeyAges(row)
      PROVE  UNCHANGED <<walk, documents>>
  BY <1>9 DEF library, KeyAges
<1> QED
  BY <1>2, <1>3, <1>4, <1>7, <1>8, <1>9, StartKeepsWalk, PageKeepsWalk DEF LibraryNext

-----------------------------------------------------------------------------
(* The theorems *)

\* A finite set of times has a latest one.
LEMMA Latest ==
  ASSUME NEW S \in SUBSET Nat, IsFiniteSet(S), S # {}
  PROVE  \E m \in S : \A x \in S : x <= m
<1> DEFINE R == {p \in S \X S : p[1] > p[2]}
<1>1. \A x, y \in S : <<x, y>> \in R <=> x > y
  OBVIOUS
<1>2. /\ \A x \in S : <<x, x>> \notin R
      /\ \A x, y, z \in S : <<x, y>> \in R /\ <<y, z>> \in R => <<x, z>> \in R
      /\ \A x, y \in S : x = y \/ <<x, y>> \in R \/ <<y, x>> \in R
  BY <1>1
<1> HIDE DEF R
<1>3. /\ Cardinality(S) \in Nat
      /\ \A i \in 0..Cardinality(S) - 1 : \E d \in S : Cardinality(Before(S, R, d)) = i
  BY <1>2, Places
<1>4. Cardinality(S) # 0
  BY FS_EmptySet
<1>5. 0 \in 0..Cardinality(S) - 1
  BY <1>3, <1>4
<1>6. PICK m \in S : Cardinality(Before(S, R, m)) = 0
  BY <1>3, <1>5
<1>7. Before(S, R, m) \subseteq S
  BY DEF Before
<1>8. IsFiniteSet(Before(S, R, m))
  BY <1>7, FS_Subset
<1>9. Before(S, R, m) = {}
  BY <1>6, <1>8, FS_EmptySet
<1>10. ASSUME NEW x \in S
       PROVE  x <= m
  <2>1. <<x, m>> \notin R
    BY <1>9 DEF Before
  <2> QED
    BY <1>1, <2>1
<1> QED
  BY <1>6, <1>10

\* At first the documents are those of the shelf, changed in the past, and nothing
\* is under way.
LEMMA LibraryInitInv == LibraryInit => LibraryInv
<1> SUFFICES ASSUME LibraryInit PROVE LibraryInv
  OBVIOUS
<1>1. PICK shelf : shelf = errands.shelf
  OBVIOUS
<1>2. shelf \in Seq(Nat)
  BY <1>1, LibraryAssumption DEF LibraryInit
<1>3. PICK n \in Nat : n = Len(shelf)
  BY <1>2
<1>4. DOMAIN shelf = 1..n /\ \A i \in 1..n : shelf[i] \in Nat
  BY <1>2, <1>3
<1>5. documents = [i \in 1..n |-> [updated |-> shelf[i], title |-> "old", open |-> TRUE,
                                    mine |-> TRUE]]
  BY <1>1, <1>4 DEF LibraryInit
<1>6. \A i \in 1..n : documents[i] \in Document /\ documents[i].updated = shelf[i]
  BY <1>4, <1>5 DEF Document
<1>7. documents \in Seq(Document) /\ DOMAIN documents = 1..n /\ Len(documents) = n
  <2>1. documents \in [1..n -> Document]
    BY <1>5, <1>6
  <2> QED
    BY <1>3, <2>1
<1>8. PICK S : S = {0} \cup {documents[i].updated : i \in DOMAIN documents}
  OBVIOUS
<1>9. S \in SUBSET Nat /\ 0 \in S /\ \A i \in DOMAIN documents : documents[i].updated \in S
  BY <1>4, <1>6, <1>7, <1>8
<1>10. IsFiniteSet(S)
  <2>1. IsFiniteSet(1..n)
    BY <1>3, FS_Interval
  <2>2. PICK T : T = {documents[i].updated : i \in 1..n}
    OBVIOUS
  <2>3. PICK f : f = [i \in 1..n |-> documents[i].updated]
    OBVIOUS
  <2>4. f \in Surjection(1..n, T)
    BY <2>2, <2>3 DEF Surjection
  <2>5. IsFiniteSet(T)
    BY <2>1, <2>4, FS_Surjection
  <2>6. S = {0} \cup T
    BY <1>7, <1>8, <2>2
  <2> QED
    BY <2>5, <2>6, FS_Singleton, FS_Union
<1>11. \E m \in S : \A x \in S : x <= m
  BY <1>9, <1>10, Latest
<1>12. PICK m : m = CHOOSE x \in S : \A i \in DOMAIN documents : documents[i].updated <= x
  OBVIOUS
<1>13. \E x \in S : \A i \in DOMAIN documents : documents[i].updated <= x
  BY <1>9, <1>11
<1>14. m \in Nat /\ \A i \in DOMAIN documents : documents[i].updated <= m
  BY <1>9, <1>12, <1>13
<1>15. now = PartsPerMs + m
  BY <1>8, <1>12 DEF LibraryInit
<1>16. now \in Nat /\ m <= now
  BY <1>14, <1>15, LibraryAssumption
<1>17. /\ \A r \in Requests : requests[r] = NoRequest
       /\ requests \in [Requests -> {NoRequest} \cup Request]
       /\ keyRows = {} /\ made = {} /\ replies = {} /\ marred = {} /\ walk = NoWalk
  BY DEF LibraryInit
<1>18. AccountsInv
  BY AccountsInitInv DEF LibraryInit
<1>19. LibraryTypes
  BY <1>3, <1>7, <1>16, <1>17 DEF LibraryTypes, NoRequest
<1>20. KeysAccounted /\ ResultTypes
  <2>1. \A key \in Keys : Asking(key) = {} /\ RowsOf(key) = {}
    BY <1>17 DEF Asking, RowsOf, NoRequest
  <2> QED
    BY <1>17, <2>1 DEF KeysAccounted, Accounted, ResultTypes
<1>21. /\ walk.at = "none" /\ walk.cursor = NoCursor /\ walk.shown = <<>> /\ walk.since = <<>>
       /\ walk.setBack = {}
  BY <1>17 DEF NoWalk
<1>22. WalkTypes
  <2>1. NoCursor \in [ms : Nat, id : Nat]
    BY DEF NoCursor
  <2>2. NoWalk \in Walk
    BY <2>1 DEF NoWalk, Walk
  <2> QED
    BY <1>17, <1>21, <2>2 DEF WalkTypes
<1>23. TimesKnown
  BY <1>21 DEF TimesKnown
<1>24. PagesKept
  BY <1>21 DEF PagesKept
<1> QED
  BY <1>18, <1>19, <1>20, <1>22, <1>23, <1>24 DEF LibraryInv, WalkInv

\* Every step keeps the invariant: those of the sessions leave the documents alone,
\* and the other way round.
LEMMA LibraryStep == LibraryInv /\ [LibraryNext]_allVars => LibraryInv'
<1> SUFFICES ASSUME LibraryInv, [LibraryNext]_allVars PROVE LibraryInv'
  OBVIOUS
<1>1. AccountsInv /\ LibraryTypes /\ KeysAccounted /\ ResultTypes /\ WalkInv
  BY DEF LibraryInv
<1>2. ASSUME UNCHANGED accounts
      PROVE  AccountsInv'
  BY <1>1, <1>2 DEF accounts, AccountsInv, SessionTypes, Owned, HeldBy, LoginsFresh, Fresh,
                    OneCall, AsRead, Alone, OneUsable, CalmSessions, Calm, Good, Usable, Live
<1>3. CASE UNCHANGED allVars
  <2>1. UNCHANGED accounts /\ UNCHANGED library
    BY <1>3 DEF allVars
  <2>2. LibraryTypes' /\ ResultTypes'
    BY <1>1, <2>1 DEF library, LibraryTypes, ResultTypes
  <2>3. KeysAccounted'
    <3> SUFFICES ASSUME NEW key \in Keys, key \notin marred' PROVE Accounted(key)'
      BY DEF KeysAccounted
    <3>1. Accounted(key) /\ RowsOf(key)' = RowsOf(key) /\ Asking(key)' = Asking(key)
      BY <1>1, <2>1 DEF library, KeysAccounted, RowsOf, Asking
    <3> QED
      BY <2>1, <3>1, KeyKept DEF library
  <2>4. WalkInv'
    BY <1>1, <2>1 DEF library, WalkInv, WalkTypes, TimesKnown, PagesKept, Below,
                      AloneInItsMillisecond
  <2> QED
    BY <1>2, <2>1, <2>2, <2>3, <2>4 DEF LibraryInv
<1>4. CASE LibraryNext
  <2>1. AccountsNext \/ UNCHANGED accounts
    BY <1>4 DEF LibraryNext, Post, Ask, Delete, Transfer, Rename, FindIdempotencyRecord,
                CreateDocument, SaveIdempotencyRecord, RoleOfOwner, UpdateDocumentTitle,
                TransferOwnership, RevokeDocumentAccess, Reply, RequestFails, KeyAges, WalkStarts, NextPage, Tick
  <2>2. AccountsInv'
    BY <1>1, <1>2, <2>1, AccountsStep
  <2>3. LibraryTypes' /\ KeysAccounted' /\ ResultTypes' /\ WalkInv'
    BY <1>1, <1>4, LibraryTypesStep, KeysStep, ResultsStep, WalkStep
  <2> QED
    BY <2>2, <2>3 DEF LibraryInv
<1> QED
  BY <1>3, <1>4

\* The inductive invariant, of every state the sign-in sessions and the documents
\* of a user reach.
THEOREM LibraryInvariant == LibrarySpec => []LibraryInv
<1>1. LibraryInit => LibraryInv
  BY LibraryInitInv
<1>2. LibraryInv /\ [LibraryNext]_allVars => LibraryInv'
  BY LibraryStep
<1> QED
  BY <1>1, <1>2, PTL DEF LibrarySpec

\* Type correctness of the sessions, the documents, the keys and the walk.
THEOREM LibraryTypesAlways == LibrarySpec => []TypeOK
<1>1. LibraryInv => TypeOK
  <2> SUFFICES ASSUME LibraryInv PROVE TypeOK
    OBVIOUS
  <2>1. AccountsTypes
    BY AccountsSafe DEF LibraryInv
  <2>2. documents \in Seq([updated : Nat, title : Titles \cup {"old"}, open : BOOLEAN,
                           mine : BOOLEAN])
    BY DEF LibraryInv, LibraryTypes, Document
  <2>3. \A row \in keyRows : row.key \in Keys /\ row.document \in DOMAIN documents
    BY DEF LibraryInv, LibraryTypes, Row
  <2>4. walk.at \in {"none", "page", "done"}
    BY DEF LibraryInv, WalkInv, WalkTypes, Walk
  <2> QED
    BY <2>1, <2>2, <2>3, <2>4 DEF TypeOK, LibraryInv, LibraryTypes
<1> QED
  BY <1>1, LibraryInvariant, PTL

\* A signed-in browser whose calls neither overlapped nor went wrong holds a token
\* the next refresh accepts, however its logins, refreshes and logouts fall among
\* those of others (authService.ts:103-135); and a family that no two calls worked
\* on at once has one usable token at most.
THEOREM SessionsHold == LibrarySpec => []SessionHolds
<1>1. LibraryInv => SessionHolds
  BY AccountsSafe DEF LibraryInv
<1> QED
  BY <1>1, LibraryInvariant, PTL

\* An Idempotency-Key makes one document and gives one answer, for any number of
\* repeated requests (documentService.ts:128-136).
THEOREM KeysHonoured == LibrarySpec => []KeyHonoured
<1>1. LibraryInv => KeyHonoured
  BY KeysSafe DEF LibraryInv
<1> QED
  BY <1>1, LibraryInvariant, PTL

\* A walk through the pages shows no document twice whose updated_at did not go back
\* meanwhile, and misses none that stayed as it was and had its millisecond for
\* itself, for every page size and every resolution of the clock
\* (documentStore.ts:200-212), next to renames, transfers and creations that commit
\* in another order than they began.
THEOREM WalksComplete == LibrarySpec => []WalkComplete
<1>1. LibraryInv => WalkComplete
  BY DEF LibraryInv, WalkInv, PagesKept, WalkComplete, Shown
<1> QED
  BY <1>1, LibraryInvariant, PTL

=============================================================================
