------------------------------ MODULE Accounts ------------------------------
(***************************************************************************)
(* Sign-in sessions: the login, refresh and logout routes                  *)
(* (packages/server/src/httpApp.ts, authService.ts, tokens.ts) over the    *)
(* table of refresh tokens (db/authStore.ts).                              *)
(*                                                                         *)
(* A token is its index in the table.  A call runs one query at a time and *)
(* the calls of a browser, all with the cookie it has, may overlap: each   *)
(* action is one query.  Passwords, hashing and rate limits are left out.  *)
(***************************************************************************)
EXTENDS Integers, Sequences, FiniteSets

CONSTANTS
  Browsers,
  Calls,        \* slots for the calls under way
  SignIns       \* bounds, each a possible mix, see AccountsInit

ASSUME AccountsAssumption ==
  SignIns \subseteq [logins : Nat, refreshes : Nat, logouts : Nat, lapses : Nat,
                     expiries : Nat, losses : Nat, failures : Nat]

ASSUME BrowsersAssumption == IsFiniteSet(Browsers) /\ "none" \notin Browsers

VARIABLES
  tokens,       \* rows of refresh_tokens: [family, used, revoked, expired]
  families,     \* how many families there have been
  cookie,       \* cookie[b]: the refresh token of browser b, 0 without one
  access,       \* access[b]: its access token: "none", "valid" or "expired"
  calls,        \* calls[k]: the call in slot k
  signedIn,     \* signedIn[b]: "no"; "calm" while its calls neither overlap nor go
                \* wrong, and no token expires, since it signed in; else "troubled"
  raced,        \* families two calls worked on at once
  signLeft      \* what the bounds still allow

accounts == <<tokens, families, cookie, access, calls, signedIn, raced, signLeft>>

NoCall == [kind |-> "none", by |-> "none", at |-> "none", token |-> 0, new |-> 0]

\* Every browser is signed in, with a family of its own.
AccountsInit ==
  /\ \E f \in [1..Cardinality(Browsers) -> Browsers] :
       /\ \A i, j \in DOMAIN f : i # j => f[i] # f[j]
       /\ cookie = [b \in Browsers |-> CHOOSE i \in DOMAIN f : f[i] = b]
  /\ tokens = [i \in 1..Cardinality(Browsers) |->
                 [family |-> i, used |-> FALSE, revoked |-> FALSE, expired |-> FALSE]]
  /\ families = Cardinality(Browsers)
  /\ access = [b \in Browsers |-> "valid"]
  /\ calls = [k \in Calls |-> NoCall]
  /\ signedIn = [b \in Browsers |-> "calm"]
  /\ raced = {}
  /\ signLeft \in SignIns

Spent(what) == signLeft[what] > 0 /\ signLeft' = [signLeft EXCEPT ![what] = @ - 1]

CallsOf(b) == {k \in Calls : calls[k].by = b}

\* The families calls are working on: of the tokens they presented.
FamiliesInUse == {tokens[calls[k].token].family : k \in {x \in Calls : calls[x].token # 0}}

Troubled(b) == IF signedIn[b] = "calm" THEN "troubled" ELSE signedIn[b]

-----------------------------------------------------------------------------
(* A browser calls *)

\* A call of browser b starts at its first query, with token t.
Begin(k, b, kind, at, t) ==
  /\ calls[k] = NoCall
  /\ calls' = [calls EXCEPT ![k] = [kind |-> kind, by |-> b, at |-> at, token |-> t, new |-> 0]]
  /\ signedIn' = [signedIn EXCEPT ![b] = IF CallsOf(b) = {} THEN @ ELSE Troubled(b)]
  /\ raced' = raced \cup (IF t = 0 THEN {} ELSE {tokens[t].family} \cap FamiliesInUse)

\* POST /v1/auth/login with the right password.
Login(k, b) ==
  /\ Spent("logins")
  /\ Begin(k, b, "login", "family", 0)
  /\ UNCHANGED <<tokens, families, cookie, access>>

\* POST /v1/auth/refresh; without a cookie it is refused before any query.
Refresh(k, b) ==
  /\ cookie[b] # 0
  /\ Spent("refreshes")
  /\ Begin(k, b, "refresh", "find", cookie[b])
  /\ UNCHANGED <<tokens, families, cookie, access>>

\* POST /v1/auth/logout, whether the cookie comes with it or not.
Logout(k, b) ==
  /\ Spent("logouts")
  /\ \/ cookie[b] # 0 /\ Begin(k, b, "logout", "find", cookie[b])
     \/ Begin(k, b, "logout", "gone", 0)
  /\ UNCHANGED <<tokens, families, cookie, access>>

-----------------------------------------------------------------------------
(* The queries of a call *)

Proceed(k, at) == calls' = [calls EXCEPT ![k].at = at]

Insert(family) ==
  tokens' = Append(tokens, [family |-> family, used |-> FALSE, revoked |-> FALSE,
                            expired |-> FALSE])

Handed(k, at) == calls' = [calls EXCEPT ![k].at = at, ![k].new = Len(tokens) + 1]

\* createRefreshFamily().
CreateRefreshFamily(k) ==
  /\ calls[k].at = "family"
  /\ families' = families + 1
  /\ Insert(families + 1)
  /\ Handed(k, "granted")
  /\ UNCHANGED <<cookie, access, signedIn, raced, signLeft>>

\* findRefreshTokenByHash(): what the row says now decides what the call does.
FindRefreshToken(k) ==
  LET row == tokens[calls[k].token]
  IN  /\ calls[k].at = "find"
      /\ \/ calls[k].kind = "logout" /\ Proceed(k, "revoke")
         \/ /\ calls[k].kind = "refresh"
            /\ \/ (row.revoked \/ row.expired) /\ Proceed(k, "dead")
               \/ ~row.revoked /\ ~row.expired /\ row.used /\ Proceed(k, "revoke")
               \/ ~row.revoked /\ ~row.expired /\ ~row.used /\ Proceed(k, "mark")
      /\ UNCHANGED <<tokens, families, cookie, access, signedIn, raced, signLeft>>

\* Mutant: only the token that was presented is revoked.
RevokedAlone(t) == [tokens EXCEPT ![t].revoked = TRUE]

\* revokeFamily(): every token of the family of t.
Revoked(t) ==
  [i \in DOMAIN tokens |->
     IF tokens[i].family = tokens[t].family THEN [tokens[i] EXCEPT !.revoked = TRUE]
     ELSE tokens[i]]

\* A logout, or a token that was already used.
RevokeFamily(k) ==
  /\ calls[k].at = "revoke"
  /\ tokens' = Revoked(calls[k].token)
  /\ Proceed(k, IF calls[k].kind = "logout" THEN "gone" ELSE "dead")
  /\ UNCHANGED <<families, cookie, access, signedIn, raced, signLeft>>

\* Mutant: the token is left as it is.
MarkNothing(k) ==
  /\ calls[k].at = "mark"
  /\ Proceed(k, "insert")
  /\ UNCHANGED <<tokens, families, cookie, access, signedIn, raced, signLeft>>

MarkRefreshTokenUsed(k) ==
  /\ calls[k].at = "mark"
  /\ tokens' = [tokens EXCEPT ![calls[k].token].used = TRUE]
  /\ Proceed(k, "insert")
  /\ UNCHANGED <<families, cookie, access, signedIn, raced, signLeft>>

\* insertRefreshToken() of a rotation: the next token of the family.
InsertRefreshToken(k) ==
  /\ calls[k].at = "insert"
  /\ Insert(tokens[calls[k].token].family)
  /\ Handed(k, "granted")
  /\ UNCHANGED <<families, cookie, access, signedIn, raced, signLeft>>

-----------------------------------------------------------------------------
(* The answer, and what goes wrong *)

End(k) == calls' = [calls EXCEPT ![k] = NoCall]

\* The browser takes the new cookie and access token.
Granted(k) ==
  LET b == calls[k].by
  IN  /\ calls[k].at = "granted"
      /\ cookie' = [cookie EXCEPT ![b] = calls[k].new]
      /\ access' = [access EXCEPT ![b] = "valid"]
      /\ signedIn' = [signedIn EXCEPT ![b] =
                        IF /\ calls[k].kind = "login" /\ CallsOf(b) = {k}
                           /\ ~tokens[calls[k].new].expired
                        THEN "calm" ELSE @]
      /\ End(k)
      /\ UNCHANGED <<tokens, families, raced, signLeft>>

\* session_expired, or signed out: the answer clears the cookie, and a browser
\* that signs out forgets its access token.
Cleared(k) ==
  LET b == calls[k].by
  IN  /\ calls[k].at \in {"dead", "gone"}
      /\ cookie' = [cookie EXCEPT ![b] = 0]
      /\ access' = [access EXCEPT ![b] = IF calls[k].at = "gone" THEN "none" ELSE @]
      /\ signedIn' = [signedIn EXCEPT ![b] = IF calls[k].at = "gone" THEN "no" ELSE @]
      /\ End(k)
      /\ UNCHANGED <<tokens, families, raced, signLeft>>

\* The answer never reaches the browser.
AnswerLost(k) ==
  /\ calls[k].at \in {"granted", "dead", "gone"}
  /\ Spent("losses")
  /\ signedIn' = [signedIn EXCEPT ![calls[k].by] = Troubled(calls[k].by)]
  /\ End(k)
  /\ UNCHANGED <<tokens, families, cookie, access, raced>>

\* A query throws: what earlier queries of the call wrote stays.
QueryFails(k) ==
  /\ calls[k].at \in {"family", "find", "revoke", "mark", "insert"}
  /\ Spent("failures")
  /\ signedIn' = [signedIn EXCEPT ![calls[k].by] = Troubled(calls[k].by)]
  /\ End(k)
  /\ UNCHANGED <<tokens, families, cookie, access, raced>>

\* accessTokenTtlMs has passed.
AccessLapses(b) ==
  /\ access[b] = "valid"
  /\ Spent("lapses")
  /\ access' = [access EXCEPT ![b] = "expired"]
  /\ UNCHANGED <<tokens, families, cookie, calls, signedIn, raced>>

\* refreshTokenTtlMs has passed since token t was issued, and the older ones.
TokenExpires(t) ==
  /\ ~tokens[t].expired
  /\ Spent("expiries")
  /\ tokens' = [i \in DOMAIN tokens |->
                  IF i <= t THEN [tokens[i] EXCEPT !.expired = TRUE] ELSE tokens[i]]
  /\ signedIn' = [b \in Browsers |-> Troubled(b)]
  /\ UNCHANGED <<families, cookie, access, calls, raced>>

\* requireAuth: a request with a valid access token is let through.
RequireAuth(b) == access[b] = "valid"

AccountsNext ==
  \/ \E k \in Calls :
       \/ \E b \in Browsers : Login(k, b) \/ Refresh(k, b) \/ Logout(k, b)
       \/ CreateRefreshFamily(k) \/ FindRefreshToken(k) \/ RevokeFamily(k)
       \/ MarkRefreshTokenUsed(k) \/ InsertRefreshToken(k)
       \/ Granted(k) \/ Cleared(k) \/ AnswerLost(k) \/ QueryFails(k)
  \/ \E b \in Browsers : AccessLapses(b)
  \/ \E t \in DOMAIN tokens : TokenExpires(t)

-----------------------------------------------------------------------------
(* Properties *)

Usable(t) == ~tokens[t].used /\ ~tokens[t].revoked

UsableOf(f) == {t \in DOMAIN tokens : tokens[t].family = f /\ Usable(t)}

AccountsTypes ==
  /\ tokens \in Seq([family : 1..families, used : BOOLEAN, revoked : BOOLEAN, expired : BOOLEAN])
  /\ cookie \in [Browsers -> 0..Len(tokens)]
  /\ access \in [Browsers -> {"none", "valid", "expired"}]
  /\ \A k \in Calls : calls[k] # NoCall =>
       calls[k].by \in Browsers /\ {calls[k].token, calls[k].new} \subseteq 0..Len(tokens)
  /\ signedIn \in [Browsers -> {"no", "calm", "troubled"}]

\* A signed-in browser stays signed in (authService.ts:103-135): between calls that
\* neither overlapped nor went wrong its cookie names a token the next refresh
\* accepts.  And a family that no two calls worked on at once never has two such
\* tokens, and loses every one of them when it is revoked.
SessionHolds ==
  /\ \A b \in Browsers :
       signedIn[b] = "calm" /\ CallsOf(b) = {} =>
         cookie[b] # 0 /\ Usable(cookie[b]) /\ ~tokens[cookie[b]].expired
  /\ \A f \in (1..families) \ raced :
       /\ Cardinality(UsableOf(f)) <= 1
       /\ (\E t \in DOMAIN tokens : tokens[t].family = f /\ tokens[t].revoked) => UsableOf(f) = {}

=============================================================================
