---------------------------- MODULE RefreshTokens ----------------------------
(* Accounts and refresh tokens: AuthService over UserService.  A token is a  *)
(* signed JWT that every instance verifies, but it is accepted only by the   *)
(* instance whose Map refreshTokens holds its id, until it is exchanged,     *)
(* revoked, expired or lost with the process.  Requests suspended at an      *)
(* await interleave with all others.  Postgres and bcrypt are external.      *)
EXTENDS Integers, FiniteSets

CONSTANTS Instances,
          Requests,   \* slots for requests in flight
          Tokens,     \* ids randomUUID may draw: bounds how many are issued
          UserIds,    \* ids Postgres may draw: bounds how many accounts there are
          Spellings,  \* e-mail addresses as clients write them
          Lower,      \* toLowerCase on them
          Passwords,
          MaxOverlaps \* bounds how many refreshes of a session overlap another

ASSUME LowerAssumption ==
  /\ Lower \in [Spellings -> Spellings]
  /\ \A a \in Spellings : Lower[Lower[a]] = Lower[a]
ASSUME FiniteAssumption == IsFiniteSet(Requests) /\ IsFiniteSet(Tokens)
ASSUME MaxOverlapsAssumption == MaxOverlaps \in Nat

VARIABLES users,        \* the rows of table users
          welcomed,     \* history: registrations answered with success
          refreshTokens,\* the ids in each instance's Map
          sub,          \* the user each token was issued to
          login,        \* the token its session began with, at a login
          expired,      \* tokens past jwt.refreshExpiresIn
          request,      \* the requests in flight
          overlaps      \* history: how many refreshes of each session overlapped one of the same token

accounts == <<users, welcomed>>
tokens == <<refreshTokens, sub, login, expired, overlaps>>
vars == <<accounts, request, tokens>>

None == "none"
ASSUME NoneAssumption == None \notin UNION {Instances, Tokens, UserIds, Spellings, Passwords}

Idle == [at |-> None, pc |-> None, email |-> None, password |-> None, user |-> None, token |-> None]
Awaiting(i, pc) == [Idle EXCEPT !.at = i, !.pc = pc]

Init ==
  /\ users = {} /\ welcomed = {}
  /\ refreshTokens = [i \in Instances |-> {}]
  /\ sub = [t \in Tokens |-> None]
  /\ login = [t \in Tokens |-> None]
  /\ expired = {}
  /\ request = [r \in Requests |-> Idle]
  /\ overlaps = [t \in Tokens |-> 0]

Start(r, q) == request[r] = Idle /\ request' = [request EXCEPT ![r] = q]
Goto(r, pc) == request' = [request EXCEPT ![r].pc = pc]
End(r) == request' = [request EXCEPT ![r] = Idle]
At(r, pc) == request[r].pc = pc
Instance(r) == request[r].at
Email(r) == request[r].email
Password(r) == request[r].password
User(r) == request[r].user
Token(r) == request[r].token

Issued(t) == sub[t] # None
Verifies(t) == Issued(t) /\ t \notin expired

-----------------------------------------------------------------------------
(* Registration.  The service checks the address twice, hashes the password  *)
(* and inserts; the unique index on email has the last word.                 *)

register(r, i, a, w) ==
  /\ Start(r, [Awaiting(i, "findByEmail") EXCEPT !.email = a, !.password = w])
  /\ UNCHANGED <<accounts, tokens>>

(* findByEmail and isEmailUnique look for the address in lower case.         *)
Registered(a) == {u \in users : u.email = Lower[a]}

(* ConflictException when the address is found.                              *)
FindByEmail(r) ==
  /\ At(r, "findByEmail")
  /\ IF Registered(Email(r)) # {} THEN End(r) ELSE Goto(r, "isEmailUnique")
  /\ UNCHANGED <<accounts, tokens>>

isEmailUnique(r) ==
  /\ At(r, "isEmailUnique")
  /\ IF Registered(Email(r)) # {} THEN End(r) ELSE Goto(r, "save")
  /\ UNCHANGED <<accounts, tokens>>

Insert(r, email) ==
  /\ \E id \in UserIds :
       /\ \A u \in users : u.id # id
       /\ users' = users \union {[id |-> id, email |-> email, password |-> Password(r)]}
  /\ welcomed' = welcomed \union {[email |-> Email(r), password |-> Password(r)]}
  /\ End(r)
  /\ UNCHANGED tokens

(* Mutant: the column has no unique index; two lookups come before.          *)
SaveUserUnindexed(r) == At(r, "save") /\ Insert(r, Lower[Email(r)])

(* The unique index has the last word: a second row of an address is refused *)
(* like any query that rejects, see Fails.                                   *)
SaveUser(r) ==
  /\ At(r, "save")
  /\ \A u \in users : u.email # Lower[Email(r)]
  /\ Insert(r, Lower[Email(r)])

-----------------------------------------------------------------------------
(* Tokens                                                                    *)

(* generateTokens at instance i for user u, in session s (None: a new one),  *)
(* when the Map holds kept.  No await: one step with what comes before.      *)
generateTokens(i, u, s, kept) ==
  \E t \in Tokens :
    /\ ~Issued(t)
    /\ sub' = [sub EXCEPT ![t] = u]
    /\ login' = [login EXCEPT ![t] = IF s = None THEN t ELSE s]
    /\ refreshTokens' = [refreshTokens EXCEPT ![i] = kept \union {t}]

loginRequest(r, i, a, w) ==
  /\ Start(r, [Awaiting(i, "findUser") EXCEPT !.email = a, !.password = w])
  /\ UNCHANGED <<accounts, tokens>>

(* Mutant: no user is found and the request goes on.                         *)
validateUserUnchecked(r) ==
  /\ At(r, "findUser")
  /\ \E id \in UserIds : request' = [request EXCEPT ![r].pc = "comparePassword", ![r].user = id]
  /\ UNCHANGED <<accounts, tokens>>

validateUser(r) ==
  /\ At(r, "findUser")
  /\ IF Registered(Email(r)) = {} THEN End(r)
     ELSE \E u \in Registered(Email(r)) :
            request' = [request EXCEPT ![r].pc = "comparePassword", ![r].email = None, ![r].user = u.id]
  /\ UNCHANGED <<accounts, tokens>>

(* The right password, that of the row found (no code changes a row); with a *)
(* wrong one the request is refused, see Fails.                              *)
ComparePassword(r) ==
  /\ At(r, "comparePassword")
  /\ \A u \in users : u.id = User(r) => u.password = Password(r)
  /\ generateTokens(Instance(r), User(r), None, refreshTokens[Instance(r)])
  /\ End(r)
  /\ UNCHANGED <<accounts, expired, overlaps>>

CountOverlap(t) ==
  IF \E q \in Requests : Token(q) = t
  THEN overlaps[login[t]] < MaxOverlaps /\ overlaps' = [overlaps EXCEPT ![login[t]] = @ + 1]
  ELSE UNCHANGED overlaps

(* Mutant: an instance whose Map is empty, as after a restart, trusts the    *)
(* signature alone.                                                          *)
refreshTokenTrusting(r, i, t) ==
  /\ Verifies(t)
  /\ t \in refreshTokens[i] \/ refreshTokens[i] = {}
  /\ Start(r, [Awaiting(i, "findOne") EXCEPT !.token = t])
  /\ CountOverlap(t)
  /\ UNCHANGED <<accounts, refreshTokens, sub, login, expired>>

(* refreshToken up to its await: a token that does not verify or is not in   *)
(* this instance's Map is refused without further effect.                    *)
refreshToken(r, i, t) ==
  /\ Verifies(t)
  /\ t \in refreshTokens[i]
  /\ Start(r, [Awaiting(i, "findOne") EXCEPT !.token = t])
  /\ CountOverlap(t)
  /\ UNCHANGED <<accounts, refreshTokens, sub, login, expired>>

(* Mutant: the exchanged token stays in the Map.                             *)
ExchangeKeeping(r) ==
  LET i == Instance(r)  t == Token(r) IN
  /\ At(r, "findOne")
  /\ generateTokens(i, sub[t], login[t], refreshTokens[i])
  /\ End(r)
  /\ UNCHANGED <<accounts, expired, overlaps>>

(* Its continuation once the user is found (rows of users are never          *)
(* deleted): delete, then generateTokens, whatever happened to t meanwhile.  *)
Exchange(r) ==
  LET i == Instance(r)  t == Token(r) IN
  /\ At(r, "findOne")
  /\ generateTokens(i, sub[t], login[t], refreshTokens[i] \ {t})
  /\ End(r)
  /\ UNCHANGED <<accounts, expired, overlaps>>

(* logout: any instance verifies the token, and deletes it from its own Map; *)
(* one that did not issue it answers with success and deletes nothing.       *)
revokeRefreshToken(i, t) ==
  /\ Verifies(t)
  /\ refreshTokens' = [refreshTokens EXCEPT ![i] = @ \ {t}]
  /\ UNCHANGED <<accounts, sub, login, expired, request, overlaps>>

revokeAllRefreshTokens(i, u) ==
  /\ refreshTokens' = [refreshTokens EXCEPT ![i] = {t \in @ : sub[t] # u}]
  /\ UNCHANGED <<accounts, sub, login, expired, request, overlaps>>

-----------------------------------------------------------------------------
(* Mutant: the catch block of refreshToken puts the token back.              *)
FailsRestoring(r) ==
  LET i == Instance(r)  t == Token(r) IN
  /\ request[r] # Idle
  /\ refreshTokens' = IF t = None THEN refreshTokens
                      ELSE [refreshTokens EXCEPT ![i] = @ \union {t}]
  /\ End(r)
  /\ UNCHANGED <<accounts, sub, login, expired, overlaps>>

(* A database call rejects, or the password is wrong: the request is refused.*)
Fails(r) ==
  /\ request[r] # Idle
  /\ End(r)
  /\ UNCHANGED <<accounts, tokens>>

Expire(t) ==
  /\ Verifies(t)
  /\ expired' = expired \union {t}
  /\ UNCHANGED <<accounts, refreshTokens, sub, login, request, overlaps>>

(* An instance dies with its Map and its requests, and starts again.         *)
Restart(i) ==
  /\ refreshTokens' = [refreshTokens EXCEPT ![i] = {}]
  /\ request' = [r \in Requests |-> IF Instance(r) = i THEN Idle ELSE request[r]]
  /\ UNCHANGED <<accounts, sub, login, expired, overlaps>>

Serve(r) ==
  \/ \E i \in Instances, a \in Spellings, w \in Passwords : register(r, i, a, w) \/ loginRequest(r, i, a, w)
  \/ \E i \in Instances, t \in Tokens : refreshToken(r, i, t)
  \/ FindByEmail(r) \/ isEmailUnique(r) \/ SaveUser(r)
  \/ validateUser(r) \/ ComparePassword(r) \/ Exchange(r) \/ Fails(r)

Next ==
  \/ \E r \in Requests : Serve(r)
  \/ \E i \in Instances, t \in Tokens : revokeRefreshToken(i, t)
  \/ \E i \in Instances, u \in UserIds : revokeAllRefreshTokens(i, u)
  \/ \E t \in Tokens : Expire(t)
  \/ \E i \in Instances : Restart(i)

Spec == Init /\ [][Next]_vars

-----------------------------------------------------------------------------
PCs == {None, "findByEmail", "isEmailUnique", "save", "findUser", "comparePassword", "findOne"}

Slots == [at : Instances \union {None}, pc : PCs, email : Spellings \union {None},
          password : Passwords \union {None}, user : UserIds \union {None}, token : Tokens \union {None}]

(* Types; rows have ids of their own, tokens belong to accounts, those in a  *)
(* Map were issued to the user of their session, and each is in one Map      *)
(* only, so that exchanging or revoking it there is enough.                  *)
TypeOK ==
  /\ users \subseteq [id : UserIds, email : Spellings, password : Passwords]
  /\ welcomed \subseteq [email : Spellings, password : Passwords]
  /\ refreshTokens \in [Instances -> SUBSET Tokens]
  /\ sub \in [Tokens -> UserIds \union {None}]
  /\ login \in [Tokens -> Tokens \union {None}]
  /\ expired \subseteq Tokens
  /\ overlaps \in [Tokens -> 0..MaxOverlaps]
  /\ request \in [Requests -> Slots]
  /\ \A u, v \in users : u.id = v.id => u = v
  /\ \A t \in Tokens : Issued(t) => \E u \in users : u.id = sub[t]
  /\ \A i \in Instances : \A t \in refreshTokens[i] : login[t] # None /\ sub[login[t]] = sub[t]
  /\ \A i, j \in Instances : i # j => refreshTokens[i] \intersect refreshTokens[j] = {}

(* Who was told that a registration succeeded has the account: whatever      *)
(* other registrations of the address, in whatever spelling, passed both     *)
(* lookups meanwhile, a login finds one row, with the password of that       *)
(* registration.                                                             *)
RegistrationIsKept ==
  \A c \in welcomed : \E u \in users : Registered(c.email) = {u} /\ u.password = c.password

Accepted == UNION {refreshTokens[i] : i \in Instances}
AcceptedIn(s) == {t \in Accepted : login[t] = s}
Refreshing(s) == {r \in Requests : Token(r) # None /\ login[Token(r)] = s}

(* Rotation: a session has one token that is accepted anywhere, and one more *)
(* at most for every refresh that was begun while another refresh of the     *)
(* same token was under way, whatever is revoked, restarted or fails.        *)
ExtraTokensAreOverlaps ==
  \A s \in Tokens : Cardinality(AcceptedIn(s)) <= 1 + overlaps[s]

(* A session whose tokens were all revoked, exchanged or lost while none of  *)
(* them was being refreshed is over: nothing, overlapping refreshes, late    *)
(* continuations and restarts included, gives it an accepted token again.    *)
Over(s) == login[s] # None /\ AcceptedIn(s) = {} /\ Refreshing(s) = {}
EndedSessionsStayEnded == [][\A s \in Tokens : Over(s) => Over(s)']_vars

(* A token that was exchanged, revoked (by a logout that the instance which  *)
(* holds it served) or lost, so that no instance accepts it, is not accepted *)
(* again, whatever becomes of requests that hold it.                         *)
Spent(t) == Issued(t) /\ t \notin Accepted
SpentTokensStaySpent == [][\A t \in Tokens : Spent(t) => Spent(t)']_vars
=============================================================================
