----------------------------- MODULE TokenProofs -----------------------------
(* Theorems about RefreshTokens, for any instances, requests, tokens,        *)
(* accounts, addresses and passwords.                                        *)
EXTENDS RefreshTokens, FiniteSetTheorems, TLAPS

USE LowerAssumption, NoneAssumption

-----------------------------------------------------------------------------
(* Type correctness.  TypeOK is not inductive: that an exchange puts a fresh *)
(* token of the same user into one Map needs to know what a request under    *)
(* way holds, and that tokens never issued are nowhere.                      *)

Exists(id) == \E u \in users : u.id = id

(* What a request under way has found out so far.                            *)
Sound(q) ==
  /\ q.pc # None => q.at \in Instances
  /\ q.pc \in {"findByEmail", "isEmailUnique", "save"} => q.password \in Passwords
  /\ q.pc \in {"findByEmail", "isEmailUnique", "save", "findUser"} => q.email \in Spellings
  /\ q.pc \in {"findByEmail", "isEmailUnique", "save", "findUser", "comparePassword"} => q.token = None
  /\ q.pc = "comparePassword" => Exists(q.user)
  /\ q.pc = "findOne" => q.token \in Tokens /\ Issued(q.token)
  /\ q.pc = None => q = Idle

(* A token is issued to the user and in the session of its login.            *)
Rooted(t) ==
  IF Issued(t) THEN login[t] # None /\ sub[login[t]] = sub[t]
  ELSE login[t] = None

TypeInv ==
  /\ TypeOK
  /\ \A r \in Requests : Sound(request[r])
  /\ \A t \in Tokens : Rooted(t)
  /\ \A i \in Instances : \A t \in refreshTokens[i] : Issued(t)

LEMMA TypeInit == Init => TypeInv
  BY MaxOverlapsAssumption
  DEF Init, TypeInv, TypeOK, Slots, Idle, PCs, Sound, Rooted, Issued, None

LEMMA IdleIsTyped ==
  /\ Idle \in Slots
  /\ Sound(Idle)
  BY DEF Idle, Slots, PCs, None, Sound

(* The slots of requests after one of them moved on.                         *)
LEMMA SlotEffect ==
  ASSUME TypeInv, NEW r \in Requests, NEW q \in Slots,
         request' = [request EXCEPT ![r] = q]
  PROVE  /\ request' \in [Requests -> Slots]
         /\ request'[r] = q
         /\ \A p \in Requests : p # r => request'[p] = request[p]
  BY DEF TypeInv, TypeOK

(* Nothing but a request of its own moves.                                   *)
LEMMA MoveKeepsTypes ==
  ASSUME TypeInv, NEW r \in Requests, NEW q \in Slots,
         request' = [request EXCEPT ![r] = q],
         Sound(q), UNCHANGED <<accounts, refreshTokens, sub, login, expired>>,
         overlaps' \in [Tokens -> 0..MaxOverlaps]
  PROVE  TypeInv'
  <1>1. /\ request' \in [Requests -> Slots]
        /\ request'[r] = q
        /\ \A p \in Requests : p # r => request'[p] = request[p]
    BY SlotEffect
  <1>2. \A p \in Requests : Sound(request[p])'
    BY <1>1 DEF TypeInv, Sound, Issued, Idle, Exists, accounts
  <1>3. TypeOK'
    BY <1>1 DEF TypeInv, TypeOK, accounts, Issued
  <1> QED BY <1>2, <1>3 DEF TypeInv, Rooted, Issued

(* generateTokens: a token of user u that was never issued enters one Map.   *)
LEMMA IssueKeepsTypes ==
  ASSUME TypeInv, NEW r \in Requests, NEW i \in Instances, NEW u \in UserIds, Exists(u),
         NEW s \in Tokens \union {None}, s # None => Issued(s) /\ sub[s] = u,
         NEW kept, kept \subseteq refreshTokens[i],
         generateTokens(i, u, s, kept), End(r),
         UNCHANGED <<accounts, expired, overlaps>>
  PROVE  TypeInv'
  <1> PICK t \in Tokens : /\ ~Issued(t)
                          /\ sub' = [sub EXCEPT ![t] = u]
                          /\ login' = [login EXCEPT ![t] = IF s = None THEN t ELSE s]
                          /\ refreshTokens' = [refreshTokens EXCEPT ![i] = kept \union {t}]
    BY DEF generateTokens
  <1>1. /\ request' \in [Requests -> Slots]
        /\ request'[r] = Idle
        /\ \A p \in Requests : p # r => request'[p] = request[p]
    BY SlotEffect, IdleIsTyped DEF End
  <1>2. /\ sub' \in [Tokens -> UserIds \union {None}] /\ login' \in [Tokens -> Tokens \union {None}]
        /\ sub'[t] = u /\ login'[t] = (IF s = None THEN t ELSE s)
        /\ \A x \in Tokens : x # t => sub'[x] = sub[x] /\ login'[x] = login[x]
    BY DEF TypeInv, TypeOK
  <1>3. u # None
    OBVIOUS
  <1>4. \A x \in Tokens : Issued(x)' <=> Issued(x) \/ x = t
    BY <1>2, <1>3 DEF Issued
  <1>5. /\ refreshTokens' \in [Instances -> SUBSET Tokens]
        /\ refreshTokens'[i] = kept \union {t}
        /\ \A j \in Instances : j # i => refreshTokens'[j] = refreshTokens[j]
    BY DEF TypeInv, TypeOK
  <1>6. \A x \in Tokens : Rooted(x)'
    <2> SUFFICES ASSUME NEW x \in Tokens PROVE Rooted(x)'
      OBVIOUS
    <2>1. CASE x = t
      BY <1>2, <1>3, <1>4, <2>1 DEF Rooted, Issued
    <2>2. CASE x # t
      <3>1. Rooted(x) /\ Rooted(t) /\ login[x] \in Tokens \union {None}
        BY DEF TypeInv, TypeOK
      <3>2. Issued(x) => login[x] # t
        BY <3>1, <1>2 DEF Rooted, Issued
      <3> QED BY <1>2, <1>4, <2>2, <3>1, <3>2 DEF Rooted
    <2> QED BY <2>1, <2>2
  <1>7. \A j \in Instances : \A x \in refreshTokens'[j] : x \in Tokens /\ Issued(x)'
    BY <1>4, <1>5 DEF TypeInv, TypeOK
  <1>8. \A p \in Requests : Sound(request[p])'
    BY <1>1, <1>4 DEF TypeInv, Sound, Idle, None, Exists, accounts
  <1>9. \A j, k \in Instances : j # k => refreshTokens'[j] \intersect refreshTokens'[k] = {}
    <2>1. \A j \in Instances : t \notin refreshTokens[j]
      BY DEF TypeInv
    <2> QED BY <1>5, <2>1 DEF TypeInv, TypeOK
  <1>10. \A x \in Tokens : Issued(x)' => \E v \in users' : v.id = sub'[x]
    BY <1>2, <1>4 DEF TypeInv, TypeOK, Exists, accounts
  <1>11. TypeOK'
    BY <1>1, <1>2, <1>5, <1>6, <1>7, <1>9, <1>10 DEF TypeInv, TypeOK, Rooted, accounts
  <1> QED BY <1>6, <1>7, <1>8, <1>11 DEF TypeInv

LEMMA OverlapEffect ==
  ASSUME TypeInv, NEW t \in Tokens, Issued(t), CountOverlap(t)
  PROVE  /\ overlaps' \in [Tokens -> 0..MaxOverlaps]
         /\ login[t] \in Tokens
         /\ \A s \in Tokens : overlaps'[s] =
              IF s = login[t] /\ (\E q \in Requests : Token(q) = t) THEN overlaps[s] + 1 ELSE overlaps[s]
  <1>1. login[t] \in Tokens /\ overlaps \in [Tokens -> 0..MaxOverlaps]
    BY DEF TypeInv, TypeOK, Rooted
  <1> HIDE DEF Token
  <1> QED BY <1>1, MaxOverlapsAssumption DEF CountOverlap

LEMMA RegisterKeepsTypes ==
  ASSUME TypeInv, NEW r \in Requests,
         \/ \E i \in Instances, a \in Spellings, w \in Passwords : register(r, i, a, w) \/ loginRequest(r, i, a, w)
         \/ FindByEmail(r) \/ isEmailUnique(r) \/ validateUser(r) \/ Fails(r)
         \/ \E i \in Instances, t \in Tokens : refreshToken(r, i, t)
  PROVE  TypeInv'
  <1>1. request[r] \in Slots /\ Sound(request[r])
    BY DEF TypeInv, TypeOK
  <1>2. PICK q \in Slots : request' = [request EXCEPT ![r] = q] /\ Sound(q)
    <2>1. CASE \E i \in Instances, a \in Spellings, w \in Passwords : register(r, i, a, w) \/ loginRequest(r, i, a, w)
      <3> PICK i \in Instances, a \in Spellings, w \in Passwords : register(r, i, a, w) \/ loginRequest(r, i, a, w)
        BY <2>1
      <3> DEFINE q(pc) == [Awaiting(i, pc) EXCEPT !.email = a, !.password = w]
      <3>1. \A pc \in {"findByEmail", "findUser"} : q(pc) \in Slots /\ Sound(q(pc))
        BY DEF Awaiting, Idle, Slots, PCs, Sound, None
      <3> QED BY <3>1 DEF register, loginRequest, Start
    <2>2. CASE FindByEmail(r) \/ isEmailUnique(r) \/ Fails(r)
      <3> DEFINE moved(pc) == [request[r] EXCEPT !.pc = pc]
      <3>1. \A pc \in {"isEmailUnique", "save"} :
              request[r].pc \in {"findByEmail", "isEmailUnique"} => moved(pc) \in Slots /\ Sound(moved(pc))
        BY <1>1 DEF Sound, Slots, PCs, None
      <3>2. request' = [request EXCEPT ![r] = Idle] \/
            (\E pc \in {"isEmailUnique", "save"} :
               request[r].pc \in {"findByEmail", "isEmailUnique"} /\ request' = [request EXCEPT ![r] = moved(pc)])
        BY <2>2 DEF FindByEmail, isEmailUnique, Fails, Goto, End, At
      <3> QED BY <3>1, <3>2, IdleIsTyped
    <2>3. CASE validateUser(r)
      <3>1. CASE Registered(Email(r)) = {}
        BY <2>3, <3>1, IdleIsTyped DEF validateUser, End
      <3>2. CASE Registered(Email(r)) # {}
        <4> PICK u \in Registered(Email(r)) :
              request' = [request EXCEPT ![r].pc = "comparePassword", ![r].email = None, ![r].user = u.id]
          BY <2>3, <3>2 DEF validateUser
        <4> DEFINE q == [request[r] EXCEPT !.pc = "comparePassword", !.email = None, !.user = u.id]
        <4>1. u \in users /\ u.id \in UserIds
          BY DEF Registered, TypeInv, TypeOK
        <4>2. request[r].pc = "findUser"
          BY <2>3 DEF validateUser, At
        <4>3. q \in Slots /\ Sound(q)
          BY <1>1, <4>1, <4>2 DEF Sound, Slots, PCs, None, Exists
        <4>4. request' = [request EXCEPT ![r] = q]
          BY <1>1 DEF TypeInv, TypeOK
        <4> QED BY <4>3, <4>4
      <3> QED BY <3>1, <3>2
    <2>4. CASE \E i \in Instances, t \in Tokens : refreshToken(r, i, t)
      <3> PICK i \in Instances, t \in Tokens : refreshToken(r, i, t)
        BY <2>4
      <3> DEFINE q == [Awaiting(i, "findOne") EXCEPT !.token = t]
      <3>1. q \in Slots /\ Sound(q)
        BY DEF Awaiting, Idle, Slots, PCs, Sound, None, refreshToken, Verifies
      <3> QED BY <3>1 DEF refreshToken, Start
    <2> QED BY <2>1, <2>2, <2>3, <2>4
  <1>3. UNCHANGED <<accounts, refreshTokens, sub, login, expired>>
    BY DEF register, loginRequest, FindByEmail, isEmailUnique, validateUser, Fails, refreshToken, tokens
  <1>4. overlaps' \in [Tokens -> 0..MaxOverlaps]
    <2>1. CASE \E i \in Instances, t \in Tokens : refreshToken(r, i, t)
      BY <2>1, OverlapEffect DEF refreshToken, Verifies
    <2>2. CASE ~\E i \in Instances, t \in Tokens : refreshToken(r, i, t)
      BY <2>2 DEF register, loginRequest, FindByEmail, isEmailUnique, validateUser, Fails, tokens, TypeInv, TypeOK
    <2> QED BY <2>1, <2>2
  <1> QED BY <1>2, <1>3, <1>4, MoveKeepsTypes

(* The row a registration adds, and its answer.                              *)
LEMMA SaveUserEffect ==
  ASSUME TypeInv, NEW r \in Requests, SaveUser(r)
  PROVE  /\ UNCHANGED tokens /\ End(r)
         /\ Email(r) \in Spellings /\ Lower[Email(r)] \in Spellings /\ Password(r) \in Passwords
         /\ \A u \in users : u.email # Lower[Email(r)]
         /\ \E id \in UserIds :
              /\ \A u \in users : u.id # id
              /\ users' = users \union {[id |-> id, email |-> Lower[Email(r)], password |-> Password(r)]}
         /\ welcomed' = welcomed \union {[email |-> Email(r), password |-> Password(r)]}
  <1>1. Email(r) \in Spellings /\ Password(r) \in Passwords
    BY DEF TypeInv, Sound, SaveUser, At, Email, Password
  <1> QED BY <1>1 DEF SaveUser, Insert

LEMMA SaveUserKeepsTypes ==
  ASSUME TypeInv, NEW r \in Requests, SaveUser(r)
  PROVE  TypeInv'
  <1>1. /\ request' \in [Requests -> Slots]
        /\ request'[r] = Idle
        /\ \A p \in Requests : p # r => request'[p] = request[p]
    BY SaveUserEffect, SlotEffect, IdleIsTyped DEF End
  <1> PICK id \in UserIds :
        /\ \A u \in users : u.id # id
        /\ users' = users \union {[id |-> id, email |-> Lower[Email(r)], password |-> Password(r)]}
    BY SaveUserEffect
  <1>2. /\ Lower[Email(r)] \in Spellings /\ Password(r) \in Passwords /\ Email(r) \in Spellings
        /\ UNCHANGED tokens
        /\ welcomed' = welcomed \union {[email |-> Email(r), password |-> Password(r)]}
    BY SaveUserEffect
  <1>3. \A x : Exists(x) => Exists(x)'
    BY DEF Exists
  <1>4. \A p \in Requests : Sound(request[p])'
    BY <1>1, <1>2, <1>3 DEF TypeInv, Sound, tokens, Issued, Idle, None
  <1>5. /\ users' \subseteq [id : UserIds, email : Spellings, password : Passwords]
        /\ welcomed' \subseteq [email : Spellings, password : Passwords]
        /\ \A u, v \in users' : u.id = v.id => u = v
    BY <1>2 DEF TypeInv, TypeOK
  <1>6. TypeOK'
    BY <1>1, <1>2, <1>3, <1>5 DEF TypeInv, TypeOK, tokens, Exists, Issued
  <1> QED BY <1>2, <1>4, <1>6 DEF TypeInv, tokens, Rooted, Issued

(* The two steps that issue a token, and to whom.                            *)
LEMMA LoginIssues ==
  ASSUME TypeInv, NEW r \in Requests, ComparePassword(r)
  PROVE  /\ Instance(r) \in Instances /\ User(r) \in UserIds /\ Exists(User(r)) /\ Token(r) = None
         /\ generateTokens(Instance(r), User(r), None, refreshTokens[Instance(r)]) /\ End(r)
         /\ UNCHANGED <<accounts, expired, overlaps>>
  <1>1. Instance(r) \in Instances /\ Exists(User(r)) /\ Token(r) = None
    BY DEF TypeInv, Sound, ComparePassword, At, Instance, User, Token, None
  <1>2. User(r) \in UserIds
    BY <1>1 DEF TypeInv, TypeOK, Exists
  <1> QED BY <1>1, <1>2 DEF ComparePassword

LEMMA ExchangeIssues ==
  ASSUME TypeInv, NEW r \in Requests, Exchange(r)
  PROVE  /\ Instance(r) \in Instances /\ Token(r) \in Tokens /\ Token(r) # None /\ Issued(Token(r))
         /\ sub[Token(r)] \in UserIds /\ Exists(sub[Token(r)])
         /\ login[Token(r)] \in Tokens /\ login[Token(r)] # None
         /\ Issued(login[Token(r)]) /\ sub[login[Token(r)]] = sub[Token(r)]
         /\ generateTokens(Instance(r), sub[Token(r)], login[Token(r)], refreshTokens[Instance(r)] \ {Token(r)})
         /\ End(r) /\ UNCHANGED <<accounts, expired, overlaps>>
  <1>1. Instance(r) \in Instances /\ Token(r) \in Tokens /\ Token(r) # None /\ Issued(Token(r))
    BY DEF TypeInv, Sound, Exchange, At, Instance, Token, None
  <1>2. /\ sub[Token(r)] \in UserIds /\ Exists(sub[Token(r)])
        /\ login[Token(r)] \in Tokens
        /\ sub[login[Token(r)]] = sub[Token(r)]
    BY <1>1 DEF TypeInv, TypeOK, Rooted, Issued, Exists
  <1>3. Issued(login[Token(r)]) /\ login[Token(r)] # None
    BY <1>1, <1>2 DEF Issued
  <1> QED BY <1>1, <1>2, <1>3 DEF Exchange

LEMMA IssuersKeepTypes ==
  ASSUME TypeInv, NEW r \in Requests, ComparePassword(r) \/ Exchange(r)
  PROVE  TypeInv'
  <1>1. CASE ComparePassword(r)
    BY <1>1, LoginIssues, IssueKeepsTypes
  <1>2. CASE Exchange(r)
    <2> DEFINE kept == refreshTokens[Instance(r)] \ {Token(r)}
    <2>1. kept \subseteq refreshTokens[Instance(r)]
      OBVIOUS
    <2>2. generateTokens(Instance(r), sub[Token(r)], login[Token(r)], kept)
      BY <1>2, ExchangeIssues
    <2> HIDE DEF kept
    <2> QED BY <1>2, <2>1, <2>2, ExchangeIssues, IssueKeepsTypes
  <1> QED BY <1>1, <1>2

LEMMA MapKeepsTypes ==
  ASSUME TypeInv,
         \/ \E i \in Instances, t \in Tokens : revokeRefreshToken(i, t)
         \/ \E i \in Instances, u \in UserIds : revokeAllRefreshTokens(i, u)
         \/ \E t \in Tokens : Expire(t)
         \/ \E i \in Instances : Restart(i)
  PROVE  TypeInv'
  <1>1. /\ refreshTokens' \in [Instances -> SUBSET Tokens]
        /\ \A i \in Instances : refreshTokens'[i] \subseteq refreshTokens[i]
    BY DEF TypeInv, TypeOK, revokeRefreshToken, revokeAllRefreshTokens, Expire, Restart
  <1>2. /\ request' \in [Requests -> Slots]
        /\ \A r \in Requests : request'[r] \in {Idle, request[r]}
    BY IdleIsTyped DEF TypeInv, TypeOK, revokeRefreshToken, revokeAllRefreshTokens, Expire, Restart
  <1>3. /\ UNCHANGED <<accounts, sub, login, overlaps>>
        /\ expired' \subseteq Tokens
    BY DEF TypeInv, TypeOK, revokeRefreshToken, revokeAllRefreshTokens, Expire, Restart, Verifies
  <1>4. \A r \in Requests : Sound(request[r])'
    BY <1>2, <1>3, IdleIsTyped DEF TypeInv, Sound, Issued, Exists, accounts
  <1>5. TypeOK'
    BY <1>1, <1>2, <1>3 DEF TypeInv, TypeOK, accounts, Issued
  <1> QED BY <1>1, <1>3, <1>4, <1>5 DEF TypeInv, Rooted, Issued

LEMMA TypeStep == TypeInv /\ [Next]_vars => TypeInv'
  <1> SUFFICES ASSUME TypeInv, [Next]_vars PROVE TypeInv'
    OBVIOUS
  <1>1. CASE UNCHANGED vars
    BY <1>1 DEF vars, accounts, tokens, TypeInv, TypeOK, Sound, Rooted, Issued, Exists
  <1>2. ASSUME NEW r \in Requests, Serve(r) PROVE TypeInv'
    BY <1>2, RegisterKeepsTypes, SaveUserKeepsTypes, IssuersKeepTypes DEF Serve
  <1> QED BY <1>1, <1>2, MapKeepsTypes DEF Next

(* Types, and every token accepted belongs to its session's user and is in   *)
(* one Map only, whatever overlaps, restarts and expires.                    *)
THEOREM TypeCorrect == Spec => []TypeOK
  <1>1. TypeInv => TypeOK
    BY DEF TypeInv
  <1> QED BY <1>1, TypeInit, TypeStep, PTL DEF Spec

-----------------------------------------------------------------------------
(* Registration.  That a later one never displaces or shadows an answered    *)
(* one rests on the unique index, not on the two lookups.                    *)

RegistrationInv ==
  /\ \A u, v \in users : u.email = v.email => u = v
  /\ \A c \in welcomed : \E u \in users : u.email = Lower[c.email] /\ u.password = c.password

LEMMA RegistrationStep == TypeInv /\ RegistrationInv /\ [Next]_vars => RegistrationInv'
  <1> SUFFICES ASSUME TypeInv, RegistrationInv, [Next]_vars PROVE RegistrationInv'
    OBVIOUS
  <1>1. CASE UNCHANGED accounts
    BY <1>1 DEF RegistrationInv, accounts
  <1>2. ASSUME NEW r \in Requests, SaveUser(r) PROVE RegistrationInv'
    <2> DEFINE email == Lower[Email(r)]
    <2> PICK id \in UserIds : users' = users \union {[id |-> id, email |-> email, password |-> Password(r)]}
      BY <1>2, SaveUserEffect
    <2>1. /\ \A u \in users : u.email # email
          /\ welcomed' = welcomed \union {[email |-> Email(r), password |-> Password(r)]}
      BY <1>2, SaveUserEffect
    <2>2. \A u, v \in users' : u.email = v.email => u = v
      BY <2>1 DEF RegistrationInv
    <2>3. ASSUME NEW c \in welcomed' PROVE \E u \in users' : u.email = Lower[c.email] /\ u.password = c.password
      <3> DEFINE row == [id |-> id, email |-> email, password |-> Password(r)]
      <3>1. CASE c \in welcomed
        BY <3>1 DEF RegistrationInv
      <3>2. CASE c = [email |-> Email(r), password |-> Password(r)]
        <4>1. row.email = Lower[c.email] /\ row.password = c.password /\ row \in users'
          BY <3>2
        <4> QED BY <4>1
      <3> QED BY <2>1, <3>1, <3>2
    <2> QED BY <2>2, <2>3 DEF RegistrationInv
  <1>3. ASSUME NEW r \in Requests, Serve(r), ~SaveUser(r) PROVE UNCHANGED accounts
    BY <1>3 DEF Serve, register, loginRequest, refreshToken, FindByEmail, isEmailUnique, validateUser,
               ComparePassword, Exchange, Fails
  <1>4. ASSUME \/ \E i \in Instances, t \in Tokens : revokeRefreshToken(i, t)
               \/ \E i \in Instances, u \in UserIds : revokeAllRefreshTokens(i, u)
               \/ \E t \in Tokens : Expire(t)
               \/ \E i \in Instances : Restart(i)
        PROVE  UNCHANGED accounts
    BY <1>4 DEF revokeRefreshToken, revokeAllRefreshTokens, Expire, Restart
  <1> QED BY <1>1, <1>2, <1>3, <1>4 DEF Next, vars

(* A registration that was answered with success has its account: a login    *)
(* finds that one row with its password, however many registrations of the   *)
(* address passed both lookups.                                              *)
THEOREM RegistrationsAreKept == Spec => []RegistrationIsKept
  <1>1. Init => RegistrationInv
    BY DEF Init, RegistrationInv
  <1>2. RegistrationInv => RegistrationIsKept
    <2> SUFFICES ASSUME RegistrationInv, NEW c \in welcomed
                 PROVE  \E u \in users : Registered(c.email) = {u} /\ u.password = c.password
      BY DEF RegistrationIsKept
    <2> PICK u \in users : u.email = Lower[c.email] /\ u.password = c.password
      BY DEF RegistrationInv
    <2>1. Registered(c.email) = {u}
      BY DEF RegistrationInv, Registered
    <2> QED BY <2>1
  <1> QED BY <1>1, <1>2, RegistrationStep, TypeInit, TypeStep, PTL DEF Spec

-----------------------------------------------------------------------------
(* Sessions: what the steps do to the Maps and to the requests in flight.    *)

LEMMA TokenInFlight ==
  ASSUME TypeInv, NEW r \in Requests
  PROVE  Token(r) = None \/ (Token(r) \in Tokens /\ Issued(Token(r)))
  <1>1. request[r].pc \in PCs /\ Sound(request[r])
    BY DEF TypeInv, TypeOK, Slots
  <1> QED BY <1>1 DEF PCs, Sound, Idle, Token

(* A step of a request that issues no token, starts no refresh and leaves    *)
(* the Maps alone.                                                           *)
LEMMA QuietEffect ==
  ASSUME TypeInv, NEW r \in Requests,
         \/ \E i \in Instances, a \in Spellings, w \in Passwords : register(r, i, a, w) \/ loginRequest(r, i, a, w)
         \/ FindByEmail(r) \/ isEmailUnique(r) \/ SaveUser(r) \/ validateUser(r) \/ Fails(r)
  PROVE  /\ UNCHANGED tokens
         /\ \A q \in Requests : q # r => request'[q] = request[q]
         /\ request'[r].token = None
  <1>1. UNCHANGED tokens
    BY SaveUserEffect DEF register, loginRequest, FindByEmail, isEmailUnique, validateUser, Fails
  <1>2. request[r].pc \in {"findByEmail", "isEmailUnique", "findUser"} => request[r].token = None
    BY DEF TypeInv, Sound
  <1>3. request \in [Requests -> Slots]
    BY DEF TypeInv, TypeOK
  <1>4. PICK q : request' = [request EXCEPT ![r] = q] /\ q.token = None
    <2>1. CASE \E i \in Instances, a \in Spellings, w \in Passwords : register(r, i, a, w) \/ loginRequest(r, i, a, w)
      <3> PICK i \in Instances, a \in Spellings, w \in Passwords : register(r, i, a, w) \/ loginRequest(r, i, a, w)
        BY <2>1
      <3> DEFINE q(pc) == [Awaiting(i, pc) EXCEPT !.email = a, !.password = w]
      <3>1. \A pc : q(pc).token = None
        BY DEF Awaiting, Idle
      <3>2. \E pc : request' = [request EXCEPT ![r] = q(pc)]
        BY DEF register, loginRequest, Start
      <3> QED BY <3>1, <3>2
    <2>2. CASE FindByEmail(r) \/ isEmailUnique(r) \/ SaveUser(r) \/ Fails(r)
      BY <1>2, <1>3, <2>2, SaveUserEffect DEF FindByEmail, isEmailUnique, Fails, Goto, End, Idle, At, Slots
    <2>3. CASE validateUser(r)
      BY <1>2, <1>3, <2>3 DEF validateUser, End, Idle, At, Slots
    <2> QED BY <2>1, <2>2, <2>3
  <1> QED BY <1>1, <1>3, <1>4

LEMMA MapEffect ==
  ASSUME TypeInv,
         \/ \E i \in Instances, t \in Tokens : revokeRefreshToken(i, t)
         \/ \E i \in Instances, u \in UserIds : revokeAllRefreshTokens(i, u)
         \/ \E t \in Tokens : Expire(t)
         \/ \E i \in Instances : Restart(i)
  PROVE  /\ \A i \in Instances : refreshTokens'[i] \subseteq refreshTokens[i]
         /\ UNCHANGED <<sub, login, overlaps>>
         /\ \A r \in Requests : \/ request'[r] = request[r]
                                \/ request'[r] = Idle /\ (Instance(r) \in Instances => refreshTokens'[Instance(r)] = {})
  BY DEF TypeInv, TypeOK, revokeRefreshToken, revokeAllRefreshTokens, Expire, Restart

(* refreshToken up to its await.                                             *)
LEMMA RefreshEffect ==
  ASSUME TypeInv, NEW r \in Requests, NEW i \in Instances, NEW t \in Tokens, refreshToken(r, i, t)
  PROVE  /\ UNCHANGED <<refreshTokens, sub, login>>
         /\ t \in refreshTokens[i] /\ t # None /\ login[t] \in Tokens
         /\ \A q \in Requests : q # r => request'[q] = request[q]
         /\ Token(r) = None /\ Token(r)' = t /\ Instance(r)' = i
         /\ \A s \in Tokens : overlaps'[s] =
              IF s = login[t] /\ (\E q \in Requests : Token(q) = t) THEN overlaps[s] + 1 ELSE overlaps[s]
  <1>1. Issued(t) /\ CountOverlap(t)
    BY DEF refreshToken, Verifies
  <1> QED BY <1>1, OverlapEffect
          DEF TypeInv, TypeOK, refreshToken, Start, Awaiting, Idle, Token, Instance

(* A token t that was never issued enters the Map of instance i.             *)
Enters(t, r, i, u, s, kept) ==
  /\ ~Issued(t) /\ login[t] = None /\ \A j \in Instances : t \notin refreshTokens[j]
  /\ refreshTokens'[i] = kept \union {t}
  /\ \A j \in Instances : j # i => refreshTokens'[j] = refreshTokens[j]
  /\ login'[t] = IF s = None THEN t ELSE s
  /\ sub'[t] = u
  /\ \A x \in Tokens : x # t => login'[x] = login[x] /\ sub'[x] = sub[x]
  /\ \A q \in Requests : q # r => request'[q] = request[q]
  /\ request'[r] = Idle
  /\ \A q \in Requests : Token(q) # t

LEMMA IssueEffect ==
  ASSUME TypeInv, NEW r \in Requests, NEW i \in Instances, NEW u, NEW s \in Tokens \union {None},
         NEW kept, kept \subseteq refreshTokens[i], generateTokens(i, u, s, kept), End(r)
  PROVE  \E t \in Tokens : Enters(t, r, i, u, s, kept)
  <1> PICK t \in Tokens : /\ ~Issued(t)
                          /\ sub' = [sub EXCEPT ![t] = u]
                          /\ login' = [login EXCEPT ![t] = IF s = None THEN t ELSE s]
                          /\ refreshTokens' = [refreshTokens EXCEPT ![i] = kept \union {t}]
    BY DEF generateTokens
  <1>1. \A q \in Requests : Token(q) # t
    BY TokenInFlight
  <1>2. login[t] = None /\ \A j \in Instances : t \notin refreshTokens[j]
    BY DEF TypeInv, Rooted
  <1>3. Enters(t, r, i, u, s, kept)
    BY <1>1, <1>2 DEF TypeInv, TypeOK, End, Enters
  <1> QED BY <1>3

-----------------------------------------------------------------------------
(* Spent tokens and ended sessions                                           *)

LEMMA NothingIsRestored ==
  ASSUME TypeInv, [Next]_vars, NEW x \in Tokens, Spent(x)
  PROVE  Spent(x)'
  <1>0. Issued(x) /\ \A i \in Instances : x \notin refreshTokens[i]
    BY DEF Spent, Accepted
  <1>1. ASSUME sub' = sub, \A i \in Instances : refreshTokens'[i] \subseteq refreshTokens[i]
        PROVE  Spent(x)'
    BY <1>0, <1>1 DEF Spent, Accepted, Issued
  <1>2. ASSUME NEW r \in Requests, NEW i \in Instances, NEW u, NEW s \in Tokens \union {None},
               NEW kept, kept \subseteq refreshTokens[i], generateTokens(i, u, s, kept), End(r)
        PROVE  Spent(x)'
    <2> PICK t \in Tokens : Enters(t, r, i, u, s, kept)
      BY <1>2, IssueEffect
    <2> QED BY <1>0, <1>2 DEF Spent, Accepted, Issued, Enters
  <1>3. CASE UNCHANGED vars
    BY <1>1, <1>3 DEF vars, tokens
  <1>4. ASSUME NEW r \in Requests, Serve(r) PROVE Spent(x)'
    <2>1. CASE \E i \in Instances, t \in Tokens : refreshToken(r, i, t)
      BY <2>1, <1>1 DEF refreshToken
    <2>2. CASE ComparePassword(r)
      BY <2>2, LoginIssues, <1>2
    <2>3. CASE Exchange(r)
      <3> DEFINE kept == refreshTokens[Instance(r)] \ {Token(r)}
      <3>1. generateTokens(Instance(r), sub[Token(r)], login[Token(r)], kept) /\ kept \subseteq refreshTokens[Instance(r)]
        BY <2>3, ExchangeIssues
      <3> HIDE DEF kept
      <3> QED BY <2>3, <3>1, ExchangeIssues, <1>2
    <2> QED BY <1>4, <2>1, <2>2, <2>3, QuietEffect, <1>1 DEF Serve, tokens
  <1> QED BY <1>1, <1>3, <1>4, MapEffect DEF Next

(* A token that no instance accepts any more stays refused by every one,     *)
(* over any number of instances: neither a late continuation nor a restart   *)
(* puts it back.                                                             *)
THEOREM TokensAreSpentForGood == Spec => SpentTokensStaySpent
  <1>1. TypeInv /\ [Next]_vars => [\A t \in Tokens : Spent(t) => Spent(t)']_vars
    BY NothingIsRestored
  <1> QED BY <1>1, TypeInit, TypeStep, PTL DEF Spec, SpentTokensStaySpent

LEMMA NothingComesBack ==
  ASSUME TypeInv, [Next]_vars, NEW s \in Tokens, Over(s)
  PROVE  Over(s)'
  <1>0. login[s] # None /\ AcceptedIn(s) = {} /\ Refreshing(s) = {}
    BY DEF Over
  <1>1. ASSUME login' = login,
               \A i \in Instances : refreshTokens'[i] \subseteq refreshTokens[i],
               \A r \in Requests : request'[r] = request[r] \/ request'[r].token = None
        PROVE  Over(s)'
    BY <1>0, <1>1 DEF Over, AcceptedIn, Accepted, Refreshing, Token
  <1>2. ASSUME NEW r \in Requests, NEW i \in Instances, NEW u, NEW o \in Tokens \union {None},
               NEW kept, kept \subseteq refreshTokens[i], o # s,
               generateTokens(i, u, o, kept), End(r)
        PROVE  Over(s)'
    <2> PICK t \in Tokens : Enters(t, r, i, u, o, kept)
      BY <1>2, IssueEffect
    <2>1. s # t /\ login'[t] # s
      BY <1>0, <1>2 DEF Enters
    <2>2. \A j \in Instances : refreshTokens'[j] \subseteq refreshTokens[j] \union {t} /\ refreshTokens[j] \subseteq Tokens
      BY <1>2 DEF TypeInv, TypeOK, Enters
    <2>3. AcceptedIn(s)' = {}
      BY <1>0, <2>1, <2>2 DEF AcceptedIn, Accepted, Enters
    <2>4. Refreshing(s)' = {}
      <3>1. \A q \in Requests : Token(q)' = None \/ (Token(q)' = Token(q) /\ Token(q) \in Tokens)
        BY TokenInFlight DEF Idle, Token, Enters
      <3> QED BY <1>0, <3>1 DEF Refreshing, Enters
    <2> QED BY <1>0, <2>1, <2>3, <2>4 DEF Over, Enters
  <1>3. CASE UNCHANGED vars
    BY <1>1, <1>3 DEF vars, tokens
  <1>4. ASSUME NEW r \in Requests, Serve(r) PROVE Over(s)'
    <2>1. CASE \E i \in Instances, t \in Tokens : refreshToken(r, i, t)
      <3> PICK i \in Instances, t \in Tokens : refreshToken(r, i, t)
        BY <2>1
      <3>1. login[t] # s
        BY <1>0 DEF refreshToken, AcceptedIn, Accepted
      <3>2. \A q \in Requests : Token(q)' \in {t, Token(q)}
        BY RefreshEffect DEF Token
      <3> QED BY <1>0, <3>1, <3>2, RefreshEffect DEF Over, AcceptedIn, Accepted, Refreshing
    <2>2. CASE ComparePassword(r)
      BY <2>2, LoginIssues, <1>2
    <2>3. CASE Exchange(r)
      <3> DEFINE kept == refreshTokens[Instance(r)] \ {Token(r)}
      <3>1. generateTokens(Instance(r), sub[Token(r)], login[Token(r)], kept) /\ kept \subseteq refreshTokens[Instance(r)]
        BY <2>3, ExchangeIssues
      <3>2. login[Token(r)] # s
        BY <1>0, <2>3, ExchangeIssues DEF Refreshing
      <3> HIDE DEF kept
      <3> QED BY <2>3, <3>1, <3>2, ExchangeIssues, <1>2
    <2> QED BY <1>4, <2>1, <2>2, <2>3, QuietEffect, <1>1 DEF Serve, tokens
  <1>5. ASSUME \/ \E i \in Instances, t \in Tokens : revokeRefreshToken(i, t)
               \/ \E i \in Instances, u \in UserIds : revokeAllRefreshTokens(i, u)
               \/ \E t \in Tokens : Expire(t)
               \/ \E i \in Instances : Restart(i)
        PROVE  Over(s)'
    BY <1>5, <1>1, MapEffect DEF Idle
  <1> QED BY <1>3, <1>4, <1>5 DEF Next

(* A session without accepted token and refresh under way is over for good,  *)
(* over any number of instances.                                             *)
THEOREM SessionsEnd == Spec => EndedSessionsStayEnded
  <1>1. TypeInv /\ [Next]_vars => [\A s \in Tokens : Over(s) => Over(s)']_vars
    BY NothingComesBack
  <1> QED BY <1>1, TypeInit, TypeStep, PTL DEF Spec, EndedSessionsStayEnded

-----------------------------------------------------------------------------
(* Rotation.  Tokens that no refresh holds and refreshes under way together  *)
(* number at most one for the session and one for each overlap: a refresh    *)
(* that begins takes a token from the first to the second, an exchange or a  *)
(* failure gives one back.                                                   *)

(* A token under exchange is in no Map but that of the instance it is at.    *)
AtHome == \A r \in Requests, i \in Instances : Token(r) \in refreshTokens[i] => i = Instance(r)

Unheld(t) == \A r \in Requests : Token(r) # t
Free(s) == {t \in AcceptedIn(s) : Unheld(t)}
Load(s) == Cardinality(Free(s)) + Cardinality(Refreshing(s))
LoadInv == \A s \in Tokens : Load(s) <= 1 + overlaps[s]

RotationInv == TypeInv /\ AtHome /\ LoadInv

LEMMA LoadIsFinite ==
  ASSUME TypeInv, NEW s
  PROVE  /\ IsFiniteSet(Free(s)) /\ IsFiniteSet(Refreshing(s))
         /\ Load(s) \in Nat
  <1>1. Free(s) \subseteq Tokens /\ Refreshing(s) \subseteq Requests
    BY DEF TypeInv, TypeOK, Free, AcceptedIn, Accepted, Refreshing
  <1>2. IsFiniteSet(Free(s)) /\ IsFiniteSet(Refreshing(s))
    BY <1>1, FiniteAssumption, FS_Subset
  <1> QED BY <1>2, FS_CardinalityType DEF Load

(* How many elements a part of a set, of a set with one more element and of  *)
(* a set with one taken out have.                                            *)
LEMMA SizeOfPart ==
  ASSUME NEW F, IsFiniteSet(F), NEW G, G \subseteq F
  PROVE  Cardinality(G) \in Nat /\ Cardinality(F) \in Nat /\ Cardinality(G) <= Cardinality(F)
  BY FS_Subset, FS_CardinalityType

LEMMA SizeWithOneMore ==
  ASSUME NEW F, IsFiniteSet(F), NEW x, NEW G, G \subseteq F \union {x}
  PROVE  Cardinality(G) \in Nat /\ Cardinality(F) \in Nat /\ Cardinality(G) <= Cardinality(F) + 1
  <1>1. Cardinality(F) \in Nat
    BY FS_CardinalityType
  <1>2. IsFiniteSet(F \union {x}) /\ (Cardinality(F \union {x}) = Cardinality(F) \/ Cardinality(F \union {x}) = Cardinality(F) + 1)
    BY FS_AddElement
  <1> DEFINE H == F \union {x}
  <1>3. Cardinality(G) \in Nat /\ Cardinality(G) <= Cardinality(H)
    BY <1>2, SizeOfPart
  <1> QED BY <1>1, <1>2, <1>3

LEMMA SizeWithOneLess ==
  ASSUME NEW F, IsFiniteSet(F), NEW x \in F, NEW G, G \subseteq F \ {x}
  PROVE  Cardinality(G) \in Nat /\ Cardinality(F) \in Nat /\ Cardinality(G) <= Cardinality(F) - 1
  <1>1. Cardinality(F) \in Nat
    BY FS_CardinalityType
  <1>2. IsFiniteSet(F \ {x}) /\ Cardinality(F \ {x}) = Cardinality(F) - 1
    BY FS_RemoveElement
  <1> DEFINE H == F \ {x}
  <1>3. Cardinality(G) \in Nat /\ Cardinality(G) <= Cardinality(H)
    BY <1>2, SizeOfPart
  <1> QED BY <1>1, <1>2, <1>3

LEMMA RotationInit == Init => AtHome /\ LoadInv
  <1> SUFFICES ASSUME Init PROVE AtHome /\ LoadInv
    OBVIOUS
  <1>1. AtHome
    BY DEF Init, AtHome
  <1>2. \A s \in Tokens : Free(s) = {} /\ Refreshing(s) = {} /\ overlaps[s] = 0
    BY DEF Init, Free, AcceptedIn, Accepted, Refreshing, Token, Idle
  <1> QED BY <1>1, <1>2, FS_EmptySet DEF LoadInv, Load

LEMMA LoadShrinks ==
  ASSUME TypeInv, NEW s, Free(s)' \subseteq Free(s), Refreshing(s)' \subseteq Refreshing(s)
  PROVE  Load(s)' \in Nat /\ Load(s) \in Nat /\ Load(s)' <= Load(s)
  <1>1. /\ Cardinality(Free(s)') \in Nat /\ Cardinality(Free(s)) \in Nat
        /\ Cardinality(Free(s)') <= Cardinality(Free(s))
    BY LoadIsFinite, SizeOfPart
  <1>2. /\ Cardinality(Refreshing(s)') \in Nat /\ Cardinality(Refreshing(s)) \in Nat
        /\ Cardinality(Refreshing(s)') <= Cardinality(Refreshing(s))
    BY LoadIsFinite, SizeOfPart
  <1> QED BY <1>1, <1>2 DEF Load

(* A step of one request that starts no refresh and issues no token: it may  *)
(* end a refresh, which sets its token free.                                 *)
LEMMA QuietKeepsRotation ==
  ASSUME RotationInv, NEW r \in Requests, UNCHANGED tokens,
         \A q \in Requests : q # r => request'[q] = request[q],
         request'[r].token = None
  PROVE  (AtHome /\ LoadInv)'
  <1>1. \A i \in Instances : None \notin refreshTokens[i]
    BY DEF RotationInv, TypeInv, TypeOK
  <1>2. AtHome'
    BY <1>1 DEF RotationInv, AtHome, Token, Instance, tokens
  <1>3. ASSUME NEW s \in Tokens PROVE Load(s)' <= Load(s)
    <2>1. Refreshing(s)' \subseteq Refreshing(s) /\ r \notin Refreshing(s)'
      BY DEF Refreshing, Token, tokens
    <2>2. Free(s)' \subseteq Free(s) \union {Token(r)}
      BY DEF Free, AcceptedIn, Accepted, Unheld, Token, tokens
    <2>3. r \notin Refreshing(s) => Free(s)' \subseteq Free(s)
      BY <1>1, <2>2 DEF Free, AcceptedIn, Accepted, Refreshing, tokens
    <2> HIDE DEF tokens
    <2>4. CASE r \in Refreshing(s)
      <3>1. /\ Cardinality(Free(s)') \in Nat /\ Cardinality(Free(s)) \in Nat
            /\ Cardinality(Free(s)') <= Cardinality(Free(s)) + 1
        BY <2>2, LoadIsFinite, SizeWithOneMore DEF RotationInv
      <3>2. /\ Cardinality(Refreshing(s)') \in Nat /\ Cardinality(Refreshing(s)) \in Nat
            /\ Cardinality(Refreshing(s)') <= Cardinality(Refreshing(s)) - 1
        BY <2>1, <2>4, LoadIsFinite, SizeWithOneLess DEF RotationInv
      <3> QED BY <3>1, <3>2 DEF Load
    <2>5. CASE r \notin Refreshing(s)
      BY <2>1, <2>3, <2>5, LoadShrinks DEF RotationInv
    <2> QED BY <2>4, <2>5
  <1>4. LoadInv'
    <2> SUFFICES ASSUME NEW s \in Tokens PROVE Load(s)' <= 1 + overlaps'[s]
      BY DEF LoadInv
    <2>1. Load(s)' \in Nat /\ Load(s) \in Nat /\ overlaps[s] \in Nat /\ overlaps'[s] = overlaps[s]
      <3>1. Free(s)' \subseteq Tokens /\ Refreshing(s)' \subseteq Requests
        BY DEF RotationInv, TypeInv, TypeOK, Free, AcceptedIn, Accepted, Refreshing, tokens
      <3>2. Load(s)' \in Nat
        BY <3>1, FiniteAssumption, FS_Subset, FS_CardinalityType DEF Load
      <3> QED BY <3>2, LoadIsFinite, MaxOverlapsAssumption DEF RotationInv, TypeInv, TypeOK, tokens
    <2> QED BY <1>3, <2>1 DEF RotationInv, LoadInv
  <1> QED BY <1>2, <1>4

(* logout, expiry and restarts.  A restart ends the refreshes of an instance *)
(* with its Map, so that it sets no token free.                              *)
LEMMA MapKeepsRotation ==
  ASSUME RotationInv,
         \/ \E i \in Instances, t \in Tokens : revokeRefreshToken(i, t)
         \/ \E i \in Instances, u \in UserIds : revokeAllRefreshTokens(i, u)
         \/ \E t \in Tokens : Expire(t)
         \/ \E i \in Instances : Restart(i)
  PROVE  (AtHome /\ LoadInv)'
  <1>1. /\ \A i \in Instances : refreshTokens'[i] \subseteq refreshTokens[i]
        /\ UNCHANGED <<login, overlaps>>
        /\ \A r \in Requests : \/ request'[r] = request[r]
                               \/ request'[r] = Idle /\ (Instance(r) \in Instances => refreshTokens'[Instance(r)] = {})
    BY MapEffect DEF RotationInv
  <1>2. \A i \in Instances : None \notin refreshTokens[i]
    BY DEF RotationInv, TypeInv, TypeOK
  <1>3. AtHome'
    BY <1>1, <1>2 DEF RotationInv, AtHome, Token, Instance, Idle
  <1>4. ASSUME NEW s \in Tokens PROVE Free(s)' \subseteq Free(s) /\ Refreshing(s)' \subseteq Refreshing(s)
    <2>1. Refreshing(s)' \subseteq Refreshing(s)
      BY <1>1 DEF Refreshing, Token, Idle
    <2>2. ASSUME NEW x \in Free(s)' PROVE x \in Free(s)
      <3> PICK i \in Instances : x \in refreshTokens'[i]
        BY <2>2 DEF Free, AcceptedIn, Accepted
      <3>1. x \in AcceptedIn(s)
        BY <1>1, <2>2 DEF Free, AcceptedIn, Accepted
      <3>2. ASSUME NEW r \in Requests PROVE Token(r) # x
        <4>1. CASE request'[r] = request[r]
          BY <2>2, <4>1 DEF Free, Unheld, Token
        <4>2. CASE request'[r] # request[r]
          BY <1>1, <4>2 DEF RotationInv, AtHome
        <4> QED BY <4>1, <4>2
      <3> QED BY <3>1, <3>2 DEF Free, Unheld
    <2> QED BY <2>1, <2>2
  <1>5. \A s \in Tokens : overlaps[s] \in Nat
    BY MaxOverlapsAssumption DEF RotationInv, TypeInv, TypeOK
  <1>6. LoadInv'
    <2> SUFFICES ASSUME NEW s \in Tokens PROVE Load(s)' <= 1 + overlaps'[s]
      BY DEF LoadInv
    <2>1. Load(s)' \in Nat /\ Load(s) \in Nat /\ Load(s)' <= Load(s)
      BY <1>4, LoadShrinks DEF RotationInv
    <2> QED BY <1>1, <1>5, <2>1 DEF RotationInv, LoadInv
  <1> QED BY <1>3, <1>6

LEMMA RefreshKeepsRotation ==
  ASSUME RotationInv, NEW r \in Requests, NEW i \in Instances, NEW t \in Tokens, refreshToken(r, i, t)
  PROVE  (AtHome /\ LoadInv)'
  <1>1. /\ UNCHANGED <<refreshTokens, login>>
        /\ t \in refreshTokens[i] /\ t # None /\ login[t] \in Tokens
        /\ \A q \in Requests : q # r => request'[q] = request[q]
        /\ Token(r) = None /\ Token(r)' = t /\ Instance(r)' = i
        /\ \A s \in Tokens : overlaps'[s] =
             IF s = login[t] /\ (\E q \in Requests : Token(q) = t) THEN overlaps[s] + 1 ELSE overlaps[s]
    BY RefreshEffect DEF RotationInv
  <1>2. AtHome'
    BY <1>1 DEF RotationInv, AtHome, TypeInv, TypeOK, Token, Instance
  <1>3. \A s \in Tokens : overlaps[s] \in Nat
    BY MaxOverlapsAssumption DEF RotationInv, TypeInv, TypeOK
  <1>4. \A s : Free(s)' \subseteq Free(s)
    <2>1. \A j \in Instances : None \notin refreshTokens[j]
      BY DEF RotationInv, TypeInv, TypeOK
    <2>2. \A x : x # None /\ Unheld(x)' => Unheld(x)
      BY <1>1 DEF Unheld, Token
    <2>3. \A s : AcceptedIn(s)' = AcceptedIn(s) /\ \A x \in AcceptedIn(s) : x # None
      BY <1>1, <2>1 DEF AcceptedIn, Accepted
    <2> QED BY <2>2, <2>3 DEF Free
  <1>5. LoadInv'
    <2> SUFFICES ASSUME NEW s \in Tokens PROVE Load(s)' <= 1 + overlaps'[s]
      BY DEF LoadInv
    <2>1. CASE s # login[t]
      <3>1. Refreshing(s)' \subseteq Refreshing(s)
        BY <1>1, <2>1 DEF Refreshing, Token
      <3> QED BY <1>1, <1>3, <1>4, <2>1, <3>1, LoadShrinks DEF RotationInv, LoadInv
    <2>2. CASE s = login[t]
      <3>1. Refreshing(s)' \subseteq Refreshing(s) \union {r}
        BY <1>1 DEF Refreshing, Token
      <3>2. /\ Cardinality(Refreshing(s)') \in Nat /\ Cardinality(Refreshing(s)) \in Nat
            /\ Cardinality(Refreshing(s)') <= Cardinality(Refreshing(s)) + 1
        BY <3>1, LoadIsFinite, SizeWithOneMore DEF RotationInv
      <3>3. /\ Cardinality(Free(s)') \in Nat /\ Cardinality(Free(s)) \in Nat
            /\ Cardinality(Free(s)') <= Cardinality(Free(s))
        BY <1>4, LoadIsFinite, SizeOfPart DEF RotationInv
      <3>4. CASE Unheld(t)
        <4>1. t \in Free(s)
          BY <1>1, <2>2, <3>4 DEF Free, AcceptedIn, Accepted
        <4>2. t \notin Free(s)'
          BY <1>1 DEF Free, Unheld
        <4>3. Cardinality(Free(s)') <= Cardinality(Free(s)) - 1
          BY <1>4, <4>1, <4>2, LoadIsFinite, SizeWithOneLess DEF RotationInv
        <4>4. overlaps'[s] = overlaps[s]
          BY <1>1, <3>4 DEF Unheld
        <4> QED BY <1>3, <3>2, <3>3, <4>3, <4>4 DEF Load, RotationInv, LoadInv
      <3>5. CASE ~Unheld(t)
        <4>1. overlaps'[s] = overlaps[s] + 1
          BY <1>1, <2>2, <3>5 DEF Unheld
        <4> QED BY <1>3, <3>2, <3>3, <4>1 DEF Load, RotationInv, LoadInv
      <3> QED BY <3>4, <3>5
    <2> QED BY <2>1, <2>2
  <1> QED BY <1>2, <1>5

(* A login begins a session with its first token.                            *)
LEMMA LoginKeepsRotation ==
  ASSUME RotationInv, NEW r \in Requests, ComparePassword(r)
  PROVE  (AtHome /\ LoadInv)'
  <1> DEFINE i == Instance(r)
             kept == refreshTokens[i]
  <1>0. i \in Instances /\ Token(r) = None /\ UNCHANGED overlaps
    BY LoginIssues DEF RotationInv
  <1> PICK t \in Tokens : Enters(t, r, i, User(r), None, kept)
    BY LoginIssues, IssueEffect DEF RotationInv
  <1>1. /\ login[t] = None /\ \A j \in Instances : t \notin refreshTokens[j]
        /\ refreshTokens'[i] = refreshTokens[i] \union {t}
        /\ \A j \in Instances : j # i => refreshTokens'[j] = refreshTokens[j]
        /\ login'[t] = t
        /\ \A x \in Tokens : x # t => login'[x] = login[x]
        /\ \A q \in Requests : q # r => request'[q] = request[q]
        /\ request'[r] = Idle
        /\ \A q \in Requests : Token(q) # t
    BY DEF Enters
  <1>2. \A q \in Requests : Token(q) = None \/ Token(q) \in Tokens
    BY TokenInFlight DEF RotationInv
  <1>3. /\ \A q \in Requests : Token(q)' \in {Token(q), None} /\ Token(q)' # t
        /\ \A q \in Requests : Token(q)' # None => Instance(q)' = Instance(q) /\ Token(q)' = Token(q)
        /\ \A q \in Requests : Token(q) = Token(q)'
    BY <1>0, <1>1 DEF Token, Instance, Idle
  <1>4. \A j \in Instances : refreshTokens[j] \subseteq Tokens /\ refreshTokens'[j] \subseteq refreshTokens[j] \union {t}
    BY <1>1 DEF RotationInv, TypeInv, TypeOK
  <1>5. AtHome'
    BY <1>3, <1>4 DEF RotationInv, AtHome
  <1>6. \A x \in Tokens : login[x] # t
    BY <1>1, <1>0 DEF RotationInv, TypeInv, Rooted, Issued, TypeOK
  <1>7. ASSUME NEW s \in Tokens, s # t PROVE Load(s)' <= 1 + overlaps'[s]
    <2>1. Free(s)' \subseteq Free(s)
      BY <1>1, <1>3, <1>4, <1>7 DEF Free, AcceptedIn, Accepted, Unheld
    <2>2. Refreshing(s)' \subseteq Refreshing(s)
      BY <1>1, <1>2, <1>3, <1>7 DEF Refreshing
    <2>3. overlaps[s] \in Nat
      BY MaxOverlapsAssumption DEF RotationInv, TypeInv, TypeOK
    <2> QED BY <1>0, <2>1, <2>2, <2>3, LoadShrinks DEF RotationInv, LoadInv
  <1>8. Load(t)' <= 1 + overlaps'[t]
    <2>1. Free(t)' \subseteq {t} /\ Refreshing(t)' = {}
      BY <1>1, <1>2, <1>3, <1>4, <1>6 DEF Free, AcceptedIn, Accepted, Refreshing
    <2>2. Cardinality(Free(t)') \in Nat /\ Cardinality(Free(t)') <= 1
      <3>1. IsFiniteSet({t}) /\ Cardinality({t}) = 1
        BY FS_Singleton
      <3> QED BY <2>1, <3>1, SizeOfPart
    <2>3. Cardinality(Refreshing(t)') = 0
      BY <2>1, FS_EmptySet
    <2>4. overlaps[t] \in Nat
      BY MaxOverlapsAssumption DEF RotationInv, TypeInv, TypeOK
    <2> QED BY <1>0, <2>2, <2>3, <2>4 DEF Load
  <1> QED BY <1>5, <1>7, <1>8 DEF LoadInv

(* An exchange replaces the request that held the token by the new token.    *)
LEMMA ExchangeKeepsRotation ==
  ASSUME RotationInv, NEW r \in Requests, Exchange(r)
  PROVE  (AtHome /\ LoadInv)'
  <1> DEFINE i == Instance(r)
             o == Token(r)
             kept == refreshTokens[i] \ {o}
  <1>0. i \in Instances /\ o \in Tokens /\ o # None /\ login[o] \in Tokens /\ login[o] # None /\ UNCHANGED overlaps
    BY ExchangeIssues DEF RotationInv
  <1>a. \E t \in Tokens : Enters(t, r, i, sub[o], login[o], kept)
    <2>1. kept \subseteq refreshTokens[i] /\ generateTokens(i, sub[o], login[o], kept) /\ End(r)
      BY ExchangeIssues DEF RotationInv
    <2> HIDE DEF kept, i, o
    <2> QED BY <1>0, <2>1, IssueEffect DEF RotationInv
  <1> PICK t \in Tokens : Enters(t, r, i, sub[o], login[o], kept)
    BY <1>a
  <1>1. /\ login[t] = None /\ \A j \in Instances : t \notin refreshTokens[j]
        /\ refreshTokens'[i] = (refreshTokens[i] \ {o}) \union {t}
        /\ \A j \in Instances : j # i => refreshTokens'[j] = refreshTokens[j]
        /\ login'[t] = login[o]
        /\ \A x \in Tokens : x # t => login'[x] = login[x]
        /\ \A q \in Requests : q # r => request'[q] = request[q]
        /\ request'[r] = Idle
        /\ \A q \in Requests : Token(q) # t
    BY <1>0 DEF Enters
  <1>2. \A q \in Requests : Token(q) = None \/ Token(q) \in Tokens
    BY TokenInFlight DEF RotationInv
  <1>3. /\ \A q \in Requests : q # r => Token(q)' = Token(q) /\ Instance(q)' = Instance(q)
        /\ Token(r)' = None
    BY <1>1 DEF Token, Instance, Idle
  <1>4. \A j \in Instances : /\ refreshTokens[j] \subseteq Tokens
                             /\ refreshTokens'[j] \subseteq (refreshTokens[j] \ {o}) \union {t}
    BY <1>1 DEF RotationInv, TypeInv, TypeOK, AtHome
  <1> HIDE DEF i, o, kept
  <1>5. AtHome'
    BY <1>1, <1>3, <1>4 DEF RotationInv, AtHome
  <1>6. \A s : /\ Free(s)' \subseteq Free(s) \union (IF s = login[o] THEN {t} ELSE {})
               /\ Refreshing(s)' \subseteq Refreshing(s) \ {r}
    <2> SUFFICES ASSUME NEW s
                 PROVE  /\ Free(s)' \subseteq Free(s) \union (IF s = login[o] THEN {t} ELSE {})
                        /\ Refreshing(s)' \subseteq Refreshing(s) \ {r}
      OBVIOUS
    <2>1. Refreshing(s)' \subseteq Refreshing(s) \ {r}
      BY <1>1, <1>2, <1>3 DEF Refreshing
    <2>2. ASSUME NEW x \in Free(s)', x # t PROVE x \in Free(s)
      <3>1. x \in AcceptedIn(s) /\ x # o
        BY <1>1, <1>4, <2>2 DEF Free, AcceptedIn, Accepted
      <3>2. \A q \in Requests : Token(q) # x
        BY <1>3, <2>2, <3>1 DEF Free, Unheld, o
      <3> QED BY <3>1, <3>2 DEF Free, Unheld
    <2>3. t \in Free(s)' => s = login[o]
      BY <1>1 DEF Free, AcceptedIn
    <2> QED BY <2>1, <2>2, <2>3
  <1>7. ASSUME NEW s \in Tokens PROVE Load(s)' <= 1 + overlaps'[s]
    <2>1. overlaps[s] \in Nat
      BY MaxOverlapsAssumption DEF RotationInv, TypeInv, TypeOK
    <2>2. CASE s # login[o]
      BY <1>0, <1>6, <2>1, <2>2, LoadShrinks DEF RotationInv, LoadInv
    <2>3. CASE s = login[o]
      <3>1. /\ Cardinality(Free(s)') \in Nat /\ Cardinality(Free(s)) \in Nat
            /\ Cardinality(Free(s)') <= Cardinality(Free(s)) + 1
        BY <1>6, <2>3, LoadIsFinite, SizeWithOneMore DEF RotationInv
      <3>2. r \in Refreshing(s)
        BY <1>0, <2>3 DEF Refreshing, o
      <3>3. /\ Cardinality(Refreshing(s)') \in Nat /\ Cardinality(Refreshing(s)) \in Nat
            /\ Cardinality(Refreshing(s)') <= Cardinality(Refreshing(s)) - 1
        BY <1>6, <3>2, LoadIsFinite, SizeWithOneLess DEF RotationInv
      <3> QED BY <1>0, <2>1, <3>1, <3>3 DEF Load, RotationInv, LoadInv
    <2> QED BY <2>2, <2>3
  <1> QED BY <1>5, <1>7 DEF LoadInv

LEMMA RotationStep == RotationInv /\ [Next]_vars => RotationInv'
  <1> SUFFICES ASSUME RotationInv, [Next]_vars PROVE (AtHome /\ LoadInv)'
    BY TypeStep DEF RotationInv
  <1>1. CASE UNCHANGED vars
    BY <1>1 DEF vars, tokens, RotationInv, AtHome, LoadInv, Load, Free, AcceptedIn, Accepted, Unheld,
                Refreshing, Token, Instance
  <1>2. ASSUME NEW r \in Requests, Serve(r) PROVE (AtHome /\ LoadInv)'
    BY <1>2, QuietEffect, QuietKeepsRotation, RefreshKeepsRotation, LoginKeepsRotation, ExchangeKeepsRotation
    DEF Serve, RotationInv
  <1> QED BY <1>1, <1>2, MapKeepsRotation DEF Next

LEMMA RotationBoundsTokens ==
  ASSUME RotationInv, NEW s \in Tokens
  PROVE  Cardinality(AcceptedIn(s)) <= 1 + overlaps[s]
  <1> DEFINE F == Free(s)
             R == Refreshing(s)
             held == {Token(r) : r \in R}
             f == [r \in R |-> Token(r)]
  <1>1. IsFiniteSet(F) /\ IsFiniteSet(R)
    BY LoadIsFinite DEF RotationInv
  <1>2. f \in Surjection(R, held)
    BY DEF Surjection
  <1>3. IsFiniteSet(held) /\ Cardinality(held) <= Cardinality(R)
    BY <1>1, <1>2, FS_Surjection
  <1>4. AcceptedIn(s) \subseteq F \union held
    <2> SUFFICES ASSUME NEW x \in AcceptedIn(s), NEW r \in Requests, Token(r) = x PROVE r \in R
      BY DEF Free, Unheld
    <2>1. x # None /\ login[x] = s
      BY DEF AcceptedIn, Accepted, RotationInv, TypeInv, TypeOK
    <2> QED BY <2>1 DEF Refreshing
  <1> HIDE DEF held, f
  <1>5. IsFiniteSet(F \union held) /\ Cardinality(F \union held) <= Cardinality(F) + Cardinality(held)
    <2>1. Cardinality(F \intersect held) \in Nat
      BY <1>1, SizeOfPart
    <2>2. Cardinality(F) \in Nat /\ Cardinality(held) \in Nat
      BY <1>1, <1>3, FS_CardinalityType
    <2>3. /\ IsFiniteSet(F \union held)
          /\ Cardinality(F \union held) = Cardinality(F) + Cardinality(held) - Cardinality(F \intersect held)
      BY <1>1, <1>3, FS_Union
    <2> QED BY <2>1, <2>2, <2>3
  <1>6. Cardinality(AcceptedIn(s)) <= Cardinality(F \union held)
    BY <1>4, <1>5, SizeOfPart
  <1>7. Cardinality(F) + Cardinality(R) <= 1 + overlaps[s]
    BY DEF RotationInv, LoadInv, Load
  <1>8. /\ Cardinality(F) \in Nat /\ Cardinality(R) \in Nat /\ Cardinality(held) \in Nat
        /\ Cardinality(AcceptedIn(s)) \in Nat /\ Cardinality(F \union held) \in Nat /\ overlaps[s] \in Nat
    <2>1. Cardinality(AcceptedIn(s)) \in Nat
      BY <1>4, <1>5, SizeOfPart
    <2> QED BY <1>1, <1>3, <1>5, <2>1, FS_CardinalityType, MaxOverlapsAssumption DEF RotationInv, TypeInv, TypeOK
  <1> HIDE DEF F, R
  <1> QED BY <1>3, <1>5, <1>6, <1>7, <1>8

(* Rotation, overlapping refreshes included: beyond its one token a session  *)
(* has no more accepted tokens than refreshes of it that were begun while    *)
(* the same token was being refreshed, over any number of instances.         *)
THEOREM RotationKeepsFewTokens == Spec => []ExtraTokensAreOverlaps
  <1>1. RotationInv => ExtraTokensAreOverlaps
    BY RotationBoundsTokens DEF ExtraTokensAreOverlaps
  <1>2. Init => RotationInv
    BY TypeInit, RotationInit DEF RotationInv
  <1> QED BY <1>1, <1>2, RotationStep, PTL DEF Spec
=============================================================================
