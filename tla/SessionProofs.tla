------------------------------ MODULE SessionProofs ---------------------------
(***************************************************************************)
(* Theorems about Auth, for any number of users, tokens and requests in    *)
(* flight; and about WebSession: the panel serves the browser as Auth says,*)
(* so what is proved of Auth holds, and the token that is stored works,    *)
(* however the browser's requests interleave.  Last, about ConfigsPage.    *)
(***************************************************************************)
EXTENDS WebSession, ConfigsPage, FiniteSetTheorems, TLAPS

Issuing == {"register", "login", "refresh"}

\* A request that will use up the token it has presented.
Rotates(r, t) == /\ r.op = "refresh" /\ r.pc \in {"loading", "rotating", "storing"}
                 /\ r.token = t
Rotators(t)   == {c \in Calls : Rotates(h[c], t)}

Tables ==
  /\ status \in [Users -> {"none", "ACTIVE", "BLOCKED"}]
  /\ token  \in [Tokens -> Row]
  /\ access \subseteq Tokens
  /\ late   \in [Users -> Nat]
  /\ told   \in [Users -> BOOLEAN]
  /\ \A t \in Tokens : token[t].state # "dead" => token[t].user \in Users

\* What a request has in hand is known to the tables; the token that it has
\* rotated works no more.
CallOK(c) ==
  /\ Typed(h[c])
  /\ h[c].token \in Tokens => token[h[c].token].user \in Users
  /\ h[c].pc = "ok" /\ h[c].op \in Issuing => h[c].token \in Tokens
  /\ h[c].pc = "updating" => status[h[c].user] # "none"
  /\ h[c].pc = "storing" /\ h[c].op = "refresh" => token[h[c].token].state # "live"

\* The pairs issued for a token and the requests that may still get one.
UsesOK(t) ==
  /\ token[t].state = "live" => token[t].uses = 0
  /\ token[t].uses + Cardinality(Rotators(t)) <= Cardinality(Calls)

\* The pairs issued to a blocked user and the requests that may still get one: the
\* block itself was in flight, too.
LateOK(u) ==
  status[u] = "BLOCKED" =>
    /\ late[u] + Cardinality(PastCheck(u)) < Cardinality(Calls)
    /\ told[u] => Cardinality(Live(u)) <= late[u]

AuthInv == /\ Tables /\ h \in [Calls -> Handler]
           /\ \A c \in Calls : CallOK(c)
           /\ \A t \in Tokens : UsesOK(t)
           /\ \A u \in Users : LateOK(u)

-------------------------------------------------------------------------------
\* Counting requests and tokens.
LEMMA Fewer ==
  ASSUME NEW T, IsFiniteSet(T), NEW S \in SUBSET T
  PROVE  /\ IsFiniteSet(S) /\ Cardinality(S) \in Nat /\ Cardinality(T) \in Nat
         /\ Cardinality(S) <= Cardinality(T)
BY FS_Subset, FS_CardinalityType

LEMMA OneFewer ==
  ASSUME NEW T, IsFiniteSet(T), NEW x \in T, NEW S \in SUBSET (T \ {x})
  PROVE  Cardinality(S) \in Nat /\ Cardinality(T) \in Nat /\ Cardinality(S) < Cardinality(T)
<1>1. IsFiniteSet(T \ {x}) /\ Cardinality(T \ {x}) = Cardinality(T) - 1
  BY FS_RemoveElement
<1>2. Cardinality(S) <= Cardinality(T \ {x}) /\ Cardinality(S) \in Nat
  BY <1>1, Fewer
<1>3. Cardinality(T) \in Nat
  BY FS_CardinalityType
<1> QED BY <1>1, <1>2, <1>3

LEMMA OneMore ==
  ASSUME NEW T, IsFiniteSet(T), NEW x
  PROVE  Cardinality(T \cup {x}) <= Cardinality(T) + 1
<1>1. Cardinality(T) \in Nat /\ Cardinality(T \cup {x}) \in Nat
  BY FS_AddElement, FS_CardinalityType
<1>2. Cardinality(T \cup {x}) = IF x \in T THEN Cardinality(T) ELSE Cardinality(T) + 1
  BY FS_AddElement
<1> QED BY <1>1, <1>2

LEMMA UsesKept ==
  ASSUME NEW t, UsesOK(t), Rotators(t)' \subseteq Rotators(t),
         token'[t].uses = token[t].uses, token[t].uses \in Nat,
         token'[t].state = "live" => token[t].state = "live"
  PROVE  UsesOK(t)'
<1>1. IsFiniteSet(Rotators(t)) /\ Cardinality(Calls) \in Nat
  BY AuthAssumption, Fewer, FS_CardinalityType DEF Rotators
<1>2. /\ Cardinality(Rotators(t)') <= Cardinality(Rotators(t))
      /\ Cardinality(Rotators(t)') \in Nat /\ Cardinality(Rotators(t)) \in Nat
  BY <1>1, Fewer
<1> QED BY <1>1, <1>2 DEF UsesOK

LEMMA LateKept ==
  ASSUME NEW u, LateOK(u), PastCheck(u)' \subseteq PastCheck(u), Live(u)' \subseteq Live(u),
         late[u] \in Nat,
         status'[u] = "BLOCKED" =>
           status[u] = "BLOCKED" /\ late'[u] = late[u] /\ told'[u] = told[u]
  PROVE  LateOK(u)'
<1>1. IsFiniteSet(PastCheck(u)) /\ Cardinality(Calls) \in Nat /\ IsFiniteSet(Live(u))
  BY AuthAssumption, Fewer, FS_CardinalityType DEF PastCheck, Live
<1>2. /\ Cardinality(PastCheck(u)') <= Cardinality(PastCheck(u))
      /\ Cardinality(PastCheck(u)') \in Nat /\ Cardinality(PastCheck(u)) \in Nat
      /\ Cardinality(Live(u)') <= Cardinality(Live(u))
      /\ Cardinality(Live(u)') \in Nat /\ Cardinality(Live(u)) \in Nat
  BY <1>1, Fewer
<1> QED BY <1>1, <1>2 DEF LateOK
-------------------------------------------------------------------------------
\* What the steps do to the request that takes them.
Pcs == {"idle", "verifying", "hashing", "loading", "rotating", "storing",
        "updating", "revoking", "ok", "refused"}

Moved(c) == h' \in [Calls -> Handler] /\ \A d \in Calls \ {c} : h'[d] = h[d]

LEMMA MoveFacts ==
  ASSUME h \in [Calls -> Handler], NEW c \in Calls, NEW from, NEW to \in Pcs, Move(c, from, to)
  PROVE  /\ Moved(c) /\ h[c].pc = from /\ h'[c].pc = to
         /\ h'[c].op = h[c].op /\ h'[c].user = h[c].user /\ h'[c].token = h[c].token
BY DEF Move, Moved, Handler, Pcs

LEMMA BeginFacts ==
  ASSUME h \in [Calls -> Handler], NEW c \in Calls, NEW pc \in Pcs,
         NEW op \in {"register", "login", "refresh", "logout", "BLOCKED", "ACTIVE"},
         NEW u \in Users \cup {None}, NEW t \in Tokens \cup {None}, Begin(c, op, u, t, pc)
  PROVE  /\ Moved(c) /\ h[c] = Idle /\ h'[c].pc = pc
         /\ h'[c].op = op /\ h'[c].user = u /\ h'[c].token = t
BY DEF Begin, Moved, Handler, Pcs

LEMMA AnswerFacts ==
  ASSUME h \in [Calls -> Handler], NEW c \in Calls, Answer(c)
  PROVE  Moved(c) /\ Answered(c) /\ h'[c] = Idle
BY DEF Answer, Moved, Handler, Idle

LEMMA IdleOK ==
  ASSUME NEW c \in Calls, h'[c] = Idle
  PROVE  CallOK(c)' /\ (\A t \in Tokens : ~Rotates(h'[c], t)) /\ ~(Checked(c)')
BY AuthAssumption DEF CallOK, Typed, Idle, Rotates, Checked

\* A step of request c that makes nothing live.
LEMMA QuietStep ==
  ASSUME AuthInv, NEW c \in Calls, Moved(c), Tables', CallOK(c)',
         \A u \in Users : LateOK(u)',
         \A u \in Users : status[u] # "none" => status'[u] # "none",
         \A t \in Tokens : /\ token'[t].user = token[t].user /\ token'[t].uses = token[t].uses
                           /\ token'[t].state = "live" => token[t].state = "live",
         \A t \in Tokens : Rotates(h'[c], t) => Rotates(h[c], t) \/ token[t].state = "live"
  PROVE  AuthInv'
<1>1. ASSUME NEW d \in Calls, d # c PROVE CallOK(d)'
  <2>1. h'[d] = h[d] /\ CallOK(d)
    BY <1>1 DEF AuthInv, Moved
  <2> QED BY <2>1 DEF CallOK, Typed
<1>2. ASSUME NEW t \in Tokens PROVE UsesOK(t)'
  <2>1. UsesOK(t) /\ token[t].uses \in Nat
    BY DEF AuthInv, Tables, Row
  <2>2. CASE ~Rotates(h'[c], t) \/ Rotates(h[c], t)
    <3>1. Rotators(t)' \subseteq Rotators(t)
      BY <2>2 DEF Rotators, Moved, Rotates
    <3> QED BY <2>1, <3>1, UsesKept
  <2>3. CASE token[t].state = "live"
    <3>1. token'[t].uses = 0
      BY <2>1, <2>3 DEF UsesOK
    <3>2. Cardinality(Rotators(t)') <= Cardinality(Calls) /\ Cardinality(Rotators(t)') \in Nat
      BY AuthAssumption, Fewer DEF Rotators
    <3> QED BY <3>1, <3>2 DEF UsesOK
  <2> QED BY <2>2, <2>3
<1> QED BY <1>1, <1>2 DEF AuthInv, Moved

\* Nothing becomes live, and the request gets past no check for a blocked user.
LEMMA LateQuiet ==
  ASSUME AuthInv, NEW c \in Calls, Moved(c), NEW u \in Users,
         status'[u] = "BLOCKED" =>
           /\ status[u] = "BLOCKED" /\ late'[u] = late[u] /\ told'[u] = told[u]
           /\ Checked(c)' /\ h'[c].user = u => Checked(c) /\ h[c].user = u,
         \A t \in Tokens : /\ token'[t].user = token[t].user
                           /\ token'[t].state = "live" => token[t].state = "live"
  PROVE  LateOK(u)'
<1>1. CASE status'[u] # "BLOCKED"
  BY <1>1 DEF LateOK
<1>2. CASE status'[u] = "BLOCKED"
  <2>1. PastCheck(u)' \subseteq PastCheck(u)
    BY <1>2 DEF PastCheck, Checked, Moved
  <2>2. Live(u)' \subseteq Live(u)
    BY DEF Live
  <2> QED BY <1>2, <2>1, <2>2, LateKept DEF AuthInv, Tables
<1> QED BY <1>1, <1>2

\* A step that changes requests only.
LEMMA RequestStep ==
  ASSUME AuthInv, NEW c \in Calls, Moved(c), CallOK(c)',
         UNCHANGED <<status, token, access, late, told>>,
         \A t \in Tokens : Rotates(h'[c], t) => Rotates(h[c], t) \/ token[t].state = "live",
         \A u \in Users : status[u] = "BLOCKED" /\ Checked(c)' /\ h'[c].user = u =>
                             Checked(c) /\ h[c].user = u
  PROVE  AuthInv'
<1>1. Tables'
  BY DEF AuthInv, Tables
<1>2. \A u \in Users : LateOK(u)'
  BY LateQuiet
<1> QED BY <1>1, <1>2, QuietStep

-------------------------------------------------------------------------------
\* The actions, one by one.
LEMMA BeginRegisterOK ==
  ASSUME AuthInv, NEW c \in Calls, NEW u \in Users, BeginRegister(c, u) PROVE AuthInv'
<1>1. PICK pc \in {"hashing", "refused"} : Begin(c, "register", u, None, pc)
  BY DEF BeginRegister
<1>2. /\ Moved(c) /\ h'[c].pc = pc /\ h'[c].op = "register"
      /\ h'[c].user = u /\ h'[c].token = None
  BY <1>1, BeginFacts DEF AuthInv, Pcs
<1>3. UNCHANGED <<status, token, access, late, told>>
  BY DEF BeginRegister
<1>4. CallOK(c)' /\ (\A t \in Tokens : ~Rotates(h'[c], t)) /\ ~(Checked(c)')
  BY <1>2, AuthAssumption DEF CallOK, Typed, Rotates, Checked
<1> QED BY <1>2, <1>3, <1>4, RequestStep

LEMMA CreateUserOK ==
  ASSUME AuthInv, NEW c \in Calls, CreateUser(c) PROVE AuthInv'
<1>1. CallOK(c) /\ UNCHANGED <<token, access, late, told>>
  BY DEF AuthInv, CreateUser
<1>2. CASE Move(c, "hashing", "storing") /\ status[h[c].user] = "none"
           /\ status' = [status EXCEPT ![h[c].user] = "ACTIVE"]
  <2>1. /\ Moved(c) /\ h[c].pc = "hashing" /\ h'[c].pc = "storing"
        /\ h'[c].op = h[c].op /\ h'[c].user = h[c].user /\ h'[c].token = h[c].token
    BY <1>2, MoveFacts DEF AuthInv, Pcs
  <2>2. h[c].op = "register" /\ h[c].user \in Users /\ h[c].token = None
    BY <1>1, <2>1 DEF CallOK, Typed
  <2>3. /\ Tables' /\ status'[h[c].user] = "ACTIVE"
        /\ \A u \in Users : status[u] # "none" => status'[u] # "none"
        /\ \A u \in Users \ {h[c].user} : status'[u] = status[u]
    BY <1>1, <1>2, <2>2 DEF AuthInv, Tables
  <2>4. CallOK(c)' /\ \A t \in Tokens : ~Rotates(h'[c], t)
    BY <1>1, <2>1, <2>2, AuthAssumption DEF CallOK, Typed, Rotates, Idle
  <2>5. ASSUME NEW u \in Users PROVE LateOK(u)'
    BY <1>1, <2>1, <2>3, LateQuiet
  <2> QED BY <1>1, <2>1, <2>3, <2>4, <2>5, QuietStep
<1>3. CASE Move(c, "hashing", "refused") /\ UNCHANGED status
  <2>1. /\ Moved(c) /\ h[c].pc = "hashing" /\ h'[c].pc = "refused"
        /\ h'[c].op = h[c].op /\ h'[c].user = h[c].user /\ h'[c].token = h[c].token
    BY <1>3, MoveFacts DEF AuthInv, Pcs
  <2>2. CallOK(c)' /\ (\A t \in Tokens : ~Rotates(h'[c], t)) /\ ~(Checked(c)')
    BY <1>1, <2>1 DEF CallOK, Typed, Rotates, Checked, Idle
  <2> QED BY <1>1, <1>3, <2>1, <2>2, RequestStep
<1> QED BY <1>2, <1>3 DEF CreateUser

LEMMA BeginLoginOK ==
  ASSUME AuthInv, NEW c \in Calls, NEW u \in Users, BeginLogin(c, u) PROVE AuthInv'
<1>1. PICK pc \in {"verifying", "refused"} :
        Begin(c, "login", u, None, pc) /\ (pc = "verifying" => status[u] = "ACTIVE")
  BY DEF BeginLogin
<1>2. /\ Moved(c) /\ h'[c].pc = pc /\ h'[c].op = "login"
      /\ h'[c].user = u /\ h'[c].token = None
  BY <1>1, BeginFacts DEF AuthInv, Pcs
<1>3. UNCHANGED <<status, token, access, late, told>>
  BY DEF BeginLogin
<1>4. CallOK(c)' /\ (\A t \in Tokens : ~Rotates(h'[c], t)) /\ (Checked(c)' => status[u] = "ACTIVE")
  BY <1>1, <1>2, AuthAssumption DEF CallOK, Typed, Rotates, Checked
<1> QED BY <1>2, <1>3, <1>4, RequestStep

LEMMA VerifyPasswordOK ==
  ASSUME AuthInv, NEW c \in Calls, VerifyPassword(c) PROVE AuthInv'
<1>1. CallOK(c) /\ UNCHANGED <<status, token, access, late, told>>
  BY DEF AuthInv, VerifyPassword
<1>2. PICK pc \in {"storing", "refused"} : Move(c, "verifying", pc)
  BY DEF VerifyPassword
<1>3. /\ Moved(c) /\ h[c].pc = "verifying" /\ h'[c].pc = pc
      /\ h'[c].op = h[c].op /\ h'[c].user = h[c].user /\ h'[c].token = h[c].token
  BY <1>2, MoveFacts DEF AuthInv, Pcs
<1>4. h[c].op = "login"
  BY <1>1, <1>3 DEF CallOK, Typed
<1>5. CallOK(c)' /\ (\A t \in Tokens : ~Rotates(h'[c], t)) /\ Checked(c)
  BY <1>1, <1>3, <1>4 DEF CallOK, Typed, Rotates, Checked, Idle
<1> QED BY <1>1, <1>3, <1>5, RequestStep

LEMMA BeginRefreshOK ==
  ASSUME AuthInv, NEW c \in Calls, NEW t \in Tokens, token[t].user # None, BeginRefresh(c, t)
  PROVE  AuthInv'
<1>1. PICK pc \in {"loading", "refused"} :
        Begin(c, "refresh", token[t].user, t, pc) /\ (pc = "loading" => token[t].state = "live")
  BY DEF BeginRefresh
<1>2. token[t].user \in Users
  BY DEF AuthInv, Tables, Row
<1>3. /\ Moved(c) /\ h'[c].pc = pc /\ h'[c].op = "refresh"
      /\ h'[c].user = token[t].user /\ h'[c].token = t
  BY <1>1, <1>2, BeginFacts DEF AuthInv, Pcs
<1>4. UNCHANGED <<status, token, access, late, told>>
  BY DEF BeginRefresh
<1>5. /\ CallOK(c)' /\ ~(Checked(c)')
      /\ \A s \in Tokens : Rotates(h'[c], s) => token[s].state = "live"
  BY <1>1, <1>2, <1>3, <1>4 DEF CallOK, Typed, Rotates, Checked
<1> QED BY <1>3, <1>4, <1>5, RequestStep

LEMMA LoadUserOK ==
  ASSUME AuthInv, NEW c \in Calls, LoadUser(c) PROVE AuthInv'
<1>1. CallOK(c) /\ UNCHANGED <<status, token, access, late, told>>
  BY DEF AuthInv, LoadUser
<1>2. PICK pc \in {"rotating", "refused"} :
        Move(c, "loading", pc) /\ (pc = "rotating" => status[h[c].user] = "ACTIVE")
  BY DEF LoadUser
<1>3. /\ Moved(c) /\ h[c].pc = "loading" /\ h'[c].pc = pc
      /\ h'[c].op = h[c].op /\ h'[c].user = h[c].user /\ h'[c].token = h[c].token
  BY <1>2, MoveFacts DEF AuthInv, Pcs
<1>4. /\ CallOK(c)' /\ (Checked(c)' => status[h'[c].user] = "ACTIVE")
      /\ \A t \in Tokens : Rotates(h'[c], t) => Rotates(h[c], t)
  BY <1>1, <1>2, <1>3 DEF CallOK, Typed, Rotates, Checked, Idle
<1> QED BY <1>1, <1>3, <1>4, RequestStep

LEMMA BeginSetStatusOK ==
  ASSUME AuthInv, NEW c \in Calls, NEW u \in Users, NEW s \in {"BLOCKED", "ACTIVE"},
         BeginSetStatus(c, u, s)
  PROVE  AuthInv'
<1>1. Begin(c, s, u, None, "updating") /\ status[u] # "none"
      /\ UNCHANGED <<status, token, access, late, told>>
  BY DEF BeginSetStatus
<1>2. /\ Moved(c) /\ h'[c].pc = "updating" /\ h'[c].op = s
      /\ h'[c].user = u /\ h'[c].token = None
  BY <1>1, BeginFacts DEF AuthInv, Pcs
<1>3. CallOK(c)' /\ (\A t \in Tokens : ~Rotates(h'[c], t)) /\ ~(Checked(c)')
  BY <1>1, <1>2, AuthAssumption DEF CallOK, Typed, Rotates, Checked
<1> QED BY <1>1, <1>2, <1>3, RequestStep

LEMMA HandlerFailsOK ==
  ASSUME AuthInv, NEW c \in Calls, HandlerFails(c) PROVE AuthInv'
<1>1. CallOK(c) /\ UNCHANGED <<status, token, access, late, told>>
  BY DEF AuthInv, HandlerFails
<1>2. h[c] # Idle /\ ~Answered(c) /\ h' = [h EXCEPT ![c].pc = "refused"]
  BY DEF HandlerFails
<1>3. /\ Moved(c) /\ h'[c].pc = "refused"
      /\ h'[c].op = h[c].op /\ h'[c].user = h[c].user /\ h'[c].token = h[c].token
  BY <1>2 DEF AuthInv, Moved, Handler
<1>4. CallOK(c)' /\ (\A t \in Tokens : ~Rotates(h'[c], t)) /\ ~(Checked(c)')
  BY <1>1, <1>2, <1>3 DEF CallOK, Typed, Rotates, Checked, Answered
<1> QED BY <1>1, <1>3, <1>4, RequestStep

LEMMA AnswerOK ==
  ASSUME AuthInv, NEW c \in Calls, Answer(c), UNCHANGED <<status, token, access, late, told>>
  PROVE  AuthInv'
<1>1. Moved(c) /\ h'[c] = Idle
  BY AnswerFacts DEF AuthInv
<1> QED BY <1>1, IdleOK, RequestStep

LEMMA RevokeFacts ==
  ASSUME Tables, NEW t \in Tokens, NEW why \in {"rotated", "loggedOut", "dead"}
  PROVE  /\ Revoke(t, why) \in Row /\ Revoke(t, why).user = token[t].user
         /\ Revoke(t, why).uses = token[t].uses /\ Revoke(t, why).state # "live"
         /\ Revoke(t, why).state # "dead" => token[t].state # "dead"
<1>1. PICK r \in Row : token[t] = r
  BY DEF Tables
<1>2. PICK r2 \in Row : r2 = [user |-> r.user, uses |-> r.uses, state |-> why]
  BY DEF Row
<1>3. Revoke(t, why) = IF r.state = "live" THEN r2 ELSE r
  BY <1>1, <1>2 DEF Revoke, Row
<1> QED BY <1>1, <1>2, <1>3 DEF Row

LEMMA RotateOK ==
  ASSUME AuthInv, NEW c \in Calls, Rotate(c) PROVE AuthInv'
<1>1. CallOK(c) /\ UNCHANGED <<status, access, late, told>> /\ Move(c, "rotating", "storing")
  BY DEF AuthInv, Rotate
<1>2. /\ Moved(c) /\ h[c].pc = "rotating" /\ h'[c].pc = "storing"
      /\ h'[c].op = h[c].op /\ h'[c].user = h[c].user /\ h'[c].token = h[c].token
  BY <1>1, MoveFacts DEF AuthInv, Pcs
<1>3. h[c].op = "refresh" /\ h[c].token \in Tokens /\ h[c].user \in Users
  BY <1>1, <1>2 DEF CallOK, Typed
<1>4. PICK r \in Row : /\ r = Revoke(h[c].token, "rotated") /\ r.user = token[h[c].token].user
                       /\ r.uses = token[h[c].token].uses /\ r.state # "live"
                       /\ r.state # "dead" => token[h[c].token].state # "dead"
  BY <1>3, RevokeFacts DEF AuthInv
<1>5. token' = [token EXCEPT ![h[c].token] = r]
  BY <1>4 DEF Rotate
<1>6. /\ Tables' /\ token'[h[c].token] = r
      /\ \A t \in Tokens : /\ token'[t].user = token[t].user /\ token'[t].uses = token[t].uses
                           /\ token'[t].state = "live" => token[t].state = "live"
  BY <1>1, <1>3, <1>4, <1>5 DEF AuthInv, Tables
<1>7. /\ CallOK(c)' /\ Checked(c)
      /\ \A t \in Tokens : Rotates(h'[c], t) => Rotates(h[c], t)
  BY <1>1, <1>2, <1>3, <1>4, <1>6 DEF CallOK, Typed, Rotates, Checked, Idle
<1>8. ASSUME NEW u \in Users PROVE LateOK(u)'
  BY <1>1, <1>2, <1>6, <1>7, LateQuiet
<1> QED BY <1>1, <1>2, <1>6, <1>7, <1>8, QuietStep

LEMMA LogoutOK ==
  ASSUME AuthInv, NEW c \in Calls, NEW t \in Tokens, token[t].user # None, Logout(c, t)
  PROVE  AuthInv'
<1>1. Begin(c, "logout", token[t].user, t, "ok") /\ UNCHANGED <<status, access, late, told>>
  BY DEF Logout
<1>2. token[t].user \in Users
  BY DEF AuthInv, Tables, Row
<1>3. /\ Moved(c) /\ h'[c].pc = "ok" /\ h'[c].op = "logout"
      /\ h'[c].user = token[t].user /\ h'[c].token = t
  BY <1>1, <1>2, BeginFacts DEF AuthInv, Pcs
<1>4. PICK r \in Row : /\ r = Revoke(t, "loggedOut") /\ r.user = token[t].user
                       /\ r.uses = token[t].uses /\ r.state # "live"
                       /\ r.state # "dead" => token[t].state # "dead"
  BY RevokeFacts DEF AuthInv
<1>5. token' = [token EXCEPT ![t] = r]
  BY <1>4 DEF Logout
<1>6. /\ Tables'
      /\ \A s \in Tokens : /\ token'[s].user = token[s].user /\ token'[s].uses = token[s].uses
                           /\ token'[s].state = "live" => token[s].state = "live"
  BY <1>1, <1>4, <1>5 DEF AuthInv, Tables
<1>7. /\ CallOK(c)' /\ ~(Checked(c)') /\ (\A s \in Tokens : ~Rotates(h'[c], s))
  BY <1>2, <1>3, <1>6 DEF CallOK, Typed, Rotates, Checked, Issuing
<1>8. ASSUME NEW u \in Users PROVE LateOK(u)'
  BY <1>1, <1>3, <1>6, <1>7, LateQuiet
<1> QED BY <1>1, <1>3, <1>6, <1>7, <1>8, QuietStep

LEMMA UpdateStatusOK ==
  ASSUME AuthInv, NEW c \in Calls, UpdateStatus(c) PROVE AuthInv'
<1> DEFINE u == h[c].user
           blocks == h[c].op = "BLOCKED" /\ status[u] = "ACTIVE"
<1>1. CallOK(c) /\ UNCHANGED <<token, access>>
  BY DEF AuthInv, UpdateStatus
<1>2. PICK pc \in {"revoking", "ok"} :
        Move(c, "updating", pc) /\ (pc = "revoking" <=> h[c].op = "BLOCKED")
  BY DEF UpdateStatus
<1>3. /\ Moved(c) /\ h[c].pc = "updating" /\ h'[c].pc = pc
      /\ h'[c].op = h[c].op /\ h'[c].user = u /\ h'[c].token = h[c].token
  BY <1>2, MoveFacts DEF AuthInv, Pcs
<1>4. u \in Users /\ h[c].op \in {"BLOCKED", "ACTIVE"} /\ status[u] \in {"ACTIVE", "BLOCKED"}
  BY <1>1, <1>3 DEF CallOK, Typed, AuthInv, Tables
<1>5. PICK n \in Nat, b \in BOOLEAN :
        /\ late' = [late EXCEPT ![u] = n] /\ told' = [told EXCEPT ![u] = b]
        /\ n = (IF blocks THEN 0 ELSE late[u]) /\ b = (IF blocks THEN FALSE ELSE told[u])
  BY <1>4 DEF AuthInv, Tables, UpdateStatus
<1>6. /\ Tables' /\ status'[u] = h[c].op /\ late'[u] = n /\ told'[u] = b
      /\ \A v \in Users \ {u} : status'[v] = status[v] /\ late'[v] = late[v] /\ told'[v] = told[v]
      /\ \A v \in Users : status[v] # "none" => status'[v] # "none"
  <2>1. status' = [status EXCEPT ![u] = h[c].op]
    BY DEF UpdateStatus
  <2>2. /\ status' \in [Users -> {"none", "ACTIVE", "BLOCKED"}] /\ status'[u] = h[c].op
        /\ \A v \in Users \ {u} : status'[v] = status[v]
    BY <2>1, <1>4 DEF AuthInv, Tables
  <2>3. /\ late' \in [Users -> Nat] /\ late'[u] = n /\ told' \in [Users -> BOOLEAN] /\ told'[u] = b
        /\ \A v \in Users \ {u} : late'[v] = late[v] /\ told'[v] = told[v]
    BY <1>4, <1>5 DEF AuthInv, Tables
  <2> QED BY <1>1, <1>4, <2>2, <2>3 DEF AuthInv, Tables
<1>7. CallOK(c)' /\ (\A t \in Tokens : ~Rotates(h'[c], t)) /\ ~(Checked(c)')
  BY <1>1, <1>2, <1>3, <1>4 DEF CallOK, Typed, Rotates, Checked, Issuing, Idle
<1>8. ASSUME NEW v \in Users PROVE LateOK(v)'
  <2>1. CASE v = u /\ blocks
    <3>1. late'[v] = 0 /\ told'[v] = FALSE
      BY <1>5, <1>6, <2>1
    <3>2. PastCheck(v)' \subseteq Calls \ {c}
      BY <1>7 DEF PastCheck
    <3>3. Cardinality(PastCheck(v)') < Cardinality(Calls) /\ Cardinality(PastCheck(v)') \in Nat
      BY <3>2, OneFewer, AuthAssumption
    <3> QED BY <3>1, <3>3 DEF LateOK
  <2>2. CASE ~(v = u /\ blocks)
    <3>1. status'[v] = "BLOCKED" =>
            status[v] = "BLOCKED" /\ late'[v] = late[v] /\ told'[v] = told[v]
      BY <1>4, <1>5, <1>6, <2>2
    <3> QED BY <1>1, <1>3, <1>7, <3>1, LateQuiet
  <2> QED BY <2>1, <2>2
<1> QED BY <1>1, <1>3, <1>6, <1>7, <1>8, QuietStep

LEMMA RevokeAllOK ==
  ASSUME AuthInv, NEW c \in Calls, RevokeAllForUser(c) PROVE AuthInv'
<1> DEFINE u == h[c].user
<1>1. CallOK(c) /\ UNCHANGED <<status, access, late>> /\ Move(c, "revoking", "ok")
  BY DEF AuthInv, RevokeAllForUser
<1>2. /\ Moved(c) /\ h[c].pc = "revoking" /\ h'[c].pc = "ok"
      /\ h'[c].op = h[c].op /\ h'[c].user = u /\ h'[c].token = h[c].token
  BY <1>1, MoveFacts DEF AuthInv, Pcs
<1>3. h[c].op = "BLOCKED" /\ u \in Users
  BY <1>1, <1>2 DEF CallOK, Typed
<1>4. ASSUME NEW t \in Tokens
      PROVE  /\ token'[t] \in Row /\ token'[t].user = token[t].user
             /\ token'[t].uses = token[t].uses
             /\ token'[t].state # "dead" => token[t].state # "dead"
             /\ token'[t].state = "live" => token[t].state = "live" /\ token[t].user # u
  <2>1. token[t] \in Row /\ token'[t] = IF token[t].user = u THEN Revoke(t, "dead") ELSE token[t]
    BY DEF AuthInv, Tables, RevokeAllForUser
  <2>2. PICK r \in Row : /\ r = Revoke(t, "dead") /\ r.user = token[t].user
                         /\ r.uses = token[t].uses /\ r.state # "live"
                         /\ r.state # "dead" => token[t].state # "dead"
    BY RevokeFacts DEF AuthInv
  <2> QED BY <2>1, <2>2
<1>5. /\ told' \in [Users -> BOOLEAN]
      /\ \A v \in Users \ {u} : told'[v] = told[v]
  BY <1>3 DEF AuthInv, Tables, RevokeAllForUser
<1>6. Tables'
  <2>1. token' = [t \in Tokens |-> token'[t]]
    BY DEF RevokeAllForUser
  <2>2. token' \in [Tokens -> Row]
    BY <1>4, <2>1
  <2> QED BY <1>1, <1>4, <1>5, <2>2 DEF AuthInv, Tables
<1>7. CallOK(c)' /\ (\A t \in Tokens : ~Rotates(h'[c], t)) /\ ~(Checked(c)')
  BY <1>1, <1>2, <1>3, <1>4 DEF CallOK, Typed, Rotates, Checked, Issuing, Idle
<1>8. ASSUME NEW v \in Users PROVE LateOK(v)'
  <2>1. CASE v # u
    BY <1>1, <1>2, <1>4, <1>5, <1>7, <2>1, LateQuiet
  <2>2. CASE v = u
    <3>1. Live(v)' = {} /\ Cardinality({}) = 0
      BY <1>4, <2>2, FS_EmptySet DEF Live
    <3>2. PastCheck(v)' \subseteq PastCheck(v)
      BY <1>2, <1>7 DEF PastCheck, Checked, Moved
    <3>3. IsFiniteSet(PastCheck(v)) /\ Cardinality(Calls) \in Nat
      BY AuthAssumption, Fewer, FS_CardinalityType DEF PastCheck
    <3>4. /\ Cardinality(PastCheck(v)') <= Cardinality(PastCheck(v))
          /\ Cardinality(PastCheck(v)') \in Nat /\ Cardinality(PastCheck(v)) \in Nat
      BY <3>2, <3>3, Fewer
    <3>5. LateOK(v) /\ late[v] \in Nat /\ late'[v] = late[v] /\ status'[v] = status[v]
      BY <1>1 DEF AuthInv, Tables
    <3> QED BY <3>1, <3>3, <3>4, <3>5 DEF LateOK
  <2> QED BY <2>1, <2>2
<1> QED BY <1>1, <1>2, <1>4, <1>6, <1>7, <1>8, QuietStep

\* Steps of no request: any request stands for the one that QuietStep asks for.
LEMMA ExpireAccessOK ==
  ASSUME AuthInv, NEW t \in Tokens, ExpireAccess(t) PROVE AuthInv'
<1>1. UNCHANGED <<status, token, h, late, told>> /\ access' \subseteq access
  BY DEF ExpireAccess
<1>2. PICK c \in Calls : TRUE
  BY AuthAssumption
<1>3. Tables' /\ Moved(c)
  BY <1>1 DEF AuthInv, Tables, Moved
<1>4. CallOK(c)'
  BY <1>1 DEF AuthInv, CallOK, Typed
<1>5. ASSUME NEW u \in Users PROVE LateOK(u)'
  BY <1>1, <1>3, LateQuiet DEF Checked
<1> QED BY <1>1, <1>3, <1>4, <1>5, QuietStep

LEMMA ExpireRefreshOK ==
  ASSUME AuthInv, NEW t \in Tokens, ExpireRefresh(t) PROVE AuthInv'
<1>1. /\ UNCHANGED <<status, access, h, late, told>> /\ token[t].state = "live"
      /\ token' = [token EXCEPT ![t].state = "dead"]
  BY DEF ExpireRefresh
<1>2. PICK c \in Calls : TRUE
  BY AuthAssumption
<1>3. /\ Tables' /\ Moved(c)
      /\ \A s \in Tokens : /\ token'[s].user = token[s].user /\ token'[s].uses = token[s].uses
                           /\ token'[s].state = "live" => token[s].state = "live"
  BY <1>1 DEF AuthInv, Tables, Moved, Row
<1>4. CallOK(c)'
  BY <1>1, <1>3 DEF AuthInv, CallOK, Typed, Handler
<1>5. ASSUME NEW u \in Users PROVE LateOK(u)'
  BY <1>1, <1>3, LateQuiet DEF Checked
<1> QED BY <1>1, <1>3, <1>4, <1>5, QuietStep

LEMMA IssueTokensOK ==
  ASSUME AuthInv, NEW c \in Calls, NEW t \in Tokens, IssueTokens(c, t) PROVE AuthInv'
<1> DEFINE u == h[c].user
           used == h[c].token
<1>1. /\ h[c].pc = "storing" /\ Fresh(t) /\ UNCHANGED <<status, told>>
      /\ h' = [h EXCEPT ![c].pc = "ok", ![c].token = t]
      /\ access' = access \cup {t} /\ CallOK(c)
  BY DEF IssueTokens, AuthInv
<1>2. /\ Moved(c) /\ h'[c].pc = "ok" /\ h'[c].token = t
      /\ h'[c].op = h[c].op /\ h'[c].user = u
  BY <1>1 DEF AuthInv, Moved, Handler
<1>3. u \in Users /\ h[c].op \in Issuing /\ token[t].state # "live" /\ used # t
  BY <1>1 DEF CallOK, Typed, Issuing, Fresh
<1>4. /\ used \in Tokens => h[c].op = "refresh" /\ token[used].state # "live"
      /\ used \notin Tokens => h[c].op # "refresh"
  BY <1>1, <1>3, AuthAssumption DEF CallOK, Typed, Issuing
<1>5. ASSUME NEW s \in Tokens
      PROVE  /\ token'[s] \in Row
             /\ s = t => token'[s].user = u /\ token'[s].uses = 0 /\ token'[s].state = "live"
             /\ s # t => token'[s].user = token[s].user /\ token'[s].state = token[s].state
             /\ s # t => token'[s].uses = IF s = used THEN token[s].uses + 1 ELSE token[s].uses
  <2>1. PICK r \in Row : token[s] = r
    BY DEF AuthInv, Tables
  <2>2. token'[s] = CASE s = t    -> [user |-> u, uses |-> 0, state |-> "live"]
                      [] s = used -> [token[s] EXCEPT !.uses = @ + 1]
                      [] OTHER    -> token[s]
    BY DEF IssueTokens
  <2>3. CASE s = t
    BY <1>3, <2>2, <2>3 DEF Row
  <2>4. CASE s # t /\ s = used
    BY <2>1, <2>2, <2>4 DEF Row
  <2>5. CASE s # t /\ s # used
    BY <2>1, <2>2, <2>5
  <2> QED BY <2>3, <2>4, <2>5
<1>6. PICK n \in Nat : /\ late' = [late EXCEPT ![u] = n]
                       /\ n = IF status[u] = "BLOCKED" THEN late[u] + 1 ELSE late[u]
  <2>1. late' = [late EXCEPT ![u] = IF status[u] = "BLOCKED" THEN late[u] + 1 ELSE late[u]]
    BY DEF IssueTokens
  <2>2. late[u] \in Nat
    BY <1>3 DEF AuthInv, Tables
  <2>3. (IF status[u] = "BLOCKED" THEN late[u] + 1 ELSE late[u]) \in Nat
    BY <2>2
  <2> QED BY <2>1, <2>3
<1>7. /\ late' \in [Users -> Nat] /\ late'[u] = n
      /\ \A v \in Users \ {u} : late'[v] = late[v]
  BY <1>3, <1>6 DEF AuthInv, Tables
<1>8. Tables'
  <2>1. token' = [s \in Tokens |-> token'[s]]
    BY DEF IssueTokens
  <2>2. token' \in [Tokens -> Row]
    BY <1>5, <2>1
  <2>3. \A s \in Tokens : token'[s].state # "dead" => token'[s].user \in Users
    BY <1>3, <1>5 DEF AuthInv, Tables
  <2> QED BY <1>1, <1>7, <2>2, <2>3 DEF AuthInv, Tables
<1>9. CallOK(c)'
  BY <1>1, <1>2, <1>3, <1>5 DEF CallOK, Typed, Issuing, Idle
<1>10. ASSUME NEW d \in Calls, d # c PROVE CallOK(d)'
  <2>1. h'[d] = h[d] /\ CallOK(d) /\ h[d].token # t /\ status' = status
    BY <1>1, <1>2, <1>10 DEF AuthInv, Moved, Fresh
  <2>2. h[d].token \in Tokens => /\ token'[h[d].token].user = token[h[d].token].user
                                 /\ token'[h[d].token].state = token[h[d].token].state
    BY <1>5, <2>1
  <2>3. h[d].op = "refresh" => h[d].token \in Tokens
    BY <2>1 DEF CallOK, Typed
  <2>4. h[d].pc = "storing" /\ h[d].op = "refresh" => token'[h[d].token].state # "live"
    BY <2>1, <2>2, <2>3 DEF CallOK
  <2>5. h[d].token \in Tokens => token'[h[d].token].user \in Users
    BY <2>1, <2>2 DEF CallOK
  <2>6. Typed(h[d]) = Typed(h'[d])
    BY <2>1
  <2> QED BY <2>1, <2>4, <2>5, <2>6 DEF CallOK
<1>11. ASSUME NEW s \in Tokens PROVE UsesOK(s)'
  <2>1. UsesOK(s) /\ token[s].uses \in Nat
    BY DEF AuthInv, Tables, Row
  <2>2. Rotators(s)' \subseteq Rotators(s) \ {c}
    BY <1>2 DEF Rotators, Rotates, Moved
  <2>3. IsFiniteSet(Rotators(s)) /\ Cardinality(Calls) \in Nat
    BY AuthAssumption, Fewer, FS_CardinalityType DEF Rotators
  <2>4. CASE s = t
    <3>1. Rotators(s)' = {} /\ Cardinality({}) = 0
      BY <1>1, <2>2, <2>4, FS_EmptySet DEF Rotators, Rotates, Fresh
    <3> QED BY <1>5, <2>3, <2>4, <3>1 DEF UsesOK
  <2>5. CASE s # t /\ s = used
    <3>1. c \in Rotators(s)
      BY <1>1, <1>4, <2>5 DEF Rotators, Rotates
    <3>2. /\ Cardinality(Rotators(s)') < Cardinality(Rotators(s))
          /\ Cardinality(Rotators(s)') \in Nat /\ Cardinality(Rotators(s)) \in Nat
      BY <2>2, <2>3, <3>1, OneFewer
    <3>3. token'[s].uses = token[s].uses + 1 /\ token'[s].state # "live"
      BY <1>4, <1>5, <2>5
    <3> QED BY <2>1, <2>3, <3>2, <3>3 DEF UsesOK
  <2>6. CASE s # t /\ s # used
    BY <1>5, <2>1, <2>2, <2>6, UsesKept
  <2> QED BY <2>4, <2>5, <2>6
<1>12. ASSUME NEW v \in Users PROVE LateOK(v)'
  <2>1. LateOK(v) /\ late[v] \in Nat /\ status'[v] = status[v] /\ told'[v] = told[v]
    BY <1>1 DEF AuthInv, Tables
  <2>2. PastCheck(v)' \subseteq PastCheck(v) \ {c}
    BY <1>2 DEF PastCheck, Checked, Moved
  <2>3. CASE v # u
    <3>1. Live(v)' \subseteq Live(v)
      BY <1>5, <2>3 DEF Live
    <3> QED BY <1>7, <2>1, <2>2, <2>3, <3>1, LateKept
  <2>4. CASE v = u /\ status[v] = "BLOCKED"
    <3>1. late'[v] = late[v] + 1
      BY <1>6, <1>7, <2>4
    <3>2. Live(v)' \subseteq Live(v) \cup {t}
      BY <1>5 DEF Live
    <3>3. IsFiniteSet(Live(v)) /\ IsFiniteSet(Live(v) \cup {t}) /\ IsFiniteSet(PastCheck(v))
      BY AuthAssumption, Fewer, FS_AddElement DEF Live, PastCheck
    <3>4. /\ Cardinality(Live(v)') <= Cardinality(Live(v) \cup {t})
          /\ Cardinality(Live(v)') \in Nat /\ Cardinality(Live(v) \cup {t}) \in Nat
      BY <3>2, <3>3, Fewer
    <3>5. Cardinality(Live(v) \cup {t}) <= Cardinality(Live(v)) + 1 /\ Cardinality(Live(v)) \in Nat
      BY <3>3, OneMore, FS_CardinalityType
    <3>6. c \in PastCheck(v)
      BY <1>1, <2>4 DEF PastCheck, Checked
    <3>7. /\ Cardinality(PastCheck(v)') < Cardinality(PastCheck(v))
          /\ Cardinality(PastCheck(v)') \in Nat /\ Cardinality(PastCheck(v)) \in Nat
      BY <2>2, <3>3, <3>6, OneFewer
    <3>8. Cardinality(Calls) \in Nat
      BY AuthAssumption, FS_CardinalityType
    <3> QED BY <2>1, <2>4, <3>1, <3>4, <3>5, <3>7, <3>8 DEF LateOK
  <2>5. CASE v = u /\ status[v] # "BLOCKED"
    BY <2>1, <2>5 DEF LateOK
  <2> QED BY <2>3, <2>4, <2>5
<1> QED BY <1>2, <1>8, <1>9, <1>10, <1>11, <1>12 DEF AuthInv, Moved

-------------------------------------------------------------------------------
LEMMA AuthInitOK == ASSUME AuthInit PROVE AuthInv
<1>1. Tables /\ h \in [Calls -> Handler]
  BY AuthAssumption DEF AuthInit, Tables, Row, NoRow, Idle, Handler
<1>2. \A c \in Calls : CallOK(c)
  BY AuthAssumption DEF AuthInit, CallOK, Typed, Idle
<1>3. Cardinality({}) = 0 /\ Cardinality(Calls) \in Nat
  BY AuthAssumption, FS_EmptySet, FS_CardinalityType
<1>4. ASSUME NEW t \in Tokens PROVE UsesOK(t)
  <2>1. Rotators(t) = {} /\ token[t].uses = 0
    BY DEF AuthInit, Rotators, Rotates, Idle, NoRow
  <2> QED BY <1>3, <2>1 DEF UsesOK
<1>5. \A u \in Users : LateOK(u)
  BY DEF AuthInit, LateOK
<1> QED BY <1>1, <1>2, <1>4, <1>5 DEF AuthInv

LEMMA HandlerStepsOK ==
  ASSUME AuthInv, NEW c \in Calls, HandlerSteps(c) PROVE AuthInv'
BY CreateUserOK, VerifyPasswordOK, LoadUserOK, RotateOK, UpdateStatusOK, RevokeAllOK
   DEF HandlerSteps

LEMMA AuthNextOK == ASSUME AuthInv, AuthNext PROVE AuthInv'
<1>1. ASSUME NEW c \in Calls, NEW u \in Users,
             \/ BeginRegister(c, u) \/ BeginLogin(c, u)
             \/ \E s \in {"BLOCKED", "ACTIVE"} : BeginSetStatus(c, u, s)
      PROVE  AuthInv'
  BY <1>1, BeginRegisterOK, BeginLoginOK, BeginSetStatusOK
<1>2. ASSUME NEW c \in Calls, NEW t \in Tokens,
             \/ IssueTokens(c, t)
             \/ token[t].user # None /\ (BeginRefresh(c, t) \/ Logout(c, t))
      PROVE  AuthInv'
  BY <1>2, IssueTokensOK, BeginRefreshOK, LogoutOK
<1>3. ASSUME NEW c \in Calls,
             \/ HandlerSteps(c) \/ HandlerFails(c)
             \/ Answer(c) /\ UNCHANGED <<status, token, access, late, told>>
      PROVE  AuthInv'
  BY <1>3, HandlerStepsOK, HandlerFailsOK, AnswerOK
<1>4. ASSUME NEW t \in Tokens, ExpireAccess(t) \/ ExpireRefresh(t) PROVE AuthInv'
  BY <1>4, ExpireAccessOK, ExpireRefreshOK
<1>5. CASE \E c \in Calls, u \in Users :
             \/ BeginRegister(c, u) \/ BeginLogin(c, u)
             \/ \E s \in {"BLOCKED", "ACTIVE"} : BeginSetStatus(c, u, s)
  BY <1>1, <1>5
<1>6. CASE \E c \in Calls, t \in Tokens :
             \/ IssueTokens(c, t)
             \/ token[t].user # None /\ (BeginRefresh(c, t) \/ Logout(c, t))
  BY <1>2, <1>6
<1>7. CASE \E c \in Calls :
             \/ HandlerSteps(c) \/ HandlerFails(c)
             \/ Answer(c) /\ UNCHANGED <<status, token, access, late, told>>
  BY <1>3, <1>7
<1>8. CASE \E t \in Tokens : ExpireAccess(t) \/ ExpireRefresh(t)
  BY <1>4, <1>8
<1> QED BY <1>5, <1>6, <1>7, <1>8 DEF AuthNext

LEMMA AuthStutter == ASSUME AuthInv, UNCHANGED authVars PROVE AuthInv'
<1>1. UNCHANGED <<status, token, access, h, late, told>>
  BY DEF authVars
<1>2. PICK c \in Calls : TRUE
  BY AuthAssumption
<1>3. Moved(c) /\ CallOK(c)'
  BY <1>1 DEF AuthInv, CallOK, Typed, Moved
<1> QED BY <1>1, <1>3, RequestStep DEF Checked

THEOREM AuthInvariant == AuthSpec => []AuthInv
<1>1. AuthInit => AuthInv
  BY AuthInitOK
<1>2. AuthInv /\ [AuthNext]_authVars => AuthInv'
  BY AuthNextOK, AuthStutter
<1> QED BY <1>1, <1>2, PTL DEF AuthSpec

LEMMA AuthFacts ==
  ASSUME AuthInv PROVE AuthTypeOK /\ RotationExcess /\ LateIssueBounded /\ BlockRevokes
<1>1. AuthTypeOK
  BY DEF AuthInv, Tables, CallOK, AuthTypeOK
<1>2. Cardinality(Calls) \in Nat
  BY AuthAssumption, FS_CardinalityType
<1>3. ASSUME NEW t \in Tokens PROVE token[t].uses <= Cardinality(Calls)
  <2>1. UsesOK(t) /\ token[t].uses \in Nat
    BY DEF AuthInv, Tables, Row
  <2>2. Cardinality(Rotators(t)) \in Nat
    BY AuthAssumption, Fewer DEF Rotators
  <2> QED BY <1>2, <2>1, <2>2 DEF UsesOK
<1>4. ASSUME NEW u \in Users, status[u] = "BLOCKED"
      PROVE  late[u] < Cardinality(Calls) /\ (told[u] => Cardinality(Live(u)) <= late[u])
  <2>1. LateOK(u) /\ late[u] \in Nat
    BY DEF AuthInv, Tables
  <2>2. Cardinality(PastCheck(u)) \in Nat
    BY AuthAssumption, Fewer DEF PastCheck
  <2> QED BY <1>2, <1>4, <2>1, <2>2 DEF LateOK
<1> QED BY <1>1, <1>3, <1>4 DEF RotationExcess, LateIssueBounded, BlockRevokes

\* Every value the panel holds about a session has its type, and every request
\* has in hand what its step asks for.
THEOREM AuthTypeCorrect == AuthSpec => []AuthTypeOK
BY AuthInvariant, AuthFacts, PTL

\* Concurrent refreshes with one token get at most as many pairs as requests
\* can be in flight, although the token is read and revoked in two statements.
THEOREM RotationExcessBounded == AuthSpec => []RotationExcess
BY AuthInvariant, AuthFacts, PTL

\* A user who is blocked gets no pairs but those his requests past the check
\* were about to get.
THEOREM LateIssuesAreBounded == AuthSpec => []LateIssueBounded
BY AuthInvariant, AuthFacts, PTL

\* A block that is through leaves the user no token that works but those.
THEOREM BlockRevokesAll == AuthSpec => []BlockRevokes
BY AuthInvariant, AuthFacts, PTL

-------------------------------------------------------------------------------
(* The browser.                                                            *)

\* A request whose answer brings a new pair.
Issued(c) == h[c].op \in Issuing /\ h[c].pc = "ok"

\* Nobody has used that pair: it is neither stored nor in another request's hand.
NewPair(c) == /\ token[h[c].token].state \in {"live", "dead"}
              /\ h[c].token # store
              /\ \A d \in Calls \ {c} : h[d].token # h[c].token

\* What a call of the browser and its handler know of each other.
SlotOK(c) ==
  /\ w[c].pc = "refreshing" <=> h[c].op = "refresh"
  /\ w[c].pc = "signingIn" <=> h[c].op \in {"register", "login"}
  /\ h[c].op = "refresh" /\ h[c].pc # "ok" => w[c].token = h[c].token
  /\ Issued(c) => NewPair(c)

Browser == /\ {store, lost} \subseteq Tokens \cup {None} /\ w \in [Calls -> Fetch]
           /\ store # None => token[store].user \in Users

\* A token on its way to be signed out is not stored again, stays its user's, and
\* nobody gets it as a new one.
LeavingOK ==
  \A c \in Calls :
    w[c].pc = "leaving" =>
      /\ w[c].token \in Tokens \ {store} /\ token[w[c].token].user \in Users
      /\ \A d \in Calls : Issued(d) => h[d].token # w[c].token

SessionInv == /\ AuthInv /\ Browser /\ (\A c \in Calls : SlotOK(c)) /\ LeavingOK
              /\ StoredTokenServes

\* A step that sends no sign-out and answers nobody with a pair.
LEMMA LeavingKept ==
  ASSUME SessionInv,
         \A d \in Calls : w'[d].pc = "leaving" => w'[d] = w[d],
         \A d \in Calls : Issued(d)' => Issued(d) /\ h'[d].token = h[d].token,
         \A t \in Tokens : token'[t].user = token[t].user,
         store' \in {store, None} \/ \E d \in Calls : Issued(d) /\ store' = h[d].token
  PROVE  LeavingOK'
<1> SUFFICES ASSUME NEW c \in Calls, w'[c].pc = "leaving"
             PROVE  /\ w'[c].token \in Tokens \ {store'} /\ token'[w'[c].token].user \in Users
                    /\ \A d \in Calls : Issued(d)' => h'[d].token # w'[c].token
  BY DEF LeavingOK
<1>1. /\ w'[c] = w[c] /\ w[c].token \in Tokens \ {store} /\ token[w[c].token].user \in Users
      /\ \A d \in Calls : Issued(d) => h[d].token # w[c].token
  BY DEF SessionInv, LeavingOK
<1>2. w[c].token # store'
  BY <1>1, AuthAssumption
<1> QED BY <1>1, <1>2

-------------------------------------------------------------------------------
\* Steps of the panel.
\* A step that answers nobody with a pair, and rotates a token only for a request.
LEMMA ServiceStep ==
  ASSUME SessionInv, AuthInv', UNCHANGED sessionVars,
         \A d \in Calls : /\ h'[d].op = h[d].op /\ h'[d].token = h[d].token
                          /\ h[d].op \in Issuing => (h'[d].pc = "ok" <=> h[d].pc = "ok"),
         \A t \in Tokens : /\ token'[t].user = token[t].user
                           /\ \/ token'[t].state = token[t].state \/ token'[t].state = "dead"
                              \/ /\ token'[t].state = "rotated"
                                 /\ \E c \in Calls : /\ h[c].op = "refresh" /\ h[c].pc = "rotating"
                                                     /\ h[c].token = t
  PROVE  SessionInv'
<1>1. UNCHANGED <<store, w, lost>>
  BY DEF sessionVars
<1>2. Browser'
  BY <1>1, AuthAssumption DEF SessionInv, Browser
<1>3. ASSUME NEW d \in Calls PROVE SlotOK(d)'
  <2>1. SlotOK(d) /\ Issued(d)' = Issued(d)
    BY DEF SessionInv, Issued
  <2>2. ASSUME Issued(d) PROVE NewPair(d)'
    <3>1. NewPair(d) /\ h[d].token \in Tokens
      BY <2>1, <2>2 DEF SlotOK, SessionInv, AuthInv, CallOK, Issued
    <3>2. ~ \E c \in Calls : h[c].pc = "rotating" /\ h[c].token = h[d].token
      BY <2>2, <3>1 DEF NewPair, Issued
    <3>3. token'[h[d].token].state \in {"live", "dead"}
      BY <3>1, <3>2 DEF NewPair
    <3> QED BY <1>1, <3>1, <3>3 DEF NewPair
  <2> QED BY <1>1, <2>1, <2>2 DEF SlotOK, Issuing
<1>4. StoredTokenServes'
  <2>1. SUFFICES ASSUME store # None
                 PROVE  /\ token'[store].state # "loggedOut"
                        /\ token'[store].state = "rotated" /\ lost # store =>
                             \E c \in Calls : w[c].pc = "refreshing" /\ w[c].token = store
    BY <1>1 DEF StoredTokenServes
  <2>2. store \in Tokens
    BY <2>1 DEF SessionInv, Browser
  <2>3. CASE token'[store].state = token[store].state
    BY <2>1, <2>3 DEF SessionInv, StoredTokenServes
  <2>4. CASE token'[store].state = "dead"
    BY <2>4
  <2>5. ASSUME NEW c \in Calls, h[c].op = "refresh", h[c].pc = "rotating", h[c].token = store
        PROVE  w[c].pc = "refreshing" /\ w[c].token = store
    BY <2>5 DEF SessionInv, SlotOK
  <2> QED BY <2>2, <2>3, <2>4, <2>5
<1>5. LeavingOK'
  <2>1. \A d \in Calls : Issued(d)' => Issued(d) /\ h'[d].token = h[d].token
    BY DEF Issued
  <2> QED BY <1>1, <2>1, LeavingKept
<1> QED BY <1>2, <1>3, <1>4, <1>5 DEF SessionInv

LEMMA HandlerStepsKeep ==
  ASSUME SessionInv, NEW c \in Calls, HandlerSteps(c) \/ HandlerFails(c), UNCHANGED sessionVars
  PROVE  SessionInv'
<1>1. AuthInv /\ AuthInv' /\ CallOK(c) /\ h[c] \in Handler
  BY HandlerStepsOK, HandlerFailsOK DEF SessionInv, AuthInv
<1>2. ASSUME NEW from, NEW to \in Pcs, Move(c, from, to), from \notin {"ok"},
             to = "ok" => h[c].op \notin Issuing
      PROVE  \A d \in Calls : /\ h'[d].op = h[d].op /\ h'[d].token = h[d].token
                              /\ h[d].op \in Issuing => (h'[d].pc = "ok" <=> h[d].pc = "ok")
  BY <1>1, <1>2, MoveFacts DEF Moved, AuthInv
<1>3. CASE UNCHANGED token /\ ~UpdateStatus(c)
  <2>1. \A d \in Calls : /\ h'[d].op = h[d].op /\ h'[d].token = h[d].token
                         /\ h[d].op \in Issuing => (h'[d].pc = "ok" <=> h[d].pc = "ok")
    <3>1. CASE CreateUser(c)
      BY <1>2, <3>1 DEF CreateUser, Pcs
    <3>2. CASE VerifyPassword(c)
      BY <1>2, <3>2 DEF VerifyPassword, Pcs
    <3>3. CASE LoadUser(c)
      BY <1>2, <3>3 DEF LoadUser, Pcs
    <3>4. CASE Rotate(c)
      BY <1>2, <3>4 DEF Rotate, Pcs
    <3>5. CASE RevokeAllForUser(c)
      <4>1. h[c].op = "BLOCKED"
        BY <1>1, <3>5 DEF CallOK, Typed, RevokeAllForUser, Move
      <4> QED BY <1>2, <3>5, <4>1 DEF RevokeAllForUser, Pcs, Issuing
    <3>6. CASE HandlerFails(c)
      BY <1>1, <3>6 DEF HandlerFails, Answered, AuthInv, Handler
    <3> QED BY <1>3, <3>1, <3>2, <3>3, <3>4, <3>5, <3>6 DEF HandlerSteps
  <2> QED BY <1>1, <1>3, <2>1, ServiceStep
<1>4. CASE UpdateStatus(c)
  <2>1. h[c].op \in {"BLOCKED", "ACTIVE"}
    BY <1>1, <1>4 DEF CallOK, Typed, UpdateStatus, Move
  <2>2. \A d \in Calls : /\ h'[d].op = h[d].op /\ h'[d].token = h[d].token
                         /\ h[d].op \in Issuing => (h'[d].pc = "ok" <=> h[d].pc = "ok")
    BY <1>2, <1>4, <2>1 DEF UpdateStatus, Pcs, Issuing
  <2> QED BY <1>1, <1>4, <2>2, ServiceStep DEF UpdateStatus
<1>5. CASE Rotate(c)
  <2>1. h[c].pc = "rotating" /\ h[c].op = "refresh" /\ h[c].token \in Tokens
    BY <1>1, <1>5 DEF CallOK, Typed, Rotate, Move
  <2>2. \A d \in Calls : /\ h'[d].op = h[d].op /\ h'[d].token = h[d].token
                         /\ h[d].op \in Issuing => (h'[d].pc = "ok" <=> h[d].pc = "ok")
    BY <1>2, <1>5 DEF Rotate, Pcs
  <2>3. PICK r \in Row : r = Revoke(h[c].token, "rotated") /\ r.user = token[h[c].token].user
    BY <1>1, <2>1, RevokeFacts DEF AuthInv
  <2>4. r.state \in {token[h[c].token].state, "rotated"}
    BY <1>1, <2>1, <2>3 DEF Revoke, AuthInv, Tables, Row
  <2>5. token' = [token EXCEPT ![h[c].token] = r]
    BY <1>5, <2>3 DEF Rotate
  <2>6. ASSUME NEW t \in Tokens
        PROVE  /\ token'[t].user = token[t].user
               /\ \/ token'[t].state = token[t].state
                  \/ token'[t].state = "rotated" /\ t = h[c].token
    BY <1>1, <2>1, <2>3, <2>4, <2>5 DEF AuthInv, Tables
  <2> QED BY <1>1, <2>1, <2>2, <2>6, ServiceStep
<1>6. CASE RevokeAllForUser(c)
  <2>1. h[c].op = "BLOCKED"
    BY <1>1, <1>6 DEF CallOK, Typed, RevokeAllForUser, Move
  <2>2. \A d \in Calls : /\ h'[d].op = h[d].op /\ h'[d].token = h[d].token
                         /\ h[d].op \in Issuing => (h'[d].pc = "ok" <=> h[d].pc = "ok")
    BY <1>2, <1>6, <2>1 DEF RevokeAllForUser, Pcs, Issuing
  <2>3. ASSUME NEW t \in Tokens
        PROVE  /\ token'[t].user = token[t].user
               /\ token'[t].state = token[t].state \/ token'[t].state = "dead"
    <3>1. token[t] \in Row /\ (token'[t] = Revoke(t, "dead") \/ token'[t] = token[t])
      BY <1>1, <1>6 DEF AuthInv, Tables, RevokeAllForUser
    <3> QED BY <3>1 DEF Revoke, Row
  <2> QED BY <1>1, <2>2, <2>3, ServiceStep
<1> QED
  <2>1. ASSUME CreateUser(c) \/ VerifyPassword(c) \/ LoadUser(c) \/ HandlerFails(c)
        PROVE  UNCHANGED token
    BY <2>1 DEF CreateUser, VerifyPassword, LoadUser, HandlerFails
  <2> QED BY <1>3, <1>4, <1>5, <1>6, <2>1 DEF HandlerSteps

LEMMA ExpiryKeeps ==
  ASSUME SessionInv, NEW t \in Tokens, ExpireAccess(t) \/ ExpireRefresh(t), UNCHANGED sessionVars
  PROVE  SessionInv'
<1>1. AuthInv /\ AuthInv' /\ h' = h
  BY ExpireAccessOK, ExpireRefreshOK DEF SessionInv, ExpireAccess, ExpireRefresh
<1>2. ASSUME NEW s \in Tokens
      PROVE  /\ token'[s].user = token[s].user
             /\ token'[s].state = token[s].state \/ token'[s].state = "dead"
  BY <1>1 DEF AuthInv, Tables, Row, ExpireAccess, ExpireRefresh
<1> QED BY <1>1, <1>2, ServiceStep

\* The insert hands the request a pair that nobody holds.
LEMMA IssueKeeps ==
  ASSUME SessionInv, NEW c \in Calls, NEW t \in Tokens, Unheld(t), IssueTokens(c, t),
         UNCHANGED sessionVars
  PROVE  SessionInv'
<1> DEFINE u == h[c].user
           used == h[c].token
<1>1. AuthInv /\ AuthInv' /\ UNCHANGED <<store, w, lost>> /\ t # store
  BY IssueTokensOK DEF SessionInv, sessionVars, Unheld
<1>2. /\ Moved(c) /\ h[c].pc = "storing" /\ h'[c].pc = "ok" /\ h'[c].token = t
      /\ h'[c].op = h[c].op /\ h'[c].user = h[c].user
      /\ \A d \in Calls : h[d].token # t
  BY <1>1 DEF AuthInv, Moved, Handler, IssueTokens, Unheld, Fresh
<1>3. h[c].user \in Users
  BY <1>2 DEF SessionInv, AuthInv, CallOK, Typed
<1>4. ASSUME NEW s \in Tokens
      PROVE  /\ s = t => token'[s].user = u /\ token'[s].state = "live"
             /\ s # t => token'[s].user = token[s].user /\ token'[s].state = token[s].state
  <2>1. PICK r \in Row : token[s] = r
    BY <1>1 DEF AuthInv, Tables
  <2>2. token'[s] = CASE s = t    -> [user |-> u, uses |-> 0, state |-> "live"]
                      [] s = used -> [token[s] EXCEPT !.uses = @ + 1]
                      [] OTHER    -> token[s]
    BY DEF IssueTokens
  <2>3. CASE s = t
    BY <1>2, <2>2, <2>3
  <2>4. CASE s # t /\ s = used
    BY <2>1, <2>2, <2>4 DEF Row
  <2>5. CASE s # t /\ s # used
    BY <2>1, <2>2, <2>5
  <2> QED BY <2>3, <2>4, <2>5
<1>5. Browser'
  BY <1>1, <1>3, <1>4 DEF SessionInv, Browser
<1>6. ASSUME NEW d \in Calls PROVE SlotOK(d)'
  <2>1. CASE d = c
    <3>1. NewPair(c)'
      BY <1>1, <1>2, <1>4 DEF NewPair, Moved
    <3> QED BY <1>1, <1>2, <2>1, <3>1 DEF SessionInv, SlotOK
  <2>2. CASE d # c
    <3>1. h'[d] = h[d] /\ w'[d] = w[d] /\ SlotOK(d)
      BY <1>1, <1>2, <2>2 DEF SessionInv, Moved
    <3>2. ASSUME Issued(d) PROVE NewPair(d)'
      <4>1. NewPair(d) /\ h[d].token \in Tokens /\ h[d].token # t
        BY <1>2, <3>1, <3>2 DEF SlotOK, SessionInv, AuthInv, CallOK, Issued
      <4> QED BY <1>1, <1>2, <1>4, <2>2, <3>1, <4>1 DEF NewPair, Moved
    <3> QED BY <3>1, <3>2 DEF SlotOK, Issued
  <2> QED BY <2>1, <2>2
<1>7. StoredTokenServes'
  <2>1. store # None => token'[store].state = token[store].state
    BY <1>1, <1>4 DEF SessionInv, Browser
  <2> QED BY <1>1, <2>1 DEF SessionInv, StoredTokenServes
<1>8. ASSUME NEW d \in Calls, w[d].pc = "leaving"
      PROVE  /\ w[d].token \in Tokens \ {store} /\ token'[w[d].token].user \in Users
             /\ \A e \in Calls : Issued(e)' => h'[e].token # w[d].token
  <2>1. /\ w[d].token \in Tokens \ {store} /\ token[w[d].token].user \in Users
        /\ \A e \in Calls : Issued(e) => h[e].token # w[d].token
    BY <1>8 DEF SessionInv, LeavingOK
  <2>2. w[d].token # t
    BY DEF Unheld
  <2>3. \A e \in Calls \ {c} : h'[e] = h[e]
    BY <1>2 DEF Moved
  <2> QED BY <1>2, <1>4, <2>1, <2>2, <2>3 DEF Issued
<1>9. LeavingOK'
  BY <1>1, <1>8 DEF LeavingOK
<1> QED BY <1>1, <1>5, <1>6, <1>7, <1>9 DEF SessionInv

-------------------------------------------------------------------------------
\* Steps of the browser.
\* What a step of call c leaves alone, and what it need not disturb.
Others(c) == \A d \in Calls \ {c} : h'[d] = h[d] /\ w'[d] = w[d]

LEMMA SlotsKept ==
  ASSUME SessionInv, NEW c \in Calls, Others(c), token' = token,
         \A d \in Calls \ {c} : Issued(d) => h'[c].token # h[d].token /\ store' # h[d].token
  PROVE  \A d \in Calls \ {c} : SlotOK(d)'
<1> SUFFICES ASSUME NEW d \in Calls \ {c} PROVE SlotOK(d)'
  OBVIOUS
<1>1. h'[d] = h[d] /\ w'[d] = w[d] /\ SlotOK(d)
  BY DEF Others, SessionInv
<1>2. ASSUME Issued(d) PROVE NewPair(d)'
  <2>1. NewPair(d) /\ h'[c].token # h[d].token /\ store' # h[d].token
    BY <1>1, <1>2 DEF SlotOK
  <2> QED BY <1>1, <2>1 DEF NewPair, Others
<1> QED BY <1>1, <1>2 DEF SlotOK, Issued

\* The pair that is stored stays, and so does a request that refreshes it.
LEMMA StoreKept ==
  ASSUME SessionInv, NEW c \in Calls, Others(c), token' = token, store' = store, lost' = lost,
         w[c].pc = "refreshing" /\ w[c].token = store => w'[c] = w[c] \/ lost = store
  PROVE  StoredTokenServes' /\ (w' \in [Calls -> Fetch] => Browser')
<1>1. w' \in [Calls -> Fetch] => Browser'
  BY DEF SessionInv, Browser
<1>2. SUFFICES ASSUME store # None
               PROVE  /\ token[store].state # "loggedOut"
                      /\ token[store].state = "rotated" /\ lost # store =>
                           \E d \in Calls : w'[d].pc = "refreshing" /\ w'[d].token = store
  BY <1>1 DEF StoredTokenServes
<1>3. ASSUME NEW d \in Calls, w[d].pc = "refreshing", w[d].token = store, lost # store
      PROVE  w'[d] = w[d]
  BY <1>3 DEF Others
<1> QED BY <1>2, <1>3 DEF SessionInv, StoredTokenServes

\* No handler has the pair that is stored as its answer, nor has one without a pair.
LEMMA NotStored ==
  ASSUME SessionInv, NEW d \in Calls, Issued(d)
  PROVE  h[d].token # store /\ h[d].token # None /\ h[d].token \in Tokens
BY AuthAssumption DEF SessionInv, SlotOK, NewPair, AuthInv, CallOK, Issued

LEMMA QuietCallKeeps ==
  ASSUME SessionInv, NEW c \in Calls,
         Send(c) \/ LogoutLost(c) \/ Accepted(c) \/ (Unauthorized(c) /\ store = None)
  PROVE  SessionInv' /\ UNCHANGED authVars
<1>1. UNCHANGED <<status, token, access, h, late, told, store, lost>>
  BY DEF Send, LogoutLost, Accepted, Unauthorized, authVars
<1>2. AuthInv' /\ Others(c) /\ w' \in [Calls -> Fetch]
      /\ w[c].pc \in {"idle", "sent", "leaving"} /\ w'[c].pc \in {"idle", "sent"}
  <2>1. AuthInv'
    BY <1>1, AuthStutter DEF SessionInv, authVars
  <2>2. PICK v \in Fetch : w' = [w EXCEPT ![c] = v] /\ v.pc \in {"idle", "sent"}
    BY DEF Send, LogoutLost, Accepted, Unauthorized, Finish, NoFetch, Fetch, SessionInv, Browser
  <2>3. w[c].pc \in {"idle", "sent", "leaving"}
    BY DEF Send, LogoutLost, Accepted, Unauthorized, Free, NoFetch
  <2> QED BY <1>1, <2>1, <2>2, <2>3 DEF Others, SessionInv, Browser
<1>3. StoredTokenServes' /\ Browser'
  BY <1>1, <1>2, StoreKept
<1>4. SlotOK(c)'
  BY <1>1, <1>2 DEF SessionInv, SlotOK, Issued, NewPair, Issuing
<1>5. \A d \in Calls \ {c} : SlotOK(d)'
  <2>1. \A d \in Calls \ {c} : Issued(d) => h'[c].token # h[d].token /\ store' # h[d].token
    BY <1>1 DEF SessionInv, SlotOK, NewPair
  <2> QED BY <1>1, <1>2, <2>1, SlotsKept
<1>6. LeavingOK'
  <2>1. \A d \in Calls : w'[d].pc = "leaving" => w'[d] = w[d]
    BY <1>2 DEF Others
  <2> QED BY <1>1, <2>1, LeavingKept DEF Issued
<1> QED BY <1>1, <1>2, <1>3, <1>4, <1>5, <1>6 DEF SessionInv, authVars

\* A call that begins asks with the stored pair, or with none.
LEMMA BeginKeeps ==
  ASSUME SessionInv, AuthInv', NEW c \in Calls, Moved(c), Others(c), token' = token,
         h[c] = Idle, h'[c].token \in {store, None}, h'[c].pc \notin {"ok", "idle"},
         store' = store, lost' = lost, w' \in [Calls -> Fetch],
         w'[c].pc = "refreshing" <=> h'[c].op = "refresh",
         w'[c].pc = "signingIn" <=> h'[c].op \in {"register", "login"},
         h'[c].op = "refresh" => w'[c].token = h'[c].token,
         w'[c].pc # "leaving"
  PROVE  SessionInv'
<1>1. w[c].pc # "refreshing"
  BY DEF SessionInv, SlotOK, Idle
<1>2. StoredTokenServes' /\ Browser'
  BY <1>1, StoreKept
<1>3. \A d \in Calls \ {c} : SlotOK(d)'
  <2>1. \A d \in Calls \ {c} : Issued(d) => h'[c].token # h[d].token /\ store' # h[d].token
    BY NotStored
  <2> QED BY <2>1, SlotsKept
<1>4. SlotOK(c)'
  BY DEF SlotOK, Issued
<1>5. LeavingOK'
  <2>1. \A d \in Calls : w'[d].pc = "leaving" => w'[d] = w[d]
    BY DEF Others
  <2>2. \A d \in Calls : Issued(d)' => Issued(d) /\ h'[d].token = h[d].token
    BY DEF Others, Issued
  <2> QED BY <2>1, <2>2, LeavingKept
<1> QED BY <1>2, <1>3, <1>4, <1>5 DEF SessionInv

LEMMA UnauthorizedKeeps ==
  ASSUME SessionInv, NEW c \in Calls, Unauthorized(c), store # None
  PROVE  SessionInv' /\ token[store].user # None /\ BeginRefresh(c, store)
<1>1. /\ store \in Tokens /\ token[store].user \in Users /\ BeginRefresh(c, store)
      /\ w' = [w EXCEPT ![c] = [pc |-> "refreshing", token |-> store]]
      /\ store' = store /\ lost' = lost
  BY DEF SessionInv, Browser, Unauthorized
<1>2. token[store].user # None
  BY <1>1, AuthAssumption
<1>3. AuthInv'
  BY <1>1, <1>2, BeginRefreshOK DEF SessionInv
<1>4. PICK pc \in {"loading", "refused"} :
        Begin(c, "refresh", token[store].user, store, pc) /\ token' = token
  BY <1>1 DEF BeginRefresh
<1>5. /\ Moved(c) /\ h[c] = Idle /\ h'[c].pc = pc /\ h'[c].op = "refresh"
      /\ h'[c].token = store
  BY <1>1, <1>4, BeginFacts DEF SessionInv, AuthInv, Pcs
<1>6. /\ w' \in [Calls -> Fetch] /\ w'[c].pc = "refreshing" /\ w'[c].token = store
      /\ \A d \in Calls \ {c} : w'[d] = w[d]
  <2>1. PICK v \in Fetch : v = [pc |-> "refreshing", token |-> store]
    BY <1>1 DEF Fetch
  <2>2. w' = [w EXCEPT ![c] = v]
    BY <1>1, <2>1
  <2> QED BY <2>1, <2>2 DEF SessionInv, Browser
<1>7. Others(c)
  BY <1>5, <1>6 DEF Others, Moved
<1> QED BY <1>1, <1>2, <1>3, <1>4, <1>5, <1>6, <1>7, BeginKeeps

LEMMA SignInKeeps ==
  ASSUME SessionInv, NEW c \in Calls, NEW u \in Users, SignIn(c, u) PROVE SessionInv'
<1>1. /\ BeginLogin(c, u) \/ BeginRegister(c, u)
      /\ token' = token
      /\ w' = [w EXCEPT ![c].pc = "signingIn"] /\ store' = store /\ lost' = lost
  BY DEF SignIn, BeginLogin, BeginRegister
<1>2. AuthInv'
  BY <1>1, BeginLoginOK, BeginRegisterOK DEF SessionInv
<1>3. PICK op \in {"login", "register"}, pc \in {"verifying", "hashing", "refused"} :
        Begin(c, op, u, None, pc)
  BY <1>1 DEF BeginLogin, BeginRegister
<1>4. /\ Moved(c) /\ h[c] = Idle /\ h'[c].pc = pc /\ h'[c].op = op /\ h'[c].token = None
  BY <1>3, BeginFacts DEF SessionInv, AuthInv, Pcs
<1>5. /\ w' \in [Calls -> Fetch] /\ w'[c].pc = "signingIn"
      /\ \A d \in Calls \ {c} : w'[d] = w[d]
  BY <1>1 DEF SessionInv, Browser, Fetch
<1>6. Others(c)
  BY <1>4, <1>5 DEF Others, Moved
<1> QED BY <1>1, <1>2, <1>4, <1>5, <1>6, BeginKeeps

LEMMA SetStatusKeeps ==
  ASSUME SessionInv, NEW c \in Calls, NEW u \in Users, SetStatus(c, u) PROVE SessionInv'
<1>1. PICK s \in {"BLOCKED", "ACTIVE"} : BeginSetStatus(c, u, s)
  BY DEF SetStatus
<1>2. AuthInv' /\ w[c] = NoFetch /\ UNCHANGED <<token, store, w, lost>>
  BY <1>1, BeginSetStatusOK DEF SessionInv, SetStatus, Free, sessionVars, BeginSetStatus
<1>3. Begin(c, s, u, None, "updating")
  BY <1>1 DEF BeginSetStatus
<1>4. /\ Moved(c) /\ h[c] = Idle /\ h'[c].pc = "updating" /\ h'[c].op = s /\ h'[c].token = None
  BY <1>3, BeginFacts DEF SessionInv, AuthInv, Pcs
<1>5. Others(c) /\ w' \in [Calls -> Fetch] /\ w'[c].pc = "idle"
  BY <1>2, <1>4 DEF Others, Moved, SessionInv, Browser, NoFetch
<1> QED BY <1>2, <1>4, <1>5, BeginKeeps

\* The store is cleared and its token travels to the panel; nobody has it as his answer.
LEMMA SignOutKeeps ==
  ASSUME SessionInv, NEW c \in Calls, SignOut(c) PROVE SessionInv' /\ UNCHANGED authVars
<1>1. /\ UNCHANGED <<status, token, access, h, late, told>>
      /\ store \in Tokens /\ token[store].user \in Users
      /\ w[c] = NoFetch /\ h[c] = Idle /\ store' = None /\ lost' \in {lost, None}
  BY DEF SignOut, setStore, Free, authVars, SessionInv, Browser
<1>2. AuthInv'
  BY <1>1, AuthStutter DEF SessionInv, authVars
<1>3. /\ w' \in [Calls -> Fetch] /\ w'[c].pc = "leaving" /\ w'[c].token = store
      /\ \A d \in Calls \ {c} : w'[d] = w[d]
  <2>1. PICK v \in Fetch : v = [pc |-> "leaving", token |-> store]
    BY <1>1 DEF Fetch
  <2>2. w' = [w EXCEPT ![c] = v]
    BY <2>1 DEF SignOut
  <2> QED BY <2>1, <2>2 DEF SessionInv, Browser
<1>4. Browser' /\ StoredTokenServes' /\ Others(c)
  BY <1>1, <1>3 DEF SessionInv, Browser, StoredTokenServes, Others
<1>5. SlotOK(c)'
  BY <1>1, <1>3 DEF SlotOK, Issued, Issuing, Idle
<1>6. \A d \in Calls \ {c} : SlotOK(d)'
  <2>1. \A d \in Calls \ {c} : Issued(d) => h'[c].token # h[d].token /\ store' # h[d].token
    BY <1>1, NotStored DEF Idle
  <2> QED BY <1>1, <1>4, <2>1, SlotsKept
<1>7. LeavingOK'
  <2> SUFFICES ASSUME NEW d \in Calls, w'[d].pc = "leaving"
               PROVE  /\ w'[d].token \in Tokens \ {None} /\ token[w'[d].token].user \in Users
                      /\ \A e \in Calls : Issued(e) => h[e].token # w'[d].token
    BY <1>1 DEF LeavingOK, Issued
  <2>1. CASE d = c
    BY <1>1, <1>3, <2>1, NotStored, AuthAssumption
  <2>2. CASE d # c
    BY <1>3, <2>2, AuthAssumption DEF SessionInv, LeavingOK
  <2> QED BY <2>1, <2>2
<1> QED BY <1>1, <1>2, <1>4, <1>5, <1>6, <1>7 DEF SessionInv, authVars

\* The sign-out reaches the panel, with a token that is neither stored nor new to anyone.
LEMMA LogoutArrivesKeeps ==
  ASSUME SessionInv, NEW c \in Calls, LogoutArrives(c)
  PROVE  /\ SessionInv' /\ w[c].token \in Tokens /\ token[w[c].token].user # None
         /\ Logout(c, w[c].token)
<1> DEFINE t == w[c].token
<1>1. /\ w[c].pc = "leaving" /\ Logout(c, t) /\ UNCHANGED <<store, w, lost>>
      /\ t \in Tokens \ {store} /\ token[t].user \in Users
      /\ \A d \in Calls : Issued(d) => h[d].token # t
  BY DEF LogoutArrives, sessionVars, SessionInv, LeavingOK
<1>2. token[t].user # None
  BY <1>1, AuthAssumption
<1>3. AuthInv'
  BY <1>1, <1>2, LogoutOK DEF SessionInv
<1>4. /\ Begin(c, "logout", token[t].user, t, "ok")
      /\ \A s \in Tokens : token'[s].user = token[s].user
      /\ \A s \in Tokens \ {t} : token'[s] = token[s]
  <2>1. token[t] \in Row /\ token' = [token EXCEPT ![t] = Revoke(t, "loggedOut")]
    BY <1>1 DEF Logout, SessionInv, AuthInv, Tables
  <2>2. Revoke(t, "loggedOut").user = token[t].user
    BY <2>1 DEF Revoke, Row
  <2> QED BY <1>1, <2>1, <2>2 DEF Logout, SessionInv, AuthInv, Tables
<1>5. Moved(c) /\ h[c] = Idle /\ h'[c].op = "logout" /\ h'[c].token = t
  BY <1>1, <1>4, BeginFacts DEF SessionInv, AuthInv, Pcs
<1>6. Browser' /\ StoredTokenServes'
  BY <1>1, <1>4 DEF SessionInv, Browser, StoredTokenServes
<1>7. SlotOK(c)'
  BY <1>1, <1>5 DEF SlotOK, Issued, Issuing
<1>8. ASSUME NEW d \in Calls \ {c} PROVE SlotOK(d)'
  <2>1. h'[d] = h[d] /\ w'[d] = w[d] /\ SlotOK(d)
    BY <1>1, <1>5 DEF Moved, SessionInv
  <2>2. ASSUME Issued(d) PROVE NewPair(d)'
    <3>1. NewPair(d) /\ h[d].token # t /\ h[d].token \in Tokens
      BY <1>1, <2>1, <2>2, NotStored DEF SlotOK
    <3> QED BY <1>1, <1>4, <1>5, <2>1, <3>1 DEF NewPair, Moved
  <2> QED BY <2>1, <2>2 DEF SlotOK, Issued
<1>9. LeavingOK'
  <2>1. \A d \in Calls : Issued(d)' => Issued(d) /\ h'[d].token = h[d].token
    BY <1>5 DEF Issued, Issuing, Moved
  <2> QED BY <1>1, <1>4, <2>1, LeavingKept
<1> QED BY <1>1, <1>2, <1>3, <1>6, <1>7, <1>8, <1>9 DEF SessionInv

-------------------------------------------------------------------------------
\* Steps that take an answer.
LEMMA TakeFacts ==
  ASSUME SessionInv, NEW c \in Calls, TakeAnswer(c), Finish(c)
  PROVE  /\ AuthInv' /\ Moved(c) /\ Others(c) /\ h'[c] = Idle /\ w'[c] = NoFetch
         /\ token' = token /\ w' \in [Calls -> Fetch] /\ SlotOK(c)'
         /\ \/ store' \in {store, None}
            \/ \E d \in Calls : Issued(d) /\ store' = h[d].token
            => LeavingOK'
<1>1. Answer(c) /\ UNCHANGED <<status, token, access, late, told>>
  BY DEF TakeAnswer
<1>2. AuthInv' /\ Moved(c) /\ h'[c] = Idle
  BY <1>1, AnswerOK, AnswerFacts DEF SessionInv, AuthInv
<1>3. NoFetch \in Fetch /\ NoFetch.pc = "idle"
  BY DEF NoFetch, Fetch
<1>4. /\ w' \in [Calls -> Fetch] /\ w'[c] = NoFetch
      /\ \A d \in Calls \ {c} : w'[d] = w[d]
  BY <1>3 DEF Finish, SessionInv, Browser
<1>5. SlotOK(c)'
  BY <1>2, <1>3, <1>4 DEF SlotOK, Issued, Issuing, Idle
<1>6. ASSUME store' \in {store, None} \/ \E d \in Calls : Issued(d) /\ store' = h[d].token
      PROVE  LeavingOK'
  <2>1. \A d \in Calls : w'[d].pc = "leaving" => w'[d] = w[d]
    BY <1>3, <1>4
  <2>2. \A d \in Calls : Issued(d)' => Issued(d) /\ h'[d].token = h[d].token
    BY <1>2 DEF Issued, Issuing, Idle, Moved
  <2> QED BY <1>1, <1>6, <2>1, <2>2, LeavingKept
<1> QED BY <1>1, <1>2, <1>3, <1>4, <1>5, <1>6 DEF Others, Moved

\* What is stored is kept.
LEMMA DropAnswerKeeps ==
  ASSUME SessionInv, NEW c \in Calls, TakeAnswer(c), Finish(c), store' = store, lost' = lost,
         w[c].pc # "refreshing"
  PROVE  SessionInv'
<1>1. /\ AuthInv' /\ Moved(c) /\ Others(c) /\ h'[c] = Idle /\ w'[c] = NoFetch
      /\ token' = token /\ w' \in [Calls -> Fetch] /\ SlotOK(c)'
  BY TakeFacts
<1>2. StoredTokenServes' /\ Browser'
  BY <1>1, StoreKept
<1>3. \A d \in Calls \ {c} : SlotOK(d)'
  <2>1. \A d \in Calls \ {c} : Issued(d) => h'[c].token # h[d].token /\ store' # h[d].token
    BY <1>1, NotStored DEF Idle
  <2> QED BY <1>1, <2>1, SlotsKept
<1>4. LeavingOK'
  BY <1>1, TakeFacts
<1> QED BY <1>1, <1>2, <1>3, <1>4 DEF SessionInv

\* The store is cleared.
LEMMA ClearKeeps ==
  ASSUME SessionInv, NEW c \in Calls, TakeAnswer(c), Finish(c), setStore(None)
  PROVE  SessionInv'
<1>1. /\ AuthInv' /\ Moved(c) /\ Others(c) /\ h'[c] = Idle /\ w'[c] = NoFetch
      /\ token' = token /\ w' \in [Calls -> Fetch] /\ SlotOK(c)'
  BY TakeFacts
<1>2. store' = None /\ lost' \in {lost, None}
  BY DEF setStore
<1>3. Browser' /\ StoredTokenServes'
  BY <1>1, <1>2 DEF SessionInv, Browser, StoredTokenServes
<1>4. \A d \in Calls \ {c} : SlotOK(d)'
  <2>1. \A d \in Calls \ {c} : Issued(d) => h'[c].token # h[d].token /\ store' # h[d].token
    BY <1>1, <1>2, NotStored DEF Idle
  <2> QED BY <1>1, <2>1, SlotsKept
<1>5. LeavingOK'
  BY <1>1, <1>2, TakeFacts
<1> QED BY <1>1, <1>3, <1>4, <1>5 DEF SessionInv

\* A new pair is stored, the one that its request was answered with.
LEMMA StoreKeeps ==
  ASSUME SessionInv, NEW c \in Calls, TakeAnswer(c), Finish(c), setStore(h[c].token), Issued(c)
  PROVE  SessionInv'
<1>1. /\ AuthInv' /\ Moved(c) /\ Others(c) /\ h'[c] = Idle /\ w'[c] = NoFetch
      /\ token' = token /\ w' \in [Calls -> Fetch] /\ SlotOK(c)'
  BY TakeFacts
<1>2. h[c].token # store /\ h[c].token # None /\ h[c].token \in Tokens /\ NewPair(c)
  BY NotStored DEF SessionInv, SlotOK
<1>3. store' = h[c].token /\ lost' = None
  BY <1>2 DEF setStore
<1>4. token[h[c].token].user \in Users
  BY <1>2 DEF SessionInv, AuthInv, CallOK
<1>5. Browser' /\ StoredTokenServes'
  BY <1>1, <1>2, <1>3, <1>4 DEF SessionInv, Browser, StoredTokenServes, NewPair
<1>6. \A d \in Calls \ {c} : SlotOK(d)'
  <2>1. ASSUME NEW d \in Calls \ {c}, Issued(d)
        PROVE  h'[c].token # h[d].token /\ store' # h[d].token
    <3>1. h[d].token # None
      BY <2>1, NotStored
    <3>2. h[d].token # h[c].token
      BY <1>2 DEF NewPair
    <3> QED BY <1>1, <1>3, <3>1, <3>2 DEF Idle
  <2> QED BY <1>1, <2>1, SlotsKept
<1>7. LeavingOK'
  BY <1>1, <1>3, TakeFacts
<1> QED BY <1>1, <1>5, <1>6, <1>7 DEF SessionInv

LEMMA AnswerLostKeeps ==
  ASSUME SessionInv, NEW c \in Calls, AnswerLost(c) PROVE SessionInv'
<1>1. /\ TakeAnswer(c) /\ Finish(c) /\ store' = store
      /\ lost' = IF w[c].token = store THEN store ELSE lost
  BY DEF AnswerLost
<1>2. /\ AuthInv' /\ Moved(c) /\ Others(c) /\ h'[c] = Idle /\ w'[c] = NoFetch
      /\ token' = token /\ w' \in [Calls -> Fetch] /\ SlotOK(c)'
  BY <1>1, TakeFacts
<1>3. Browser'
  BY <1>1, <1>2 DEF SessionInv, Browser
<1>4. StoredTokenServes'
  <2>1. CASE w[c].token = store
    BY <1>1, <1>2, <2>1 DEF SessionInv, StoredTokenServes
  <2>2. CASE w[c].token # store
    BY <1>1, <1>2, <2>2, StoreKept
  <2> QED BY <2>1, <2>2
<1>5. \A d \in Calls \ {c} : SlotOK(d)'
  <2>1. \A d \in Calls \ {c} : Issued(d) => h'[c].token # h[d].token /\ store' # h[d].token
    BY <1>1, <1>2, NotStored DEF Idle
  <2> QED BY <1>2, <2>1, SlotsKept
<1>6. LeavingOK'
  BY <1>1, <1>2, TakeFacts
<1> QED BY <1>2, <1>3, <1>4, <1>5, <1>6 DEF SessionInv

LEMMA ReactKeeps ==
  ASSUME SessionInv, NEW c \in Calls, React(c) PROVE SessionInv'
<1>1. CASE Accepted(c) \/ Unauthorized(c)
  BY <1>1, QuietCallKeeps, UnauthorizedKeeps
<1>2. CASE Refreshed(c)
  <2>1. w[c].pc = "refreshing" /\ h[c].pc = "ok" /\ TakeAnswer(c) /\ Finish(c) /\ setStore(h[c].token)
    BY <1>2 DEF Refreshed
  <2>2. Issued(c)
    BY <2>1 DEF SessionInv, SlotOK, Issued, Issuing
  <2> QED BY <2>1, <2>2, StoreKeeps
<1>3. CASE RefreshRefused(c)
  BY <1>3, ClearKeeps DEF RefreshRefused
<1>4. CASE SignedIn(c)
  <2>1. /\ w[c].pc = "signingIn" /\ TakeAnswer(c) /\ Finish(c)
        /\ setStore(IF h[c].pc = "ok" THEN h[c].token ELSE store)
    BY <1>4 DEF SignedIn
  <2>2. CASE h[c].pc = "ok"
    <3>1. Issued(c)
      BY <2>1, <2>2 DEF SessionInv, SlotOK, Issued, Issuing
    <3> QED BY <2>1, <2>2, <3>1, StoreKeeps
  <2>3. CASE h[c].pc # "ok"
    BY <2>1, <2>3, DropAnswerKeeps DEF setStore
  <2> QED BY <2>2, <2>3
<1>5. CASE Left(c)
  BY <1>5, DropAnswerKeeps DEF Left
<1>6. CASE AdminAnswered(c)
  <2>1. /\ TakeAnswer(c) /\ UNCHANGED <<store, w, lost>>
        /\ h[c].op \in {"BLOCKED", "ACTIVE"}
    BY <1>6 DEF AdminAnswered, sessionVars
  <2>2. AuthInv' /\ Moved(c) /\ h'[c] = Idle /\ token' = token
    BY <2>1, AnswerOK, AnswerFacts DEF TakeAnswer, SessionInv, AuthInv
  <2>3. Others(c) /\ w' \in [Calls -> Fetch] /\ w'[c] = w[c]
    BY <2>1, <2>2 DEF Others, Moved, SessionInv, Browser
  <2>4. StoredTokenServes' /\ Browser'
    BY <2>1, <2>2, <2>3, StoreKept
  <2>5. SlotOK(c)'
    BY <2>1, <2>2 DEF SessionInv, SlotOK, Issued, Issuing, Idle
  <2>6. \A d \in Calls \ {c} : SlotOK(d)'
    <3>1. \A d \in Calls \ {c} : Issued(d) => h'[c].token # h[d].token /\ store' # h[d].token
      BY <2>1, <2>2, NotStored DEF Idle
    <3> QED BY <2>2, <2>3, <3>1, SlotsKept
  <2>7. LeavingOK'
    <3>1. \A d \in Calls : Issued(d)' => Issued(d) /\ h'[d].token = h[d].token
      BY <2>2 DEF Issued, Issuing, Idle, Moved
    <3> QED BY <2>1, <2>2, <3>1, LeavingKept
  <2> QED BY <2>2, <2>4, <2>5, <2>6, <2>7 DEF SessionInv
<1> QED BY <1>1, <1>2, <1>3, <1>4, <1>5, <1>6 DEF React

-------------------------------------------------------------------------------
LEMMA SessionInitOK == ASSUME Init PROVE SessionInv
<1>1. AuthInv /\ h = [c \in Calls |-> Idle] /\ store = None /\ lost = None
      /\ w = [c \in Calls |-> NoFetch]
  BY AuthInitOK DEF Init, AuthInit
<1>2. Browser /\ StoredTokenServes
  BY <1>1 DEF Browser, StoredTokenServes, NoFetch, Fetch
<1>3. \A c \in Calls : SlotOK(c)
  BY <1>1 DEF SlotOK, Issued, Issuing, NoFetch, Idle
<1>4. LeavingOK
  BY <1>1 DEF LeavingOK, NoFetch
<1> QED BY <1>1, <1>2, <1>3, <1>4 DEF SessionInv

LEMMA SessionNextOK == ASSUME SessionInv, [Next]_vars PROVE SessionInv'
<1>1. ASSUME NEW c \in Calls, NEW u \in Users, SignIn(c, u) \/ SetStatus(c, u) PROVE SessionInv'
  BY <1>1, SignInKeeps, SetStatusKeeps
<1>2. ASSUME NEW c \in Calls,
             \/ Send(c) \/ SignOut(c) \/ LogoutArrives(c) \/ LogoutLost(c)
             \/ React(c) \/ AnswerLost(c)
      PROVE  SessionInv'
  BY <1>2, QuietCallKeeps, SignOutKeeps, LogoutArrivesKeeps, ReactKeeps, AnswerLostKeeps
<1>3. ASSUME NEW c \in Calls, Serve(c) \/ (HandlerFails(c) /\ UNCHANGED sessionVars)
      PROVE  SessionInv'
  BY <1>3, HandlerStepsKeep, IssueKeeps DEF Serve
<1>4. ASSUME NEW t \in Tokens, (ExpireAccess(t) \/ ExpireRefresh(t)) /\ UNCHANGED sessionVars
      PROVE  SessionInv'
  BY <1>4, ExpiryKeeps
<1>5. CASE UNCHANGED vars
  <2>1. UNCHANGED authVars /\ UNCHANGED sessionVars /\ UNCHANGED <<token, h>>
    BY <1>5 DEF vars, authVars
  <2>2. AuthInv'
    BY <2>1, AuthStutter DEF SessionInv
  <2> QED BY <2>1, <2>2, ServiceStep
<1>6. CASE \E c \in Calls, u \in Users : SignIn(c, u) \/ SetStatus(c, u)
  BY <1>1, <1>6
<1>7. CASE \E c \in Calls : \/ Send(c) \/ SignOut(c) \/ LogoutArrives(c) \/ LogoutLost(c)
                           \/ React(c) \/ AnswerLost(c)
  BY <1>2, <1>7
<1>8. CASE \E c \in Calls : Serve(c) \/ (HandlerFails(c) /\ UNCHANGED sessionVars)
  BY <1>3, <1>8
<1>9. CASE \E t \in Tokens : (ExpireAccess(t) \/ ExpireRefresh(t)) /\ UNCHANGED sessionVars
  BY <1>4, <1>9
<1> QED BY <1>5, <1>6, <1>7, <1>8, <1>9 DEF Next

THEOREM SessionInvariant == Spec => []SessionInv
<1>1. Init => SessionInv
  BY SessionInitOK
<1>2. SessionInv /\ [Next]_vars => SessionInv'
  BY SessionNextOK
<1> QED BY <1>1, <1>2, PTL DEF Spec

\* Every value of the session and of the panel has its type.
THEOREM SessionTypeCorrect == Spec => []TypeOK
<1>1. SessionInv => TypeOK
  BY AuthFacts DEF SessionInv, Browser, TypeOK
<1> QED BY <1>1, SessionInvariant, PTL

\* What Auth promises holds for the browsers' requests.
THEOREM SessionKeepsAuth == Spec => [](RotationExcess /\ LateIssueBounded /\ BlockRevokes)
<1>1. SessionInv => RotationExcess /\ LateIssueBounded /\ BlockRevokes
  BY AuthFacts DEF SessionInv
<1> QED BY <1>1, SessionInvariant, PTL

\* A browser is not left with a refresh token that it has used up or signed out.
THEOREM StoredTokenWorks == Spec => []StoredTokenServes
<1>1. SessionInv => StoredTokenServes
  BY DEF SessionInv
<1> QED BY <1>1, SessionInvariant, PTL

-------------------------------------------------------------------------------
\* ConfigsPage.  Answers are awaited only by a page that is there, and reloads only
\* go on as long as they are.
AwaitedOnPage(r) ==
  /\ r.awaited => stage # "left"
  /\ r.at \in {"loading", "listed"} => r.awaited
  /\ r.by = "visit" => r.at \in {"loading", "listed"}

\* A config that the form has asked for.
OfForm(r) == r.awaited /\ r.by = "create"

\* Once the panel has made it, every list that is read has it until it is revoked.
NewIsListed(r) ==
  OfForm(r) =>
    /\ r.at \in {"loading", "listed"} => r.id \in Configs /\ stored[r.id] \in {"active", "gone"}
    /\ r.at = "listed" => r.id \in r.list \/ stored[r.id] = "gone"

\* What is revoked or recreated is a config.
OfCard(r) ==
  /\ r.at = "posting" /\ r.by \in {"revoke", "recreate"} => r.id \in Configs
  /\ r.at = "replacing" => r.by = "recreate" /\ r.id \in Configs

ChangeOK(r) == r \in ChangeRecords /\ AwaitedOnPage(r) /\ NewIsListed(r) /\ OfCard(r)

ButtonOK ==
  /\ creating <=> \E q \in Changes : OfForm(change[q])
  /\ \A q, r \in Changes : OfForm(change[q]) /\ OfForm(change[r]) => q = r

ChoiceOK ==
  /\ serverId = Nil <=> offered = {}
  /\ serverId # Nil => serverId \in offered

ConfigsInv == /\ ConfigsTypeOK
              /\ \A q \in Changes : ChangeOK(change[q])
              /\ stage # "left" => ButtonOK /\ ChoiceOK

\* A config that is there goes on being there or is gone for good.
RowsLast ==
  /\ stored' \in [Configs -> {"none", "active", "gone"}]
  /\ \A c \in Configs : /\ stored[c] \in {"active", "gone"} => stored'[c] \in {"active", "gone"}
                        /\ stored[c] = "gone" => stored'[c] = "gone"

LEMMA ChangeKept ==
  ASSUME ConfigsInv, NEW r, ChangeOK(r), RowsLast, stage' # "left" \/ stage' = stage
  PROVE  ChangeOK(r)'
BY DEF ChangeOK, AwaitedOnPage, NewIsListed, OfCard, RowsLast, ChangeRecords

LEMMA NothingOK == ChangeOK(NoChange) /\ ~OfForm(NoChange)
BY DEF ChangeOK, AwaitedOnPage, NewIsListed, OfCard, OfForm, NoChange, ChangeRecords

\* A step of one change that neither begins nor ends one of the form.
LEMMA ChangeStep ==
  ASSUME ConfigsInv, NEW q \in Changes, NEW r, ChangeOK(r)', OfForm(r) <=> OfForm(change[q]),
         change' = [change EXCEPT ![q] = r], RowsLast,
         UNCHANGED <<place, listVars, formVars, ask>>
  PROVE  ConfigsInv'
<1>1. change' \in [Changes -> ChangeRecords]
  BY DEF ConfigsInv, ConfigsTypeOK, ChangeOK
<1>2. ConfigsTypeOK'
  BY <1>1 DEF ConfigsInv, ConfigsTypeOK, RowsLast, listVars, formVars
<1>3. ASSUME NEW p \in Changes PROVE ChangeOK(change[p])'
  <2>1. CASE p = q
    <3>1. change'[p] = r
      BY <2>1 DEF ConfigsInv, ConfigsTypeOK
    <3> QED BY <3>1
  <2>2. CASE p # q
    <3>1. change'[p] = change[p] /\ ChangeOK(change[p])
      BY <2>2 DEF ConfigsInv, ConfigsTypeOK
    <3> QED BY <3>1, ChangeKept DEF listVars
  <2> QED BY <2>1, <2>2
<1>4. ASSUME NEW p \in Changes PROVE OfForm(change'[p]) <=> OfForm(change[p])
  BY DEF ConfigsInv, ConfigsTypeOK
<1>5. (stage # "left" => ButtonOK /\ ChoiceOK)'
  BY <1>4 DEF ConfigsInv, ButtonOK, ChoiceOK, listVars, formVars
<1> QED BY <1>2, <1>3, <1>5 DEF ConfigsInv

LEMMA PressOK ==
  ASSUME ConfigsInv, NEW q \in Changes, NEW c \in Configs, revoke(q, c) \/ recreate(q, c)
  PROVE  ConfigsInv'
<1>1. PICK by \in {"revoke", "recreate"} : Start(q, "posting", by, c)
  BY DEF revoke, recreate
<1>2. /\ UNCHANGED <<rowVars, listVars, formVars, ask>>
      /\ stage = "ready"
  BY DEF revoke, recreate, Card
<1>3. PICK r : r = [NoChange EXCEPT !.at = "posting", !.by = by, !.id = c, !.awaited = TRUE]
  OBVIOUS
<1>4. change' = [change EXCEPT ![q] = r] /\ change[q] = NoChange
  BY <1>1, <1>3 DEF Start
<1>5. r = [at |-> "posting", by |-> by, id |-> c, awaited |-> TRUE, list |-> {}]
  BY <1>3 DEF NoChange
<1>6. ChangeOK(r)' /\ ~OfForm(r)
  BY <1>2, <1>5 DEF ChangeOK, AwaitedOnPage, NewIsListed, OfCard, OfForm, ChangeRecords, listVars
<1> QED BY <1>2, <1>4, <1>6, ChangeStep, NothingOK DEF rowVars, RowsLast, ConfigsInv, ConfigsTypeOK

LEMMA ReloadOK ==
  ASSUME ConfigsInv, NEW q \in Changes, NEW id \in Configs, Reload(q, id), RowsLast,
         stored'[id] \in {"active", "gone"}, change[q].at \in {"posting", "replacing"},
         UNCHANGED <<place, listVars, formVars, ask>>
  PROVE  ConfigsInv'
<1>1. change[q] \in ChangeRecords /\ AwaitedOnPage(change[q]) /\ NewIsListed(change[q]) /\ OfCard(change[q])
  BY DEF ConfigsInv, ChangeOK
<1>2. CASE change[q].awaited
  <2>1. PICK r : r = [change[q] EXCEPT !.at = "loading", !.id = id]
    OBVIOUS
  <2>2. change' = [change EXCEPT ![q] = r]
    BY <1>2, <2>1 DEF Reload, ConfigsInv, ConfigsTypeOK
  <2>3. r = [at |-> "loading", by |-> change[q].by, id |-> id, awaited |-> TRUE, list |-> change[q].list]
    BY <1>1, <1>2, <2>1 DEF ChangeRecords
  <2>4. OfForm(r) <=> OfForm(change[q])
    BY <1>2, <2>3 DEF OfForm
  <2>5. ChangeOK(r)'
    BY <1>1, <1>2, <2>3 DEF ChangeOK, AwaitedOnPage, NewIsListed, OfCard, ChangeRecords, listVars
  <2> QED BY <2>2, <2>4, <2>5, ChangeStep
<1>3. CASE ~change[q].awaited
  <2>1. PICK r : r = NoChange
    OBVIOUS
  <2>2. change' = [change EXCEPT ![q] = r]
    BY <1>3, <2>1 DEF Reload, ConfigsInv, ConfigsTypeOK
  <2>3. ChangeOK(r)' /\ ~OfForm(r)
    BY <2>1, NothingOK, ChangeKept DEF listVars
  <2> QED BY <1>3, <2>2, <2>3, ChangeStep DEF OfForm
<1> QED BY <1>2, <1>3

LEMMA PanelStepOK ==
  ASSUME ConfigsInv, NEW q \in Changes, PanelCreates(q) \/ PanelReplaces(q) \/ PanelRevokes(q)
  PROVE  ConfigsInv'
<1>0. /\ change[q] \in ChangeRecords /\ AwaitedOnPage(change[q]) /\ NewIsListed(change[q]) /\ OfCard(change[q])
      /\ stored \in [Configs -> {"none", "active", "gone"}]
  BY DEF ConfigsInv, ChangeOK, ConfigsTypeOK
<1>1. CASE PanelCreates(q)
  <2>1. PICK c \in Configs : /\ stored[c] = "none" /\ stored' = [stored EXCEPT ![c] = "active"]
                             /\ Reload(q, c)
    BY <1>1 DEF PanelCreates
  <2>2. RowsLast /\ stored'[c] = "active"
    BY <1>0, <2>1 DEF RowsLast
  <2> QED BY <1>1, <2>1, <2>2, ReloadOK DEF PanelCreates
<1>2. CASE PanelReplaces(q)
  <2>1. PICK c \in Configs : stored[c] = "none" /\ stored' = [stored EXCEPT ![c] = "active"]
    BY <1>2 DEF PanelReplaces
  <2>2. RowsLast
    BY <1>0, <2>1 DEF RowsLast
  <2>3. PICK r : r = [change[q] EXCEPT !.at = "replacing"]
    OBVIOUS
  <2>4. change' = [change EXCEPT ![q] = r] /\ change[q].by = "recreate"
    BY <1>2, <2>3 DEF PanelReplaces, ConfigsInv, ConfigsTypeOK
  <2>5. r = [at |-> "replacing", by |-> "recreate", id |-> change[q].id,
             awaited |-> change[q].awaited, list |-> change[q].list]
    BY <1>0, <2>3, <2>4 DEF ChangeRecords
  <2>6. ChangeOK(r)' /\ ~OfForm(r) /\ ~OfForm(change[q])
    BY <1>0, <1>2, <2>4, <2>5 DEF ChangeOK, AwaitedOnPage, NewIsListed, OfCard, OfForm, ChangeRecords, PanelReplaces, listVars
  <2> QED BY <1>2, <2>2, <2>4, <2>6, ChangeStep DEF PanelReplaces
<1>3. CASE PanelRevokes(q)
  <2>1. /\ stored[change[q].id] = "active" /\ stored' = [stored EXCEPT ![change[q].id] = "gone"]
        /\ Reload(q, change[q].id) /\ change[q].at \in {"posting", "replacing"}
    BY <1>3 DEF PanelRevokes
  <2>2. change[q].id \in Configs
    BY <1>0, <1>3 DEF PanelRevokes, OfCard
  <2>3. RowsLast /\ stored'[change[q].id] = "gone"
    BY <1>0, <2>1, <2>2 DEF RowsLast
  <2> QED BY <1>3, <2>1, <2>2, <2>3, ReloadOK DEF PanelRevokes
<1> QED BY <1>1, <1>2, <1>3

LEMMA PanelListsOK ==
  ASSUME ConfigsInv, NEW q \in Changes, PanelLists(q) PROVE ConfigsInv'
<1>1. change[q] \in ChangeRecords /\ AwaitedOnPage(change[q]) /\ NewIsListed(change[q]) /\ OfCard(change[q])
  BY DEF ConfigsInv, ChangeOK
<1>2. PICK r : r = [change[q] EXCEPT !.at = "listed", !.list = listForUser]
  OBVIOUS
<1>3. change' = [change EXCEPT ![q] = r] /\ change[q].at = "loading"
  BY <1>2 DEF PanelLists, ConfigsInv, ConfigsTypeOK
<1>4. r = [at |-> "listed", by |-> change[q].by, id |-> change[q].id,
           awaited |-> change[q].awaited, list |-> listForUser]
  BY <1>1, <1>2 DEF ChangeRecords
<1>5. OfForm(r) <=> OfForm(change[q])
  BY <1>4 DEF OfForm
<1>6. ChangeOK(r)
  BY <1>1, <1>3, <1>4 DEF ChangeOK, AwaitedOnPage, NewIsListed, OfCard, OfForm, ChangeRecords, listForUser
<1>7. RowsLast
  BY DEF PanelLists, rowVars, RowsLast, ConfigsInv, ConfigsTypeOK
<1>8. ChangeOK(r)'
  BY <1>6, <1>7, ChangeKept DEF PanelLists, listVars
<1> QED BY <1>3, <1>5, <1>7, <1>8, ChangeStep DEF PanelLists, rowVars

\* A change comes to its end, and with it what waited for it.
LEMMA EndStep ==
  ASSUME ConfigsInv, NEW q \in Changes, Settled(q), shown' \in SUBSET Configs,
         UNCHANGED <<rowVars, formVars, ask>>
  PROVE  ConfigsInv'
<1>1. change' = [change EXCEPT ![q] = NoChange] /\ NoChange \in ChangeRecords
  BY NothingOK DEF Settled, ChangeOK
<1>2. change[q] \in ChangeRecords /\ AwaitedOnPage(change[q])
  BY DEF ConfigsInv, ChangeOK
<1>3. creating' = (creating /\ ~OfForm(change[q]))
  BY DEF Settled, OfForm
<1>4. stage' # "left" <=> stage # "left"
  BY <1>2 DEF Settled, AwaitedOnPage
<1>5. stage' \in {"left", "loading", "ready"} /\ creating' \in BOOLEAN
  BY <1>3 DEF Settled, ConfigsInv, ConfigsTypeOK
<1>6. ConfigsTypeOK'
  <2>1. change' \in [Changes -> ChangeRecords]
    BY <1>1 DEF ConfigsInv, ConfigsTypeOK
  <2> QED BY <1>5, <2>1 DEF ConfigsInv, ConfigsTypeOK, rowVars, formVars
<1>7. RowsLast
  BY DEF rowVars, RowsLast, ConfigsInv, ConfigsTypeOK
<1>8. \A p \in Changes : change'[p] = IF p = q THEN NoChange ELSE change[p]
  BY <1>1 DEF ConfigsInv, ConfigsTypeOK
<1>9. ASSUME NEW p \in Changes PROVE ChangeOK(change[p])'
  <2>1. PICK r : r = change'[p]
    OBVIOUS
  <2>2. ChangeOK(r)
    BY <1>8, <2>1, NothingOK DEF ConfigsInv
  <2>3. ChangeOK(r)'
    BY <1>4, <1>7, <2>2, ChangeKept DEF Settled
  <2> QED BY <2>1, <2>3
<1>10. ASSUME stage' # "left" PROVE (ButtonOK /\ ChoiceOK)'
  <2>1. ButtonOK /\ ChoiceOK
    BY <1>4, <1>10 DEF ConfigsInv
  <2>2. ButtonOK'
    BY <1>3, <1>8, <2>1, NothingOK DEF ButtonOK
  <2> QED BY <2>1, <2>2 DEF ChoiceOK, formVars
<1> QED BY <1>6, <1>9, <1>10 DEF ConfigsInv

LEMMA EndOK ==
  ASSUME ConfigsInv, NEW q \in Changes, listed(q) \/ ChangeFails(q) PROVE ConfigsInv'
<1>1. change[q] \in ChangeRecords
  BY DEF ConfigsInv, ChangeOK
<1>2. shown' \in SUBSET Configs
  BY <1>1 DEF listed, ChangeFails, Shows, ChangeRecords, ConfigsInv, ConfigsTypeOK
<1> QED BY <1>2, EndStep DEF listed, ChangeFails

\* A change begins.
LEMMA CreateOK ==
  ASSUME ConfigsInv, NEW q \in Changes, createPeer(q) PROVE ConfigsInv'
<1>1. PICK r : r = [NoChange EXCEPT !.at = "posting", !.by = "create", !.id = serverId, !.awaited = TRUE]
  OBVIOUS
<1>2. change' = [change EXCEPT ![q] = r]
  BY <1>1 DEF createPeer, Start
<1>3. r = [at |-> "posting", by |-> "create", id |-> serverId, awaited |-> TRUE, list |-> {}]
  BY <1>1 DEF NoChange
<1>4. stage = "ready" /\ ~creating /\ creating' /\ stage' = stage
  BY DEF createPeer, Pressable
<1>5. \A p \in Changes : ~OfForm(change[p])
  BY <1>4 DEF ConfigsInv, ButtonOK
<1>6. ChangeOK(r) /\ OfForm(r)
  BY <1>3, <1>4 DEF ChangeOK, AwaitedOnPage, NewIsListed, OfCard, OfForm, ChangeRecords, ConfigsInv, ConfigsTypeOK
<1>7. ConfigsTypeOK'
  <2>1. change' \in [Changes -> ChangeRecords]
    BY <1>2, <1>6 DEF ConfigsInv, ConfigsTypeOK, ChangeOK
  <2>2. creating' \in BOOLEAN
    BY DEF createPeer
  <2> QED BY <2>1, <2>2 DEF createPeer, ConfigsInv, ConfigsTypeOK, rowVars, formVars
<1>8. RowsLast
  BY DEF createPeer, rowVars, RowsLast, ConfigsInv, ConfigsTypeOK
<1>9. \A p \in Changes : change'[p] = IF p = q THEN r ELSE change[p]
  BY <1>2 DEF ConfigsInv, ConfigsTypeOK
<1>10. ASSUME NEW p \in Changes PROVE ChangeOK(change[p])'
  <2>1. PICK x : x = change'[p]
    OBVIOUS
  <2>2. ChangeOK(x)
    BY <1>6, <1>9, <2>1 DEF ConfigsInv
  <2>3. ChangeOK(x)'
    BY <1>4, <1>8, <2>2, ChangeKept
  <2> QED BY <2>1, <2>3
<1>11. (ButtonOK /\ ChoiceOK)'
  <2>1. ButtonOK'
    BY <1>4, <1>5, <1>6, <1>9 DEF ButtonOK
  <2> QED BY <1>4, <2>1 DEF ConfigsInv, ChoiceOK, createPeer, formVars
<1> QED BY <1>7, <1>10, <1>11 DEF ConfigsInv

LEMMA AskRecordsOK ==
  /\ NoAsk \in AskRecords
  /\ \A c \in Lands \cup {Nil} : [NoAsk EXCEPT !.at = "asking", !.for = c] \in AskRecords
BY DEF NoAsk, AskRecords

LEMMA VisitOK ==
  ASSUME ConfigsInv, NEW q \in Changes, NEW k \in Asks, visit(q, k) PROVE ConfigsInv'
<1>1. PICK r : r = [NoChange EXCEPT !.at = "loading", !.by = "visit", !.id = Nil, !.awaited = TRUE]
  OBVIOUS
<1>2. change' = [change EXCEPT ![q] = r]
  BY <1>1 DEF visit, Start
<1>3. r = [at |-> "loading", by |-> "visit", id |-> Nil, awaited |-> TRUE, list |-> {}]
  BY <1>1 DEF NoChange
<1>4. stage = "left" /\ stage' = "loading" /\ ~creating' /\ offered' = {} /\ serverId' = Nil
  BY DEF visit
<1>5. \A p \in Changes : ~OfForm(change[p])
  BY <1>4 DEF ConfigsInv, ChangeOK, AwaitedOnPage, OfForm
<1>6. ChangeOK(r)' /\ ~OfForm(r) /\ r \in ChangeRecords
  BY <1>3, <1>4 DEF ChangeOK, AwaitedOnPage, NewIsListed, OfCard, OfForm, ChangeRecords
<1>7. ConfigsTypeOK'
  <2>1. change' \in [Changes -> ChangeRecords]
    BY <1>2, <1>6 DEF ConfigsInv, ConfigsTypeOK
  <2>2. ask' \in [Asks -> AskRecords]
    BY AskRecordsOK DEF visit, StartAsk, ConfigsInv, ConfigsTypeOK
  <2> QED BY <2>1, <2>2 DEF visit, ConfigsInv, ConfigsTypeOK, rowVars
<1>8. RowsLast
  BY DEF visit, rowVars, RowsLast, ConfigsInv, ConfigsTypeOK
<1>9. \A p \in Changes : change'[p] = IF p = q THEN r ELSE change[p]
  BY <1>2 DEF ConfigsInv, ConfigsTypeOK
<1>10. ASSUME NEW p \in Changes PROVE ChangeOK(change[p])'
  <2>1. CASE p = q
    BY <1>6, <1>9, <2>1
  <2>2. CASE p # q
    <3>1. PICK x : x = change'[p]
      OBVIOUS
    <3>2. ChangeOK(x)
      BY <1>9, <2>2, <3>1 DEF ConfigsInv
    <3>3. ChangeOK(x)'
      BY <1>4, <1>8, <3>2, ChangeKept
    <3> QED BY <3>1, <3>3
  <2> QED BY <2>1, <2>2
<1>11. (ButtonOK /\ ChoiceOK)'
  <2>1. ButtonOK'
    BY <1>4, <1>5, <1>6, <1>9 DEF ButtonOK
  <2> QED BY <1>4, <2>1 DEF ChoiceOK
<1> QED BY <1>7, <1>10, <1>11 DEF ConfigsInv

LEMMA LeaveOK == ASSUME ConfigsInv, leaveConfigs PROVE ConfigsInv'
<1>1. ASSUME NEW q \in Changes PROVE change'[q] \in ChangeRecords /\ ChangeOK(change[q])'
  <2>1. change[q] \in ChangeRecords /\ AwaitedOnPage(change[q]) /\ OfCard(change[q])
    BY DEF ConfigsInv, ChangeOK
  <2>2. CASE change[q].at \in {"posting", "replacing"}
    <3>1. PICK r : r = [change[q] EXCEPT !.awaited = FALSE]
      OBVIOUS
    <3>2. r = [at |-> change[q].at, by |-> change[q].by, id |-> change[q].id,
               awaited |-> FALSE, list |-> change[q].list]
      BY <2>1, <3>1 DEF ChangeRecords
    <3>3. change'[q] = r
      BY <2>2, <3>1 DEF leaveConfigs
    <3>4. ChangeOK(r)' /\ r \in ChangeRecords
      BY <2>1, <2>2, <3>2 DEF ChangeOK, AwaitedOnPage, NewIsListed, OfCard, OfForm, ChangeRecords
    <3> QED BY <3>3, <3>4
  <2>3. CASE change[q].at \notin {"posting", "replacing"}
    <3>1. change'[q] = NoChange
      BY <2>3 DEF leaveConfigs
    <3>2. ChangeOK(NoChange)'
      BY DEF ChangeOK, AwaitedOnPage, NewIsListed, OfCard, OfForm, NoChange, ChangeRecords
    <3> QED BY <3>1, <3>2, NothingOK DEF ChangeOK
  <2> QED BY <2>2, <2>3
<1>2. change' \in [Changes -> ChangeRecords]
  <2>1. change' = [q \in Changes |-> change'[q]]
    BY DEF leaveConfigs
  <2> QED BY <1>1, <2>1
<1>3. ask' \in [Asks -> AskRecords]
  BY AskRecordsOK DEF leaveConfigs
<1>4. ConfigsTypeOK' /\ stage' = "left"
  BY <1>2, <1>3 DEF leaveConfigs, ConfigsInv, ConfigsTypeOK, rowVars, formVars
<1> QED BY <1>1, <1>4 DEF ConfigsInv

\* A step that no change takes part in.
LEMMA QuietPage ==
  ASSUME ConfigsInv, UNCHANGED <<listVars, change>>, RowsLast, ConfigsTypeOK', ChoiceOK => ChoiceOK'
  PROVE  ConfigsInv'
<1>1. ASSUME NEW p \in Changes PROVE ChangeOK(change[p])'
  <2>1. PICK x : x = change[p]
    OBVIOUS
  <2>2. ChangeOK(x)'
    BY <2>1, ChangeKept DEF ConfigsInv, listVars
  <2> QED BY <2>1, <2>2
<1>2. (stage # "left" => ButtonOK /\ ChoiceOK)'
  BY DEF ConfigsInv, ButtonOK, listVars
<1> QED BY <1>1, <1>2 DEF ConfigsInv

LEMMA ElsewhereOK ==
  ASSUME ConfigsInv, \/ \E c \in Configs : changedElsewhere(c)
                     \/ \E s \in Nodes, c \in Lands \cup {Nil} : serverChanges(s, c)
  PROVE  ConfigsInv'
<1>1. stored' \in [Configs -> {"none", "active", "gone"}] /\ RowsLast
  BY DEF changedElsewhere, serverChanges, RowsLast, ConfigsInv, ConfigsTypeOK
<1>2. place' \in [Nodes -> Lands \cup {Nil}]
  BY DEF changedElsewhere, serverChanges, ConfigsInv, ConfigsTypeOK
<1>3. UNCHANGED <<listVars, formVars, change, ask>>
  BY DEF changedElsewhere, serverChanges
<1>4. ConfigsTypeOK'
  BY <1>1, <1>2, <1>3 DEF ConfigsInv, ConfigsTypeOK, listVars, formVars
<1>5. ChoiceOK => ChoiceOK'
  BY <1>3 DEF ChoiceOK, formVars
<1> QED BY <1>1, <1>3, <1>4, <1>5, QuietPage

LEMMA FormOK ==
  ASSUME ConfigsInv,
         \/ \E s \in Nodes : chooseServer(s)
         \/ \E k \in Asks : \/ \E c \in Lands \cup {Nil} : chooseCountry(k, c)
                            \/ listAvailable(k) \/ setServers(k) \/ AskFails(k)
  PROVE  ConfigsInv'
<1>1. /\ UNCHANGED <<rowVars, listVars, change>>
      /\ ConfigsTypeOK
  BY DEF chooseServer, chooseCountry, listAvailable, setServers, AskFails, ConfigsInv
<1>2. RowsLast
  BY <1>1 DEF RowsLast, rowVars, ConfigsTypeOK
<1>3. ASSUME NEW s \in Nodes, chooseServer(s) PROVE ConfigsTypeOK' /\ (ChoiceOK => ChoiceOK')
  <2>1. serverId' \in Nodes /\ serverId' # Nil
    BY <1>3, ConfigsAssumption DEF chooseServer
  <2>2. ConfigsTypeOK'
    BY <1>1, <1>3, <2>1 DEF chooseServer, ConfigsTypeOK, rowVars, listVars
  <2> QED BY <1>3, <2>1, <2>2 DEF chooseServer, ChoiceOK
<1>4. ASSUME NEW k \in Asks, NEW c \in Lands \cup {Nil}, chooseCountry(k, c)
      PROVE  ConfigsTypeOK' /\ (ChoiceOK => ChoiceOK')
  <2>1. ask' \in [Asks -> AskRecords]
    BY <1>1, <1>4, AskRecordsOK DEF chooseCountry, StartAsk, ConfigsTypeOK
  <2> QED BY <1>1, <1>4, <2>1 DEF chooseCountry, ConfigsTypeOK, rowVars, listVars, ChoiceOK
<1>5. ASSUME NEW k \in Asks, listAvailable(k) PROVE ConfigsTypeOK' /\ (ChoiceOK => ChoiceOK')
  <2>1. PICK r : r = [ask[k] EXCEPT !.at = "answered", !.list = Available(ask[k].for)]
    OBVIOUS
  <2>2. ask' = [ask EXCEPT ![k] = r] /\ ask[k] \in AskRecords
    BY <1>1, <1>5, <2>1 DEF listAvailable, ConfigsTypeOK
  <2>3. r = [at |-> "answered", for |-> ask[k].for, list |-> Available(ask[k].for)]
    BY <2>1, <2>2 DEF AskRecords
  <2>4. r \in AskRecords
    BY <2>2, <2>3 DEF AskRecords, Available
  <2>5. ask' \in [Asks -> AskRecords]
    BY <1>1, <2>2, <2>4 DEF ConfigsTypeOK
  <2> QED BY <1>1, <1>5, <2>5 DEF listAvailable, ConfigsTypeOK, rowVars, listVars, formVars, ChoiceOK
<1>6. ASSUME NEW k \in Asks, setServers(k) PROVE ConfigsTypeOK' /\ (ChoiceOK => ChoiceOK')
  <2>1. ask' \in [Asks -> AskRecords] /\ offered' \in SUBSET Nodes
    BY <1>1, <1>6, AskRecordsOK DEF setServers, ConfigsTypeOK, AskRecords
  <2>2. IF offered' = {} THEN serverId' = Nil ELSE serverId' \in offered'
    BY <1>6 DEF setServers
  <2>3. serverId' \in Nodes \cup {Nil} /\ ChoiceOK'
    BY <2>1, <2>2, ConfigsAssumption DEF ChoiceOK
  <2> QED BY <1>1, <1>6, <2>1, <2>3 DEF setServers, ConfigsTypeOK, rowVars, listVars
<1>7. ASSUME NEW k \in Asks, AskFails(k) PROVE ConfigsTypeOK' /\ (ChoiceOK => ChoiceOK')
  <2>1. ask' \in [Asks -> AskRecords]
    BY <1>1, <1>7, AskRecordsOK DEF AskFails, ConfigsTypeOK
  <2> QED BY <1>1, <1>7, <2>1 DEF AskFails, ConfigsTypeOK, rowVars, listVars, formVars, ChoiceOK
<1>8. ConfigsTypeOK' /\ (ChoiceOK => ChoiceOK')
  BY <1>3, <1>4, <1>5, <1>6, <1>7
<1> QED BY <1>1, <1>2, <1>8, QuietPage

LEMMA ConfigsInitOK == ASSUME ConfigsInit PROVE ConfigsInv
<1>1. change = [q \in Changes |-> NoChange] /\ stage = "left"
  BY DEF ConfigsInit
<1>2. ConfigsTypeOK
  BY NothingOK, AskRecordsOK DEF ConfigsInit, ConfigsTypeOK, ChangeOK
<1>3. \A q \in Changes : ChangeOK(change[q])
  BY <1>1, NothingOK
<1> QED BY <1>1, <1>2, <1>3 DEF ConfigsInv

LEMMA ConfigsNextOK == ASSUME ConfigsInv, [ConfigsNext]_configsVars PROVE ConfigsInv'
<1>1. CASE UNCHANGED configsVars
  <2>1. RowsLast /\ ConfigsTypeOK' /\ (ChoiceOK => ChoiceOK')
    BY <1>1 DEF configsVars, rowVars, listVars, formVars, RowsLast, ConfigsInv, ConfigsTypeOK, ChoiceOK
  <2> QED BY <1>1, <2>1, QuietPage DEF configsVars
<1>2. ASSUME NEW q \in Changes,
             \/ createPeer(q) \/ \E c \in Configs : revoke(q, c) \/ recreate(q, c)
             \/ PanelCreates(q) \/ PanelReplaces(q) \/ PanelRevokes(q) \/ PanelLists(q)
             \/ listed(q) \/ ChangeFails(q)
      PROVE  ConfigsInv'
  BY <1>2, CreateOK, PressOK, PanelStepOK, PanelListsOK, EndOK
<1>3. ASSUME NEW k \in Asks, NEW q \in Changes, visit(q, k) PROVE ConfigsInv'
  BY <1>3, VisitOK
<1> QED BY <1>1, <1>2, <1>3, ElsewhereOK, FormOK, LeaveOK DEF ConfigsNext

LEMMA ConfigsAlways == ConfigsSpec => []ConfigsInv
<1>1. ConfigsInit => ConfigsInv
  BY ConfigsInitOK
<1>2. ConfigsInv /\ [ConfigsNext]_configsVars => ConfigsInv'
  BY ConfigsNextOK
<1> QED BY <1>1, <1>2, PTL DEF ConfigsSpec

\* The form makes one config at a time, on a server that it offers, however many
\* other changes are under way and however late answers arrive.
THEOREM FormMakesOne == ConfigsSpec => [](ConfigsTypeOK /\ OneAtATime)
<1>1. ConfigsInv => ConfigsTypeOK /\ OneAtATime
  BY DEF ConfigsInv, ButtonOK, ChoiceOK, OneAtATime, Creating, OfForm
<1> QED BY <1>1, ConfigsAlways, PTL

\* A change of the form ends in EndStep's step only, and the list then shown was
\* read after the panel had made the config.
LEMMA ButtonBack ==
  ASSUME ConfigsInv, ConfigsNext, stage = "ready", stage' = "ready", creating, ~creating'
  PROVE  \E q \in Changes : /\ listed(q) \/ ChangeFails(q)
                            /\ change[q].awaited /\ change[q].by = "create"
BY DEF ConfigsNext, changedElsewhere, serverChanges, visit, leaveConfigs, createPeer, revoke, recreate,
       PanelCreates, PanelReplaces, PanelRevokes, PanelLists, listed, ChangeFails, Settled,
       chooseCountry, chooseServer, listAvailable, setServers, AskFails, listVars

\* When the button is back, the config that was made is in the list, unless making
\* it failed or it has been revoked.
THEOREM NewConfigIsShown == ConfigsSpec => CreatedIsShown
<1> DEFINE Shown == stage = "ready" /\ stage' = "ready" /\ creating /\ ~creating' =>
             /\ \A q \in Changes : ~Creating(q)'
             /\ \E q \in Changes :
                  /\ Creating(q)
                  /\ change[q].at = "listed" => change[q].id \in shown' \/ stored[change[q].id] = "gone"
<1>1. ConfigsInv /\ [ConfigsNext]_configsVars => [Shown]_configsVars
  <2> SUFFICES ASSUME ConfigsInv, ConfigsNext, stage = "ready", stage' = "ready", creating, ~creating'
               PROVE  Shown
    OBVIOUS
  <2>1. PICK q \in Changes : /\ listed(q) \/ ChangeFails(q)
                             /\ change[q].awaited /\ change[q].by = "create"
    BY ButtonBack
  <2>2. Creating(q) /\ NewIsListed(change[q])
    BY <2>1 DEF Creating, ConfigsInv, ChangeOK
  <2>3. \A p \in Changes : change'[p] = IF p = q THEN NoChange ELSE change[p]
    BY <2>1 DEF listed, ChangeFails, Settled, ConfigsInv, ConfigsTypeOK
  <2>4. \A p \in Changes \ {q} : ~Creating(p)
    BY <2>2 DEF ConfigsInv, ButtonOK, Creating, OfForm
  <2>5. \A p \in Changes : ~Creating(p)'
    BY <2>3, <2>4 DEF Creating, NoChange
  <2>6. change[q].at = "listed" => change[q].id \in shown' \/ stored[change[q].id] = "gone"
    BY <2>1, <2>2 DEF NewIsListed, OfForm, Creating, listed, ChangeFails, Shows
  <2> QED BY <2>2, <2>5, <2>6
<1> QED BY <1>1, ConfigsAlways, PTL DEF ConfigsSpec, CreatedIsShown

===============================================================================
