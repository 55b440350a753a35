---------------------------------- MODULE Auth --------------------------------
(***************************************************************************)
(* AuthService and UsersService.setStatus: users, their refresh tokens and *)
(* the requests that check, rotate, issue and revoke them.  Everything     *)
(* between two awaits is one step.  A token stands for the pair issued     *)
(* together; a pair whose refresh token no longer works, whose access      *)
(* token is over and that nobody holds may be issued anew, so that         *)
(* finitely many tokens serve for ever.                                    *)
(***************************************************************************)
EXTENDS Naturals, FiniteSets

CONSTANTS Users,    \* e-mail addresses
          Tokens,   \* pairs of an access and a refresh token
          Calls,    \* slots for requests in flight
          None,     \* no token, no user
          Faults    \* "fails": an awaited statement may throw

ASSUME AuthAssumption ==
  /\ None \notin Users \cup Tokens
  /\ IsFiniteSet(Calls) /\ Calls # {} /\ IsFiniteSet(Tokens)

VARIABLES status,   \* users: the row of a user, "none" while there is no row
          token,    \* refresh_tokens: owner, state, and how often it was rotated
          access,   \* the pairs whose access token has not run out
          h,        \* the handler of each call
          late,     \* history: pairs issued to a user since he was blocked
          told      \* history: a block of him has also revoked his tokens

authVars == <<status, token, access, h, late, told>>

\* A row that is missing, expired or revoked by a block is dead; one that was
\* revoked by a rotation or a sign-out remembers that.
Row   == [user : Users \cup {None}, uses : Nat,
          state : {"live", "rotated", "loggedOut", "dead"}]
NoRow == [user |-> None, uses |-> 0, state |-> "dead"]

Idle    == [op |-> "none", pc |-> "idle", user |-> None, token |-> None]
Handler == [op : {"none", "register", "login", "refresh", "logout", "BLOCKED", "ACTIVE"},
            pc : {"idle", "verifying", "hashing", "loading", "rotating", "storing",
                  "updating", "revoking", "ok", "refused"},
            user : Users \cup {None}, token : Tokens \cup {None}]

Live(u)      == {t \in Tokens : token[t].state = "live" /\ token[t].user = u}
Answered(c)  == h[c].pc \in {"ok", "refused"}
Checked(c)   == h[c].pc \in {"verifying", "rotating", "storing"}
PastCheck(u) == {c \in Calls : h[c].user = u /\ Checked(c)}

Fresh(t) == /\ token[t].state # "live" /\ t \notin access
            /\ \A c \in Calls : h[c].token # t

AuthInit ==
  /\ status = [u \in Users |-> "none"]
  /\ token  = [t \in Tokens |-> NoRow]
  /\ access = {}
  /\ h      = [c \in Calls |-> Idle]
  /\ late   = [u \in Users |-> 0]
  /\ told   = [u \in Users |-> FALSE]

Begin(c, op, u, t, pc) ==
  /\ h[c] = Idle
  /\ h' = [h EXCEPT ![c] = [op |-> op, pc |-> pc, user |-> u, token |-> t]]
Move(c, from, to) == h[c].pc = from /\ h' = [h EXCEPT ![c].pc = to]
Answer(c) == Answered(c) /\ h' = [h EXCEPT ![c] = Idle]

Revoke(t, why) == IF token[t].state = "live" THEN [token[t] EXCEPT !.state = why] ELSE token[t]

BeginRegister(c, u) ==
  /\ Begin(c, "register", u, None, IF status[u] = "none" THEN "hashing" ELSE "refused")
  /\ UNCHANGED <<status, token, access, late, told>>

\* The e-mail is unique: a registration that overtook this one makes it fail.
CreateUser(c) ==
  /\ \/ /\ Move(c, "hashing", "storing")
        /\ status[h[c].user] = "none"
        /\ status' = [status EXCEPT ![h[c].user] = "ACTIVE"]
     \/ /\ Move(c, "hashing", "refused")
        /\ status[h[c].user] # "none"
        /\ UNCHANGED status
  /\ UNCHANGED <<token, access, late, told>>

BeginLogin(c, u) ==
  /\ Begin(c, "login", u, None, IF status[u] = "ACTIVE" THEN "verifying" ELSE "refused")
  /\ UNCHANGED <<status, token, access, late, told>>

VerifyPassword(c) ==
  /\ Move(c, "verifying", "storing") \/ Move(c, "verifying", "refused")
  /\ UNCHANGED <<status, token, access, late, told>>

BeginRefresh(c, t) ==
  /\ Begin(c, "refresh", token[t].user, t, IF token[t].state = "live" THEN "loading" ELSE "refused")
  /\ UNCHANGED <<status, token, access, late, told>>

\* Mutant: LoadUser forgets blocked users.
LoadUserBlocked(c) ==
  /\ Move(c, "loading", IF status[h[c].user] # "none" THEN "rotating" ELSE "refused")
  /\ UNCHANGED <<status, token, access, late, told>>

LoadUser(c) ==
  /\ Move(c, "loading", IF status[h[c].user] = "ACTIVE" THEN "rotating" ELSE "refused")
  /\ UNCHANGED <<status, token, access, late, told>>

\* Mutant: the used token is not revoked.
RotateNothing(c) ==
  /\ Move(c, "rotating", "storing")
  /\ UNCHANGED <<status, token, access, late, told>>

Rotate(c) ==
  /\ Move(c, "rotating", "storing")
  /\ token' = [token EXCEPT ![h[c].token] = Revoke(h[c].token, "rotated")]
  /\ UNCHANGED <<status, access, late, told>>

\* Signing and the insert; the handler's token is now the one it answers with.
IssueTokens(c, t) ==
  LET u == h[c].user IN
  /\ h[c].pc = "storing" /\ Fresh(t)
  /\ h'      = [h EXCEPT ![c].pc = "ok", ![c].token = t]
  /\ token'  = [s \in Tokens |->
                 CASE s = t          -> [user |-> u, uses |-> 0, state |-> "live"]
                   [] s = h[c].token -> [token[s] EXCEPT !.uses = @ + 1]
                   [] OTHER          -> token[s]]
  /\ access' = access \cup {t}
  /\ late'   = [late EXCEPT ![u] = IF status[u] = "BLOCKED" THEN @ + 1 ELSE @]
  /\ UNCHANGED <<status, told>>

Logout(c, t) ==
  /\ Begin(c, "logout", token[t].user, t, "ok")
  /\ token' = [token EXCEPT ![t] = Revoke(t, "loggedOut")]
  /\ UNCHANGED <<status, access, late, told>>

BeginSetStatus(c, u, s) ==
  /\ status[u] # "none" /\ s \in {"BLOCKED", "ACTIVE"}
  /\ Begin(c, s, u, None, "updating")
  /\ UNCHANGED <<status, token, access, late, told>>

UpdateStatus(c) ==
  LET u == h[c].user
      blocks == h[c].op = "BLOCKED" /\ status[u] = "ACTIVE" IN
  /\ Move(c, "updating", IF h[c].op = "BLOCKED" THEN "revoking" ELSE "ok")
  /\ status' = [status EXCEPT ![u] = h[c].op]
  /\ late'   = [late EXCEPT ![u] = IF blocks THEN 0 ELSE @]
  /\ told'   = [told EXCEPT ![u] = IF blocks THEN FALSE ELSE @]
  /\ UNCHANGED <<token, access>>

\* Mutant: only the newest of a user's tokens is revoked.
RevokeOneForUser(c) ==
  LET u == h[c].user IN
  /\ Move(c, "revoking", "ok")
  /\ \/ Live(u) = {} /\ UNCHANGED token
     \/ \E t \in Live(u) : token' = [token EXCEPT ![t] = Revoke(t, "dead")]
  /\ told'  = [told EXCEPT ![u] = TRUE]
  /\ UNCHANGED <<status, access, late>>

RevokeAllForUser(c) ==
  LET u == h[c].user IN
  /\ Move(c, "revoking", "ok")
  /\ token' = [t \in Tokens |-> IF token[t].user = u THEN Revoke(t, "dead") ELSE token[t]]
  /\ told'  = [told EXCEPT ![u] = TRUE]
  /\ UNCHANGED <<status, access, late>>

\* A statement throws, or the panel stops: the handler's work ends half done.
HandlerFails(c) ==
  /\ "fails" \in Faults /\ h[c] # Idle /\ ~Answered(c)
  /\ h' = [h EXCEPT ![c].pc = "refused"]
  /\ UNCHANGED <<status, token, access, late, told>>

ExpireAccess(t) ==
  /\ t \in access /\ access' = access \ {t}
  /\ UNCHANGED <<status, token, h, late, told>>

\* A refresh token lives longer than the access token issued with it.
ExpireRefresh(t) ==
  /\ token[t].state = "live" /\ t \notin access
  /\ token' = [token EXCEPT ![t].state = "dead"]
  /\ UNCHANGED <<status, access, h, late, told>>

\* The steps a handler takes by itself.
HandlerSteps(c) ==
  \/ CreateUser(c) \/ VerifyPassword(c) \/ LoadUser(c) \/ Rotate(c)
  \/ UpdateStatus(c) \/ RevokeAllForUser(c)

\* Any client may present any token that was issued.
AuthNext ==
  \/ \E c \in Calls :
       \/ \E u \in Users : \/ BeginRegister(c, u) \/ BeginLogin(c, u)
                           \/ \E s \in {"BLOCKED", "ACTIVE"} : BeginSetStatus(c, u, s)
       \/ \E t \in Tokens : \/ IssueTokens(c, t)
                            \/ token[t].user # None /\ (BeginRefresh(c, t) \/ Logout(c, t))
       \/ HandlerSteps(c) \/ HandlerFails(c)
       \/ Answer(c) /\ UNCHANGED <<status, token, access, late, told>>
  \/ \E t \in Tokens : ExpireAccess(t) \/ ExpireRefresh(t)

AuthSpec == AuthInit /\ [][AuthNext]_authVars

-------------------------------------------------------------------------------
\* Which request takes which step, and what it has in hand then.
Typed(r) ==
  /\ r = Idle \/ (r.op # "none" /\ r.pc # "idle")
  /\ r.pc \in {"hashing", "verifying", "storing", "updating", "revoking"} => r.user \in Users
  /\ r.pc \in {"loading", "rotating"} => r.op = "refresh"
  /\ r.pc = "hashing" => r.op = "register"
  /\ r.pc = "verifying" => r.op = "login"
  /\ r.pc = "revoking" => r.op = "BLOCKED"
  /\ r.pc = "updating" => r.op \in {"BLOCKED", "ACTIVE"}
  /\ r.pc = "storing" => r.op \in {"register", "login", "refresh"}
  /\ r.op = "refresh" => r.token \in Tokens /\ (~(r.pc \in {"ok", "refused"}) => r.user \in Users)
  /\ r.op \in {"register", "login"} /\ r.pc # "ok" => r.token = None

\* Types.
AuthTypeOK ==
  /\ status \in [Users -> {"none", "ACTIVE", "BLOCKED"}]
  /\ token  \in [Tokens -> Row]
  /\ access \subseteq Tokens
  /\ h      \in [Calls -> Handler]
  /\ late   \in [Users -> Nat]
  /\ told   \in [Users -> BOOLEAN]
  /\ \A t \in Tokens : token[t].state # "dead" => token[t].user \in Users
  /\ \A c \in Calls : Typed(h[c])

\* Requests that rotate a refresh token at the same time may each get a pair
\* for it, but no more pairs than requests were in flight together: the token
\* is read in one statement and revoked in another ("Rotation: revoke the used
\* token, issue a fresh pair").
RotationExcess ==
  \A t \in Tokens : token[t].uses <= Cardinality(Calls)

\* A blocked user gets at most the pairs that other requests had been cleared
\* for when he was blocked: no refresh and no login gets past its check later.
LateIssueBounded ==
  \A u \in Users : status[u] = "BLOCKED" => late[u] < Cardinality(Calls)

\* Once a block is through, the user has no refresh token that works but those
\* issued late: his sessions do not come back when he is unblocked.
BlockRevokes ==
  \A u \in Users :
    status[u] = "BLOCKED" /\ told[u] => Cardinality(Live(u)) <= late[u]
===============================================================================
