------------------------------- MODULE WebSession -----------------------------
(***************************************************************************)
(* A browser's session (apps/web/lib/api.ts and auth.tsx) on top of Auth:  *)
(* the token store, calls that refresh once on a 401, sign-in and sign-out. *)
(* A call of the browser uses the handler of the same name for what it     *)
(* asks of AuthService.                                                    *)
(***************************************************************************)
EXTENDS Auth

VARIABLES store,   \* local storage: the pair it holds, or None
          w,       \* the calls of the browser
          lost     \* history: the stored pair, if an answer about it got lost

sessionVars == <<store, w, lost>>
vars == <<authVars, sessionVars>>

NoFetch == [pc |-> "idle", token |-> None]
Fetch   == [pc : {"idle", "sent", "refreshing", "signingIn", "leaving"},
            token : Tokens \cup {None}]

Init == AuthInit /\ store = None /\ w = [c \in Calls |-> NoFetch] /\ lost = None

Free(c)  == w[c] = NoFetch /\ h[c] = Idle
\* Bound: a call starts only if a pair is left for it.
Unheld(t) == Fresh(t) /\ t # store /\ \A c \in Calls : w[c].token # t
Room == Cardinality({t \in Tokens : Unheld(t)}) > Cardinality({c \in Calls : ~Free(c)})

setStore(t) == store' = t /\ lost' = IF t = store THEN lost ELSE None
Finish(c) == w' = [w EXCEPT ![c] = NoFetch]
TakeAnswer(c) == Answer(c) /\ UNCHANGED <<status, token, access, late, told>>

\* rawFetch attaches the access token that is stored when it is called.
Send(c) ==
  /\ Free(c) /\ store # None /\ Room
  /\ w' = [w EXCEPT ![c] = [pc |-> "sent", token |-> store]]
  /\ UNCHANGED <<authVars, store, lost>>

\* JwtAuthGuard lets an access token pass that has not run out, whoever has
\* been blocked.  The answer is of no concern to the session.
Accepted(c) ==
  /\ w[c].pc = "sent" /\ w[c].token \in access
  /\ Finish(c) /\ UNCHANGED <<authVars, store, lost>>

Unauthorized(c) ==
  /\ w[c].pc = "sent" /\ w[c].token \notin access
  /\ \/ store = None /\ Finish(c) /\ UNCHANGED authVars
     \/ /\ store # None /\ BeginRefresh(c, store)
        /\ w' = [w EXCEPT ![c] = [pc |-> "refreshing", token |-> store]]
  /\ UNCHANGED <<store, lost>>

\* Mutant: the request is sent again with the new pair, which is not stored.
RefreshedUnstored(c) ==
  /\ w[c].pc = "refreshing" /\ h[c].pc = "ok"
  /\ TakeAnswer(c) /\ Finish(c)
  /\ UNCHANGED <<store, lost>>

\* The request is sent once more, and whatever that brings is its answer.
Refreshed(c) ==
  /\ w[c].pc = "refreshing" /\ h[c].pc = "ok"
  /\ TakeAnswer(c) /\ Finish(c)
  /\ setStore(h[c].token)

\* Whatever is stored by now is cleared, be it another pair.
RefreshRefused(c) ==
  /\ w[c].pc = "refreshing" /\ h[c].pc = "refused"
  /\ TakeAnswer(c) /\ Finish(c)
  /\ setStore(None)

SignIn(c, u) ==
  /\ Free(c) /\ Room
  /\ BeginLogin(c, u) \/ BeginRegister(c, u)
  /\ w' = [w EXCEPT ![c].pc = "signingIn"]
  /\ UNCHANGED <<store, lost>>

SignedIn(c) ==
  /\ w[c].pc = "signingIn" /\ TakeAnswer(c) /\ Finish(c)
  /\ setStore(IF h[c].pc = "ok" THEN h[c].token ELSE store)

\* The store is cleared while the request is on its way, and nobody waits for
\* the panel's answer.
SignOut(c) ==
  /\ Free(c) /\ store # None /\ setStore(None)
  /\ w' = [w EXCEPT ![c] = [pc |-> "leaving", token |-> store]]
  /\ UNCHANGED authVars

LogoutArrives(c) ==
  /\ w[c].pc = "leaving" /\ Logout(c, w[c].token)
  /\ UNCHANGED sessionVars

\* Or it does not arrive, and the error is ignored.
LogoutLost(c) ==
  /\ "answerLost" \in Faults /\ w[c].pc = "leaving" /\ h[c] = Idle
  /\ Finish(c) /\ UNCHANGED <<authVars, store, lost>>

Left(c) ==
  /\ w[c].pc = "leaving" /\ TakeAnswer(c) /\ Finish(c)
  /\ UNCHANGED <<store, lost>>

\* The network drops the answer: fetch throws and the store stays as it is.
AnswerLost(c) ==
  /\ "answerLost" \in Faults /\ w[c].pc \in {"refreshing", "signingIn"}
  /\ TakeAnswer(c) /\ Finish(c)
  /\ lost' = IF w[c].token = store THEN store ELSE lost
  /\ UNCHANGED store

\* An admin's request.
SetStatus(c, u) ==
  /\ Free(c)
  /\ \E s \in {"BLOCKED", "ACTIVE"} : s # status[u] /\ BeginSetStatus(c, u, s)
  /\ UNCHANGED sessionVars
AdminAnswered(c) ==
  /\ h[c].op \in {"BLOCKED", "ACTIVE"} /\ TakeAnswer(c)
  /\ UNCHANGED sessionVars

Serve(c) == /\ HandlerSteps(c) \/ \E t \in Tokens : Unheld(t) /\ IssueTokens(c, t)
            /\ UNCHANGED sessionVars
React(c) == \/ Accepted(c) \/ Unauthorized(c) \/ Refreshed(c) \/ RefreshRefused(c)
            \/ SignedIn(c) \/ Left(c) \/ AdminAnswered(c)

Next ==
  \/ \E c \in Calls :
       \/ \E u \in Users : SignIn(c, u) \/ SetStatus(c, u)
       \/ Send(c) \/ SignOut(c) \/ LogoutArrives(c) \/ LogoutLost(c)
       \/ Serve(c) \/ React(c) \/ AnswerLost(c)
       \/ HandlerFails(c) /\ UNCHANGED sessionVars
  \/ \E t \in Tokens : (ExpireAccess(t) \/ ExpireRefresh(t)) /\ UNCHANGED sessionVars

Spec == Init /\ [][Next]_vars

-------------------------------------------------------------------------------
\* Types, including those of Auth.
TypeOK == /\ AuthTypeOK
          /\ {store, lost} \subseteq Tokens \cup {None} /\ w \in [Calls -> Fetch]

\* The browser is not left with a refresh token that it has used up or signed
\* out: unless an answer was lost, the request that used it is under way and
\* will replace or clear it, however many requests refresh at the same time.
StoredTokenServes ==
  store # None =>
    /\ token[store].state # "loggedOut"
    /\ token[store].state = "rotated" /\ lost # store =>
         \E c \in Calls : w[c].pc = "refreshing" /\ w[c].token = store

\* Not so: a user who signs out stays signed out until he signs in.  The pair
\* of a refresh under way is stored afterwards.
SignedOutStaysOut ==
  [][store = None /\ store' # None => \E c \in Calls : w[c].pc = "signingIn"]_vars

\* Not so: the pair in use is not cleared by the refusal of an older one.
WinnerKeepsPair ==
  [][\A c \in Calls : RefreshRefused(c) => w[c].token = store]_vars
===============================================================================
