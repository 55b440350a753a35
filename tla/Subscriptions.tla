---------------------------- MODULE Subscriptions -----------------------------
(***************************************************************************)
(* SubscriptionsService (apps/api/src/subscriptions/                       *)
(* subscriptions.service.ts) and the sweep the scheduler runs.             *)
(*                                                                         *)
(* grantOrExtend is called by requests that run concurrently: it reads the *)
(* user's subscription, computes a new end, and writes it in a later step. *)
(* Time is counted in units of which Days is a tariff's duration.          *)
(***************************************************************************)
EXTENDS Naturals, FiniteSetsExt

CONSTANTS
  Users,
  Subs,        \* identities of subscription rows
  Callers,     \* requests that may be running grantOrExtend
  Null,
  Days,        \* tariff.durationDays
  Prompt,      \* no time passes while a grant is in progress
  MaxTime,     \* bound: the clock stops
  MaxGrants    \* bound: grants per user

ASSUME SubscriptionsAssumption ==
  /\ Days \in Nat \ {0}
  /\ Prompt \in BOOLEAN
  /\ MaxTime \in Nat
  /\ MaxGrants \in Nat
  /\ Null \notin Users \cup Subs
  /\ IsFiniteSet(Subs)

VARIABLES
  now,
  subs,        \* the subscriptions table
  grants,      \* grants[c]: where the grantOrExtend of c is
  granted      \* history: grants written, per user

subVars == <<now, subs, grants, granted>>

Rows == [status : {"NONE", "ACTIVE", "EXPIRED"}, user : Users \cup {Null},
         startsAt : Nat, endsAt : Nat]

NoRow == [status |-> "NONE", user |-> Null, startsAt |-> 0, endsAt |-> 0]

(* row is the subscription to extend, Null when a new one is to be created;*)
(* start and end are what is to be written.                                *)
GrantRecords ==
  [pc : {"idle", "reading", "writing"}, user : Users \cup {Null},
   row : Subs \cup {Null}, start : Nat, end : Nat]

NoGrant == [pc |-> "idle", user |-> Null, row |-> Null, start |-> 0, end |-> 0]

SubTypeOK ==
  /\ now \in 0 .. MaxTime
  /\ subs \in [Subs -> Rows]
  /\ grants \in [Callers -> GrantRecords]
  /\ granted \in [Users -> Nat]

SubInit ==
  /\ now = 0
  /\ subs = [s \in Subs |-> NoRow]
  /\ grants = [c \in Callers |-> NoGrant]
  /\ granted = [u \in Users |-> 0]

-----------------------------------------------------------------------------
(* The rows getActive looks for, and the one it returns.                   *)
Live(u) == {s \in Subs : /\ subs[s].status = "ACTIVE"
                         /\ subs[s].user = u
                         /\ subs[s].endsAt > now}

getActive(u) == {s \in Live(u) : \A t \in Live(u) : subs[t].endsAt <= subs[s].endsAt}

NoneInProgress == \A c \in Callers : grants[c].pc = "idle"

(* grantOrExtend is called; the tariff and the user are there.             *)
BeginGrant(c, u) ==
  /\ grants[c].pc = "idle"
  /\ grants' = [grants EXCEPT ![c] = [NoGrant EXCEPT !.pc = "reading", !.user = u]]

(* Mutant: a subscription that is new starts tomorrow.                     *)
GrantReadTomorrow(c) ==
  LET u == grants[c].user IN
  /\ grants[c].pc = "reading"
  /\ \/ /\ getActive(u) = {}
        /\ grants' = [grants EXCEPT ![c] = [@ EXCEPT !.pc = "writing",
                                               !.start = now + 1,
                                               !.end = now + 1 + Days]]
     \/ \E s \in getActive(u) :
          grants' = [grants EXCEPT ![c] = [@ EXCEPT !.pc = "writing", !.row = s,
                                              !.start = subs[s].startsAt,
                                              !.end = subs[s].endsAt + Days]]
  /\ UNCHANGED <<now, subs, granted>>

(* getActive, and the dates computed from what it returned.                *)
GrantRead(c) ==
  LET u == grants[c].user IN
  /\ grants[c].pc = "reading"
  /\ \/ /\ getActive(u) = {}
        /\ grants' = [grants EXCEPT ![c] = [@ EXCEPT !.pc = "writing", !.start = now,
                                                     !.end = now + Days]]
     \/ \E s \in getActive(u) :
          grants' = [grants EXCEPT ![c] = [@ EXCEPT !.pc = "writing", !.row = s,
                                              !.start = subs[s].startsAt,
                                              !.end = subs[s].endsAt + Days]]
  /\ UNCHANGED <<now, subs, granted>>

Unused == {s \in Subs : subs[s].status = "NONE"}

NewRow(g) == [status |-> "ACTIVE", user |-> g.user, startsAt |-> g.start,
              endsAt |-> g.end]

(* Mutant: the update of the live row is followed by the create.           *)
WriteBoth(g) ==
  \E s \in Unused :
    subs' = IF g.row = Null THEN [subs EXCEPT ![s] = NewRow(g)]
            ELSE [subs EXCEPT ![g.row].endsAt = g.end, ![s] = NewRow(g)]

(* The update of the row found, which leaves its status alone; or a create.*)
Write(g) ==
  \/ g.row # Null /\ subs' = [subs EXCEPT ![g.row].endsAt = g.end]
  \/ g.row = Null /\ \E s \in Unused : subs' = [subs EXCEPT ![s] = NewRow(g)]

GrantWrite(c) ==
  /\ grants[c].pc = "writing"
  /\ Write(grants[c])
  /\ granted' = [granted EXCEPT ![grants[c].user] = @ + 1]
  /\ grants' = [grants EXCEPT ![c] = NoGrant]
  /\ UNCHANGED now

(* Mutant: the sweep leaves out the subscriptions that end right now.      *)
DueBefore(s) == subs[s].status = "ACTIVE" /\ subs[s].endsAt < now

Due(s) == subs[s].status = "ACTIVE" /\ subs[s].endsAt <= now

(* updateMany: one statement.                                              *)
expireDue ==
  /\ \E s \in Subs : Due(s)
  /\ subs' = [s \in Subs |-> IF Due(s) THEN [subs[s] EXCEPT !.status = "EXPIRED"]
                             ELSE subs[s]]
  /\ UNCHANGED <<now, grants, granted>>

Tick ==
  /\ now < MaxTime
  /\ Prompt => NoneInProgress
  /\ now' = now + 1
  /\ UNCHANGED <<subs, grants, granted>>

-----------------------------------------------------------------------------
(* The service on its own: admins grant subscriptions (POST                *)
(* /admin/users/:id/subscription).                                         *)
InProgress(u) == {c \in Callers : grants[c].user = u}

grant(c, u) ==
  /\ granted[u] + Cardinality(InProgress(u)) < MaxGrants
  /\ BeginGrant(c, u)
  /\ UNCHANGED <<now, subs, granted>>

SubNext ==
  \/ \E c \in Callers : \/ \E u \in Users : grant(c, u)
                        \/ GrantRead(c) \/ GrantWrite(c)
  \/ expireDue \/ Tick

SubSpec == SubInit /\ [][SubNext]_subVars

-----------------------------------------------------------------------------
(* Nobody gets days for nothing: the subscriptions of a user never last    *)
(* longer together than the grants written for the user, in whatever order *)
(* concurrent grants read and write.                                       *)
RowsOf(u) == {s \in Subs : subs[s].user = u}

DaysOf(u) == MapThenSumSet(LAMBDA s : subs[s].endsAt - subs[s].startsAt, RowsOf(u))

NoFreeDays == \A u \in Users : DaysOf(u) <= Days * granted[u]

(* Nobody loses any: they last exactly as long.                            *)
NoDayLost == \A u \in Users : DaysOf(u) = Days * granted[u]

(* A user has one subscription at a time: what is paid does not run in     *)
(* parallel with what was there.                                           *)
OneLive == \A u \in Users : Cardinality(Live(u)) <= 1

(* A subscription that was swept is over, and grants do not bring it back  *)
(* to a half life in which its end is ahead and getActive does not see it. *)
ExpiredIsOver == \A s \in Subs : subs[s].status = "EXPIRED" => subs[s].endsAt <= now

(* The table implements the promise, with the end of the live subscription *)
(* as the end of the access.                                               *)
Until(u) == IF Live(u) = {} THEN 0 ELSE Max({subs[s].endsAt : s \in Live(u)})

Promise == INSTANCE Entitlement WITH until <- [u \in Users |-> Until(u)]

KeepsPromise == Promise!Spec

(* Every subscription that has ended is marked so, however late and however*)
(* often it was extended.                                                  *)
SweepCatchesUp ==
  \A s \in Subs : []<>~(subs[s].status = "ACTIVE" /\ subs[s].endsAt <= now)
===============================================================================
