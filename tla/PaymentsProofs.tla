---------------------------- MODULE PaymentsProofs ----------------------------
(***************************************************************************)
(* Subscriptions and payments, for every number of users, rows, grants,    *)
(* payments and handlers, and whatever is repeated, crashes or fails.      *)
(*                                                                         *)
(* First what Subscriptions promises.  When one grant runs at a time and   *)
(* takes no time, it implements Entitlement; with two at a time it does    *)
(* not, but even then the rows of a user last no longer than the grants    *)
(* written for him.  Then that nothing is granted that was not paid, how   *)
(* often it is granted, and that it gives access to nobody else.           *)
(***************************************************************************)
EXTENDS Payments, FiniteSetTheorems, TLAPS

Serial == Prompt /\ \A c, d \in Callers : c = d

(* What a grant has read is still so when it writes.                       *)
ReadHolds(g) ==
  /\ g.pc # "idle" => g.user \in Users
  /\ g.pc = "reading" => g.row = Null
  /\ g.pc = "writing" /\ g.row = Null =>
       Live(g.user) = {} /\ g.start = now /\ g.end = now + Days
  /\ g.pc = "writing" /\ g.row # Null =>
       g.row \in Live(g.user) /\ g.end = subs[g.row].endsAt + Days

OnlyLive == \A u \in Users : \A s, t \in Live(u) : s = t

SerialInv == /\ SubTypeOK
             /\ OnlyLive
             /\ ExpiredIsOver
             /\ \A c \in Callers : ReadHolds(grants[c])

-------------------------------------------------------------------------------
LEMMA GrantFields ==
  ASSUME SubTypeOK, NEW c \in Callers
  PROVE  /\ grants[c] \in GrantRecords
         /\ \A s \in Subs : subs[s].endsAt \in Nat /\ subs[s].startsAt \in Nat
         /\ now \in Nat /\ MaxTime \in Nat /\ Days \in Nat /\ Days > 0
BY SubscriptionsAssumption DEF SubTypeOK, Rows

LEMMA InitSerial == SubInit => SerialInv
<1> SUFFICES ASSUME SubInit PROVE SerialInv
  OBVIOUS
<1>1. SubTypeOK
  BY SubscriptionsAssumption
     DEF SubInit, SubTypeOK, Rows, NoRow, GrantRecords, NoGrant
<1>2. OnlyLive /\ ExpiredIsOver
  BY DEF SubInit, OnlyLive, Live, ExpiredIsOver, NoRow
<1>3. \A c \in Callers : ReadHolds(grants[c])
  BY DEF SubInit, ReadHolds, NoGrant
<1> QED  BY <1>1, <1>2, <1>3 DEF SerialInv

(* A step that gives one grant a new record and changes nothing else.      *)
LEMMA GrantMoves ==
  ASSUME SerialInv, NEW c \in Callers, NEW g \in GrantRecords, ReadHolds(g),
         grants' = [grants EXCEPT ![c] = g], UNCHANGED <<now, subs, granted>>
  PROVE  SerialInv'
<1>1. SubTypeOK'
  BY DEF SerialInv, SubTypeOK
<1>2. \A d \in Callers : ReadHolds(grants[d])'
  BY DEF SerialInv, SubTypeOK, ReadHolds, Live
<1> QED  BY <1>1, <1>2 DEF SerialInv, OnlyLive, ExpiredIsOver, Live

(* A grant begins.                                                         *)
LEMMA GrantBegins ==
  ASSUME SerialInv, NEW c \in Callers, NEW u \in Users, grant(c, u)
  PROVE  SerialInv'
<1>1. PICK g : g = [NoGrant EXCEPT !.pc = "reading", !.user = u]
  OBVIOUS
<1>2. g \in GrantRecords /\ g.pc = "reading" /\ g.user = u /\ g.row = Null
  BY <1>1 DEF NoGrant, GrantRecords
<1>3. ReadHolds(g)
  BY <1>2 DEF ReadHolds
<1> QED  BY <1>1, <1>2, <1>3, GrantMoves DEF grant, BeginGrant

(* It reads the one subscription that is live, or that there is none.      *)
LEMMA GrantReads ==
  ASSUME SerialInv, NEW c \in Callers, GrantRead(c)
  PROVE  SerialInv'
<1> DEFINE u == grants[c].user
<1>1. /\ grants[c] \in GrantRecords /\ u \in Users
      /\ \A s \in Subs : subs[s].endsAt \in Nat /\ subs[s].startsAt \in Nat
      /\ now \in Nat /\ Days \in Nat
      /\ UNCHANGED <<now, subs, granted>>
  BY GrantFields DEF SerialInv, ReadHolds, GrantRead
<1>2. getActive(u) \subseteq Live(u) /\ Live(u) \subseteq Subs
  BY DEF getActive, Live
<1>4. CASE getActive(u) = {} /\
           grants' = [grants EXCEPT ![c] = [@ EXCEPT !.pc = "writing", !.start = now,
                                                     !.end = now + Days]]
  <2>1. Live(u) = {}
    <3> SUFFICES ASSUME NEW s \in Live(u) PROVE s \in getActive(u)
      BY <1>4
    <3>1. \A t \in Live(u) : t = s
      BY <1>1 DEF SerialInv, OnlyLive
    <3> QED  BY <1>1, <1>2, <3>1 DEF getActive
  <2>2. PICK g : g = [grants[c] EXCEPT !.pc = "writing", !.start = now, !.end = now + Days]
    OBVIOUS
  <2>3. g = [pc |-> "writing", user |-> u, row |-> grants[c].row, start |-> now, end |-> now + Days]
    BY <1>1, <2>2 DEF GrantRecords
  <2>6. g \in GrantRecords
    BY <1>1, <2>3 DEF GrantRecords
  <2>4. grants[c].row = Null
    BY DEF GrantRead, SerialInv, ReadHolds
  <2>5. ReadHolds(g)
    BY <1>1, <2>1, <2>3, <2>4 DEF ReadHolds
  <2> QED  BY <1>1, <1>4, <2>2, <2>5, <2>6, GrantMoves
<1>5. ASSUME NEW s \in getActive(u),
             grants' = [grants EXCEPT ![c] = [@ EXCEPT !.pc = "writing", !.row = s,
                                                !.start = subs[s].startsAt,
                                                !.end = subs[s].endsAt + Days]]
      PROVE  SerialInv'
  <2>1. PICK g : g = [grants[c] EXCEPT !.pc = "writing", !.row = s,
                                       !.start = subs[s].startsAt,
                                       !.end = subs[s].endsAt + Days]
    OBVIOUS
  <2>2. s \in Live(u) /\ s \in Subs /\ s # Null
    BY <1>2, SubscriptionsAssumption
  <2>3. g = [pc |-> "writing", user |-> u, row |-> s, start |-> subs[s].startsAt,
             end |-> subs[s].endsAt + Days]
    BY <1>1, <2>1 DEF GrantRecords
  <2>5. g \in GrantRecords
    BY <1>1, <2>2, <2>3 DEF GrantRecords
  <2>4. ReadHolds(g)
    BY <1>1, <2>2, <2>3 DEF ReadHolds
  <2> QED  BY <1>1, <1>5, <2>1, <2>4, <2>5, GrantMoves
<1> QED  BY <1>4, <1>5 DEF GrantRead

(* The sweep changes no subscription that is live.                         *)
LEMMA SweepKeepsLive ==
  ASSUME SerialInv, expireDue
  PROVE  /\ \A s \in Subs : subs'[s].endsAt = subs[s].endsAt
         /\ \A u : Live(u)' = Live(u)
<1>1. /\ \A s \in Subs : subs[s] \in Rows
      /\ subs' = [s \in Subs |-> IF Due(s) THEN [subs[s] EXCEPT !.status = "EXPIRED"]
                                 ELSE subs[s]]
      /\ now' = now /\ now \in Nat
  BY DEF SerialInv, SubTypeOK, expireDue
<1>2. ASSUME NEW s \in Subs
      PROVE  /\ subs'[s].endsAt = subs[s].endsAt /\ subs'[s].user = subs[s].user
             /\ subs'[s].status = IF Due(s) THEN "EXPIRED" ELSE subs[s].status
  <2>1. subs'[s] = IF Due(s) THEN [subs[s] EXCEPT !.status = "EXPIRED"] ELSE subs[s]
    BY <1>1
  <2> QED  BY <1>1, <2>1 DEF Rows
<1>3. ASSUME NEW s \in Subs, Due(s) PROVE ~(subs[s].endsAt > now)
  BY <1>1, <1>3 DEF Due, Rows
<1> QED  BY <1>1, <1>2, <1>3 DEF Live

LEMMA SweepKeeps == ASSUME SerialInv, expireDue PROVE SerialInv'
<1>1. /\ UNCHANGED <<now, grants, granted>>
      /\ subs' = [s \in Subs |-> IF Due(s) THEN [subs[s] EXCEPT !.status = "EXPIRED"]
                                 ELSE subs[s]]
  BY DEF expireDue
<1>2. \A s \in Subs : IF Due(s) THEN [subs[s] EXCEPT !.status = "EXPIRED"] \in Rows
                      ELSE subs[s] \in Rows
  BY DEF SerialInv, SubTypeOK, Rows
<1>3. SubTypeOK'
  BY <1>1, <1>2 DEF SerialInv, SubTypeOK
<1>4. ExpiredIsOver'
  <2> SUFFICES ASSUME NEW s \in Subs, subs'[s].status = "EXPIRED"
               PROVE  subs[s].endsAt <= now
    BY <1>1, SweepKeepsLive DEF ExpiredIsOver
  <2>1. CASE Due(s)
    BY <2>1 DEF Due
  <2>2. CASE ~Due(s)
    BY <1>1, <2>2 DEF SerialInv, ExpiredIsOver
  <2> QED  BY <2>1, <2>2
<1>5. ASSUME NEW c \in Callers PROVE ReadHolds(grants[c])'
  <2>1. ReadHolds(grants[c]) /\ \A u : Live(u) \subseteq Subs
    BY DEF SerialInv, Live
  <2> QED  BY <1>1, <2>1, SweepKeepsLive DEF ReadHolds
<1>6. OnlyLive'
  BY SweepKeepsLive DEF SerialInv, OnlyLive
<1> QED  BY <1>3, <1>4, <1>5, <1>6 DEF SerialInv

(* Time passes while no grant is in progress.                              *)
LEMMA TickKeeps == ASSUME Serial, SerialInv, Tick PROVE SerialInv'
<1>1. now \in Nat /\ now' = now + 1 /\ now' \in 0 .. MaxTime /\ UNCHANGED <<subs, grants, granted>>
  BY SubscriptionsAssumption DEF SerialInv, SubTypeOK, Tick
<1>2. \A c \in Callers : grants[c].pc = "idle"
  BY DEF Serial, Tick, NoneInProgress
<1>3. \A s \in Subs : subs[s].endsAt \in Nat
  BY DEF SerialInv, SubTypeOK, Rows
<1>4. SubTypeOK'
  BY <1>1 DEF SerialInv, SubTypeOK
<1>5. OnlyLive' /\ ExpiredIsOver'
  <2>1. \A u : Live(u)' \subseteq Live(u)
    BY <1>1, <1>3 DEF Live
  <2> QED  BY <1>1, <1>3, <2>1 DEF SerialInv, OnlyLive, ExpiredIsOver
<1>6. \A c \in Callers : ReadHolds(grants[c])'
  BY <1>1, <1>2 DEF ReadHolds
<1> QED  BY <1>4, <1>5, <1>6 DEF SerialInv

(* A write extends the live subscription of its user, or creates the first.*)
LEMMA WriteExtends ==
  ASSUME Serial, SerialInv, NEW c \in Callers, GrantWrite(c),
         NEW u \in Users, grants[c].user = u
  PROVE  /\ \E s \in Subs : /\ Live(u) = {s} \/ Live(u) = {}
                            /\ Live(u)' = {s}
                            /\ subs'[s].endsAt = (IF Live(u) = {} THEN now ELSE subs[s].endsAt) + Days
                            /\ subs'[s] \in Rows /\ subs'[s].status = "ACTIVE"
                            /\ subs' = [subs EXCEPT ![s] = subs'[s]]
         /\ \A v \in Users \ {u} : /\ Live(v)' = Live(v)
                                   /\ \A t \in Live(v) : subs'[t] = subs[t]
<1>1. /\ grants[c] \in GrantRecords
      /\ subs \in [Subs -> Rows]
      /\ now \in Nat /\ Days \in Nat /\ Days > 0 /\ now' = now
      /\ Null \notin Users
  BY GrantFields, SubscriptionsAssumption DEF SerialInv, SubTypeOK, ReadHolds, GrantWrite
<1>2. /\ \A s \in Subs : subs[s].endsAt \in Nat
      /\ Live(u) \subseteq Subs
  BY <1>1 DEF Rows, Live
<1>3. CASE grants[c].row # Null /\ subs' = [subs EXCEPT ![grants[c].row].endsAt = grants[c].end]
  <2>1. PICK s \in Subs : s = grants[c].row
    BY <1>1, <1>3 DEF GrantRecords
  <2>2. /\ s \in Live(u) /\ grants[c].end = subs[s].endsAt + Days
        /\ subs[s].status = "ACTIVE" /\ subs[s].user = u /\ subs[s].endsAt > now
    BY <1>3, <2>1 DEF SerialInv, ReadHolds, GrantWrite, Live
  <2>3. Live(u) = {s}
    BY <1>1, <2>2 DEF SerialInv, OnlyLive
  <2>4. /\ subs'[s] = [subs[s] EXCEPT !.endsAt = grants[c].end]
        /\ \A t \in Subs \ {s} : subs'[t] = subs[t]
    BY <1>1, <1>3, <2>1
  <2>5. /\ subs'[s].endsAt = subs[s].endsAt + Days /\ subs'[s].status = "ACTIVE"
        /\ subs'[s].user = u /\ subs'[s] \in Rows
        /\ subs'[s].endsAt > now
    BY <1>1, <1>2, <2>2, <2>4 DEF Rows
  <2>6. \A v : Live(v)' = Live(v)
    BY <1>1, <2>2, <2>4, <2>5, ZenonT(30) DEF Live
  <2>7. subs' = [subs EXCEPT ![s] = subs'[s]]
    BY <1>1, <1>3, <2>1, <2>4
  <2>8. \A v \in Users \ {u} : \A t \in Live(v) : subs'[t] = subs[t]
    BY <2>2, <2>4 DEF Live
  <2>9. /\ Live(u) = {s} \/ Live(u) = {}
        /\ Live(u)' = {s}
        /\ subs'[s].endsAt = (IF Live(u) = {} THEN now ELSE subs[s].endsAt) + Days
        /\ subs'[s] \in Rows /\ subs'[s].status = "ACTIVE"
        /\ subs' = [subs EXCEPT ![s] = subs'[s]]
    BY <2>3, <2>5, <2>6, <2>7
  <2> QED  BY <1>1, <2>6, <2>8, <2>9
<1>4. ASSUME grants[c].row = Null, NEW s \in Unused, subs' = [subs EXCEPT ![s] = NewRow(grants[c])]
      PROVE  /\ Live(u) = {}
             /\ s \in Subs
             /\ Live(u)' = {s}
             /\ subs'[s].endsAt = now + Days
             /\ subs'[s] \in Rows /\ subs'[s].status = "ACTIVE"
             /\ subs' = [subs EXCEPT ![s] = subs'[s]]
             /\ \A v \in Users \ {u} : /\ Live(v)' = Live(v)
                                       /\ \A t \in Live(v) : subs'[t] = subs[t]
  <2>1. Live(u) = {} /\ grants[c].end = now + Days
    BY <1>4 DEF SerialInv, ReadHolds, GrantWrite
  <2>2. s \in Subs /\ subs[s].status = "NONE"
    BY <1>4 DEF Unused
  <2>3. subs'[s] = NewRow(grants[c]) /\ \A t \in Subs \ {s} : subs'[t] = subs[t]
    BY <1>1, <1>4, <2>2
  <2>4. /\ subs'[s] \in Rows /\ subs'[s].status = "ACTIVE" /\ subs'[s].user = u
        /\ subs'[s].endsAt = now + Days /\ subs'[s].endsAt > now
    BY <1>1, <2>1, <2>3 DEF NewRow, Rows, GrantRecords
  <2>5. Live(u)' = {s}
    <3>1. s \in Live(u)'
      BY <1>1, <2>2, <2>4 DEF Live
    <3>2. ASSUME NEW t \in Subs \ {s} PROVE t \notin Live(u)'
      <4>1. t \notin Live(u)
        BY <2>1
      <4> QED  BY <1>1, <2>3, <4>1 DEF Live
    <3> QED  BY <3>1, <3>2 DEF Live
  <2>6. ASSUME NEW v \in Users \ {u}
        PROVE  Live(v)' = Live(v) /\ \A t \in Live(v) : subs'[t] = subs[t]
    BY <1>1, <2>2, <2>3, <2>4 DEF Live
  <2>7. subs' = [subs EXCEPT ![s] = subs'[s]]
    BY <1>1, <1>4, <2>3
  <2> QED  BY <2>1, <2>2, <2>4, <2>5, <2>6, <2>7
<1> QED  BY <1>1, <1>3, <1>4 DEF GrantWrite, Write

LEMMA WriteKeeps ==
  ASSUME Serial, SerialInv, NEW c \in Callers, GrantWrite(c) PROVE SerialInv'
<1>1. PICK u \in Users : u = grants[c].user
  BY DEF SerialInv, ReadHolds, GrantWrite
<1>2. PICK s \in Subs : /\ Live(u)' = {s} /\ subs'[s] \in Rows /\ subs'[s].status = "ACTIVE"
                        /\ subs' = [subs EXCEPT ![s] = subs'[s]]
  BY <1>1, WriteExtends
<1>3. \A v \in Users \ {u} : Live(v)' = Live(v)
  BY <1>1, WriteExtends
<1>4. /\ now' = now /\ grants' = [grants EXCEPT ![c] = NoGrant]
      /\ granted' = [granted EXCEPT ![u] = @ + 1]
  BY <1>1 DEF GrantWrite
<1>5. SubTypeOK'
  <2>1. NoGrant \in GrantRecords
    BY DEF NoGrant, GrantRecords
  <2>2. granted[u] + 1 \in Nat
    BY <1>1 DEF SerialInv, SubTypeOK
  <2>3. subs' \in [Subs -> Rows]
    BY <1>2 DEF SerialInv, SubTypeOK
  <2> QED  BY <1>4, <2>1, <2>2, <2>3 DEF SerialInv, SubTypeOK
<1>6. OnlyLive'
  BY <1>2, <1>3 DEF SerialInv, OnlyLive
<1>7. ExpiredIsOver'
  BY <1>2, <1>4 DEF SerialInv, SubTypeOK, ExpiredIsOver
<1>8. \A d \in Callers : ReadHolds(grants[d])'
  <2>1. \A d \in Callers : grants'[d] = NoGrant
    BY <1>4 DEF Serial, SerialInv, SubTypeOK
  <2> QED  BY <2>1 DEF ReadHolds, NoGrant
<1> QED  BY <1>5, <1>6, <1>7, <1>8 DEF SerialInv

LEMMA SerialStep == ASSUME Serial PROVE SerialInv /\ [SubNext]_subVars => SerialInv'
<1> SUFFICES ASSUME SerialInv, [SubNext]_subVars PROVE SerialInv'
  OBVIOUS
<1>1. CASE UNCHANGED subVars
  BY <1>1 DEF subVars, SerialInv, SubTypeOK, OnlyLive, ExpiredIsOver, Live, ReadHolds
<1> QED
  BY <1>1, GrantBegins, GrantReads, WriteKeeps, SweepKeeps, TickKeeps DEF SubNext

THEOREM SerialIsSafe == ASSUME Serial PROVE SubSpec => []SerialInv
<1>1. SubInit => SerialInv
  BY InitSerial
<1>2. SerialInv /\ [SubNext]_subVars => SerialInv'
  BY SerialStep
<1> QED  BY <1>1, <1>2, PTL DEF SubSpec

-------------------------------------------------------------------------------
(* The end of the access: of the one subscription that is live, if any.    *)
LEMMA MaxOfOne ==
  ASSUME NEW f, NEW s, f[s].endsAt \in Nat
  PROVE  Max({f[t].endsAt : t \in {s}}) = f[s].endsAt
<1>1. {f[t].endsAt : t \in {s}} = {f[s].endsAt}
  OBVIOUS
<1> QED  BY <1>1 DEF Max

LEMMA UntilOfNone == ASSUME NEW u, Live(u) = {} PROVE Until(u) = 0
BY DEF Until

LEMMA UntilOfOne ==
  ASSUME SerialInv, NEW u, NEW s \in Subs, Live(u) = {s}
  PROVE  Until(u) = subs[s].endsAt /\ Until(u) > now
<1>1. s \in Live(u) /\ subs[s].endsAt \in Nat
  BY GrantFields DEF SerialInv, SubTypeOK, Rows
<1> QED  BY <1>1, MaxOfOne DEF Until, Live

(* A grant that begins or reads, and the sweep, change nobody's access.    *)
LEMMA ReadingStutters ==
  ASSUME UNCHANGED <<now, subs>>
  PROVE  [u \in Users |-> Until(u)]' = [u \in Users |-> Until(u)]
BY DEF Until, Live

LEMMA SweepStutters ==
  ASSUME SerialInv, expireDue
  PROVE  [u \in Users |-> Until(u)]' = [u \in Users |-> Until(u)] /\ now' = now
<1>1. \A u : Live(u)' = Live(u) /\ Live(u) \subseteq Subs
  BY SweepKeepsLive DEF Live
<1>2. \A s \in Subs : subs'[s].endsAt = subs[s].endsAt
  BY SweepKeepsLive
<1>3. ASSUME NEW u \in Users PROVE Until(u)' = Until(u)
  <2>1. {subs'[s].endsAt : s \in Live(u)'} = {subs[s].endsAt : s \in Live(u)}
    BY <1>1, <1>2
  <2> QED  BY <1>1, <2>1 DEF Until
<1> QED  BY <1>3 DEF expireDue

(* A write is a grant of the promise.                                      *)
LEMMA WriteGrants ==
  ASSUME Serial, SerialInv, NEW c \in Callers, GrantWrite(c)
  PROVE  \E u \in Users : Promise!Grant(u)
<1>1. PICK u \in Users : u = grants[c].user
  BY DEF SerialInv, ReadHolds, GrantWrite
<1>2. PICK s \in Subs :
        /\ Live(u) = {s} \/ Live(u) = {}
        /\ Live(u)' = {s}
        /\ subs'[s].endsAt = (IF Live(u) = {} THEN now ELSE subs[s].endsAt) + Days
        /\ subs'[s] \in Rows
  BY <1>1, WriteExtends, ZenonT(30)
<1>3. \A v \in Users \ {u} : /\ Live(v)' = Live(v)
                             /\ \A t \in Live(v) : subs'[t] = subs[t]
  BY <1>1, WriteExtends
<1>4. ASSUME NEW v \in Users \ {u} PROVE Until(v)' = Until(v)
  <2>1. {subs'[t].endsAt : t \in Live(v)'} = {subs[t].endsAt : t \in Live(v)}
    BY <1>3
  <2> QED  BY <1>3, <2>1 DEF Until
<1>5. Until(u)' = subs'[s].endsAt
  <2>1. subs'[s].endsAt \in Nat
    BY <1>2 DEF Rows
  <2>2. Max({subs'[t].endsAt : t \in {s}}) = subs'[s].endsAt
    BY <2>1, MaxOfOne
  <2> QED  BY <1>2, <2>2 DEF Until
<1>6. Until(u)' = (IF Until(u) = 0 THEN now ELSE Until(u)) + Days
  <2>1. CASE Live(u) = {}
    BY <1>2, <1>5, <2>1, UntilOfNone
  <2>2. CASE Live(u) = {s}
    <3>1. Until(u) = subs[s].endsAt /\ Until(u) > now /\ now \in Nat /\ Until(u) \in Nat
      BY <2>2, UntilOfOne, GrantFields DEF SerialInv, SubTypeOK, Rows
    <3> QED  BY <1>2, <1>5, <2>2, <3>1
  <2> QED  BY <1>2, <2>1, <2>2
<1>7. [v \in Users |-> Until(v)]'
        = [[v \in Users |-> Until(v)] EXCEPT ![u] = (IF @ = 0 THEN now ELSE @) + Days]
  BY <1>4, <1>6
<1>8. UNCHANGED now
  BY DEF GrantWrite
<1> QED  BY <1>7, <1>8 DEF Promise!Grant

(* Time passes: who has a subscription that ends now loses the access, and *)
(* nobody else.                                                            *)
LEMMA TickTicks ==
  ASSUME SerialInv, Tick PROVE Promise!Tick
<1>1. now \in Nat /\ now' = now + 1 /\ subs' = subs
  BY DEF SerialInv, SubTypeOK, Tick
<1>2. ASSUME NEW u \in Users
      PROVE  Until(u)' = IF Until(u) <= now' THEN 0 ELSE Until(u)
  <2>1. /\ Live(u) \subseteq Subs
        /\ \A s, t \in Live(u) : s = t
        /\ \A s \in Subs : subs[s].endsAt \in Nat
    BY DEF SerialInv, OnlyLive, SubTypeOK, Rows, Live
  <2>2. Live(u)' = {s \in Live(u) : subs[s].endsAt > now + 1}
    BY <1>1, <2>1 DEF Live
  <2>3. CASE Live(u) = {}
    <3>1. Live(u)' = {}
      BY <2>2, <2>3
    <3>2. Until(u)' = 0 /\ Until(u) = 0
      BY <2>3, <3>1 DEF Until
    <3> QED  BY <3>2
  <2>4. ASSUME NEW s \in Subs, Live(u) = {s}
        PROVE  Until(u)' = IF Until(u) <= now' THEN 0 ELSE Until(u)
    <3>1. Until(u) = subs[s].endsAt /\ Until(u) \in Nat
      BY <2>1, <2>4, UntilOfOne
    <3>2. CASE subs[s].endsAt > now + 1
      <4>1. Live(u)' = {s}
        BY <2>2, <2>4, <3>2
      <4>2. Max({subs[t].endsAt : t \in {s}}) = subs[s].endsAt
        BY <2>1, MaxOfOne
      <4>3. Until(u)' = subs[s].endsAt
        BY <1>1, <4>1, <4>2 DEF Until
      <4> QED  BY <1>1, <3>1, <3>2, <4>3
    <3>3. CASE ~(subs[s].endsAt > now + 1)
      <4>1. Live(u)' = {}
        BY <2>2, <2>4, <3>3
      <4>2. Until(u)' = 0
        BY <4>1 DEF Until
      <4> QED  BY <1>1, <3>1, <3>3, <4>2
    <3> QED  BY <3>2, <3>3
  <2>5. Live(u) # {} => \E s \in Subs : Live(u) = {s}
    BY <2>1
  <2> QED  BY <2>3, <2>4, <2>5
<1>3. [u \in Users |-> Until(u)]'
        = [u \in Users |-> IF [v \in Users |-> Until(v)][u] <= now' THEN 0
                           ELSE [v \in Users |-> Until(v)][u]]
  BY <1>2
<1> QED  BY <1>1, <1>3 DEF Promise!Tick

(* The subscriptions table implements the promise (KeepsPromise) as long as*)
(* grants run one at a time and no time passes in the middle of one: each  *)
(* grant adds its days to what the user has, the sweep takes nothing away, *)
(* and access ends when its time has come and at no other moment.          *)
THEOREM SerialGrantsKeepPromise == ASSUME Serial PROVE SubSpec => KeepsPromise
<1>1. SubInit => Promise!Init
  <2> SUFFICES ASSUME SubInit PROVE Promise!Init
    OBVIOUS
  <2>1. \A u : Live(u) = {}
    BY DEF SubInit, Live, NoRow
  <2>2. \A u : Until(u) = 0
    BY <2>1 DEF Until
  <2> QED  BY <2>2 DEF SubInit, Promise!Init
<1>2. SerialInv /\ [SubNext]_subVars
        => [Promise!Next]_<<now, [u \in Users |-> Until(u)]>>
  <2> SUFFICES ASSUME SerialInv, [SubNext]_subVars
               PROVE  [Promise!Next]_<<now, [u \in Users |-> Until(u)]>>
    OBVIOUS
  <2>1. ASSUME NEW c \in Callers, NEW u \in Users, grant(c, u)
        PROVE  UNCHANGED <<now, subs>>
    BY <2>1 DEF grant
  <2>2. ASSUME NEW c \in Callers, GrantRead(c) PROVE UNCHANGED <<now, subs>>
    BY <2>2 DEF GrantRead
  <2>3. CASE UNCHANGED subVars
    BY <2>3, ReadingStutters DEF subVars
  <2>4. CASE Tick
    BY <2>4, TickTicks DEF Promise!Next
  <2>5. CASE expireDue
    BY <2>5, SweepStutters
  <2>6. ASSUME NEW c \in Callers, GrantWrite(c) PROVE Promise!Next
    BY <2>6, WriteGrants DEF Promise!Next
  <2> QED  BY <2>1, <2>2, <2>3, <2>4, <2>5, <2>6, ReadingStutters DEF SubNext
<1> QED  BY <1>1, <1>2, SerialIsSafe, PTL DEF SubSpec, KeepsPromise, Promise!Spec

(* The three things that fail with two grants at a time hold with one: a   *)
(* user has one live subscription, and one that was swept is over.         *)
THEOREM SerialGrantsOneLive == ASSUME Serial PROVE SubSpec => [](OneLive /\ ExpiredIsOver)
<1>1. SerialInv => OneLive
  <2> SUFFICES ASSUME SerialInv, NEW u \in Users PROVE Cardinality(Live(u)) <= 1
    BY DEF OneLive
  <2>1. Live(u) = {} \/ \E s \in Subs : Live(u) = {s}
    BY DEF SerialInv, OnlyLive, Live
  <2>2. \A s : Cardinality({s}) = 1
    BY FS_Singleton
  <2>3. Cardinality({}) = 0
    BY FS_EmptySet
  <2> QED  BY <2>1, <2>2, <2>3
<1>2. SerialInv => ExpiredIsOver
  BY DEF SerialInv
<1> QED  BY <1>1, <1>2, SerialIsSafe, PTL

-----------------------------------------------------------------------------
(* Sums.  What MapThenSumSet folds is the number of elements of a set, and  *)
(* so does not depend on the order in which it takes them.                 *)
Boxes(f, S) == UNION {{s} \X (1 .. f[s]) : s \in S}
Volume(f, S) == Cardinality(Boxes(f, S))

LEMMA BoxesFinite ==
  ASSUME NEW S, IsFiniteSet(S), NEW f, \A s \in S : f[s] \in Nat
  PROVE  IsFiniteSet(Boxes(f, S)) /\ Volume(f, S) \in Nat
<1> DEFINE B == {{s} \X (1 .. f[s]) : s \in S}
<1>1. [s \in S |-> {s} \X (1 .. f[s])] \in Surjection(S, B)
  BY DEF Surjection
<1>2. IsFiniteSet(B)
  <2> HIDE DEF B
  <2> QED BY <1>1, FS_Surjection
<1>3. \A s \in S : IsFiniteSet({s} \X (1 .. f[s]))
  <2> TAKE s \in S
  <2>1. 1 \in Int /\ f[s] \in Int
    OBVIOUS
  <2>2. IsFiniteSet({s})
    BY FS_Singleton
  <2>3. IsFiniteSet(1 .. f[s])
    BY <2>1, FS_Interval
  <2> QED BY <2>2, <2>3, FS_Product
<1>4. \A b \in B : IsFiniteSet(b)
  BY <1>3
<1>5. IsFiniteSet(UNION B)
  <2> HIDE DEF B
  <2> QED BY <1>2, <1>4, FS_UNION
<1> QED BY <1>5, FS_CardinalityType DEF Boxes, Volume

(* Any element may be taken first.                                         *)
LEMMA VolumeStep ==
  ASSUME NEW S, IsFiniteSet(S), NEW f, \A s \in S : f[s] \in Nat, NEW x \in S
  PROVE  Volume(f, S) = f[x] + Volume(f, S \ {x})
<1> DEFINE R == Boxes(f, S \ {x})
           X == {x} \X (1 .. f[x])
<1>1. Boxes(f, S) = X \cup R
  BY DEF Boxes
<1>2. X \cap R = {}
  BY DEF Boxes
<1>3. IsFiniteSet(S \ {x})
  BY FS_RemoveElement
<1>4. IsFiniteSet(R) /\ Volume(f, S \ {x}) \in Nat
  BY <1>3, BoxesFinite
<1>5. IsFiniteSet(X) /\ Cardinality(X) = f[x]
  <2>1. IsFiniteSet({x}) /\ Cardinality({x}) = 1
    BY FS_Singleton
  <2>2. IsFiniteSet(1 .. f[x]) /\ Cardinality(1 .. f[x]) = f[x]
    BY FS_Interval
  <2> QED BY <2>1, <2>2, FS_Product
<1>6. Cardinality(X \cup R) = Cardinality(X) + Cardinality(R) - Cardinality(X \cap R)
  <2> HIDE DEF X, R
  <2> QED BY <1>4, <1>5, FS_Union
<1>7. Cardinality(X \cap R) = 0
  BY <1>2, FS_EmptySet
<1>8. Cardinality(R) = Volume(f, S \ {x})
  BY DEF Volume
<1> HIDE DEF X, R
<1> QED BY <1>1, <1>4, <1>5, <1>6, <1>7, <1>8 DEF Volume

LEMMA VolumeMonotone ==
  ASSUME NEW S, IsFiniteSet(S), NEW f, NEW g, \A s \in S : f[s] \in Nat /\ g[s] \in Nat /\ f[s] <= g[s]
  PROVE  Volume(f, S) <= Volume(g, S)
<1>1. IsFiniteSet(Boxes(g, S))
  BY BoxesFinite
<1>2. \A s \in S : 1 .. f[s] \subseteq 1 .. g[s]
  OBVIOUS
<1>3. Boxes(f, S) \subseteq Boxes(g, S)
  BY <1>2 DEF Boxes
<1> QED BY <1>1, <1>3, FS_Subset DEF Volume

LEMMA VolumeSame ==
  ASSUME NEW S, NEW f, NEW g, \A s \in S : f[s] = g[s]
  PROVE  Volume(f, S) = Volume(g, S)
<1>1. Boxes(f, S) = Boxes(g, S)
  BY DEF Boxes
<1> QED BY <1>1 DEF Volume

LEMMA VolumeEmpty == \A f : Volume(f, {}) = 0
BY FS_EmptySet DEF Volume, Boxes

(* The function that MapThenFoldSet is defined by: it exists, since Volume  *)
(* is one, and there is no other, since a smallest set on which they       *)
(* differed would have an element to take away.                            *)
First(s) == CHOOSE x \in s : TRUE

Sums(i, f, T) == i = [s \in SUBSET T |-> IF s = {} THEN 0 ELSE f[First(s)] + i[s \ {First(s)}]]

LEMMA FoldIsVolume ==
  ASSUME NEW T, IsFiniteSet(T), NEW f, \A s \in T : f[s] \in Nat, NEW i, Sums(i, f, T)
  PROVE  i[T] = Volume(f, T)
<1> DEFINE Bad == {s \in SUBSET T : i[s] # Volume(f, s)}
<1>1. \A s \in SUBSET T : IsFiniteSet(s)
  BY FS_Subset
<1>2. SUFFICES ASSUME Bad # {} PROVE FALSE
  OBVIOUS
<1>3. IsWellFoundedOn(StrictSubsetOrdering(T), FiniteSubsetsOf(T))
  BY FS_StrictSubsetOrderingWellFounded
<1>4. Bad \subseteq FiniteSubsetsOf(T)
  BY <1>1 DEF FiniteSubsetsOf
<1>5. \E b \in Bad : \A c \in Bad : ~(<<c, b>> \in StrictSubsetOrdering(T))
  <2> HIDE DEF Bad
  <2> QED BY <1>2, <1>3, <1>4, WFMin
<1>6. PICK b \in Bad : \A c \in Bad : ~(<<c, b>> \in StrictSubsetOrdering(T))
  BY <1>5
<1>7. b # {}
  BY VolumeEmpty DEF Sums
<1>8. PICK x \in b : x = First(b)
  BY <1>7 DEF First
<1>9. b \ {x} \notin Bad
  <2>1. b \ {x} \in SUBSET T /\ b \ {x} \subseteq b /\ b \ {x} # b
    BY <1>8
  <2>2. <<b \ {x}, b>> \in StrictSubsetOrdering(T)
    BY <2>1 DEF StrictSubsetOrdering
  <2> HIDE DEF Bad
  <2> QED BY <1>6, <2>2
<1>10. i[b \ {x}] = Volume(f, b \ {x})
  BY <1>9
<1>11. i[b] = f[x] + i[b \ {x}]
  BY <1>7, <1>8 DEF Sums
<1>12. Volume(f, b) = f[x] + Volume(f, b \ {x})
  <2>1. IsFiniteSet(b) /\ \A s \in b : f[s] \in Nat
    BY <1>1
  <2> HIDE DEF Bad
  <2> QED BY <2>1, VolumeStep
<1> QED BY <1>10, <1>11, <1>12

LEMMA FoldExists ==
  ASSUME NEW T, IsFiniteSet(T), NEW f, \A s \in T : f[s] \in Nat
  PROVE  \E i : Sums(i, f, T)
<1> DEFINE i == [s \in SUBSET T |-> Volume(f, s)]
<1>1. ASSUME NEW s \in SUBSET T, s # {} PROVE Volume(f, s) = f[First(s)] + i[s \ {First(s)}]
  <2>1. First(s) \in s
    BY <1>1 DEF First
  <2>2. IsFiniteSet(s)
    BY FS_Subset
  <2> QED BY <2>1, <2>2, VolumeStep
<1>2. Sums(i, f, T)
  BY <1>1, VolumeEmpty DEF Sums
<1> HIDE DEF i
<1> QED BY <1>2

LEMMA DaysOfIsVolume ==
  ASSUME SubTypeOK, NEW u, NEW d, \A s \in RowsOf(u) : d[s] \in Nat /\ d[s] = subs[s].endsAt - subs[s].startsAt
  PROVE  DaysOf(u) = Volume(d, RowsOf(u))
<1> DEFINE T == RowsOf(u)
           E(i) == i = [s \in SUBSET T |-> IF s = {} THEN 0 ELSE
                         (subs[First(s)].endsAt - subs[First(s)].startsAt) + i[s \ {First(s)}]]
<1>1. DaysOf(u) = (CHOOSE i : E(i))[T]
  BY DEF DaysOf, MapThenSumSet, MapThenFoldSet, First
<1>2. IsFiniteSet(T) /\ \A s \in T : d[s] \in Nat
  BY SubscriptionsAssumption, FS_Subset DEF RowsOf
<1>3. \A i : E(i) <=> Sums(i, d, T)
  <2>1. \A s \in SUBSET T : s # {} => First(s) \in T
    BY DEF First
  <2> QED BY <2>1 DEF Sums
<1>4. \E i : E(i)
  <2> HIDE DEF T, E
  <2>1. PICK i : Sums(i, d, T)
    BY <1>2, FoldExists
  <2> QED BY <1>3, <2>1
<1>5. PICK i : i = (CHOOSE j : E(j)) /\ E(i)
  <2>1. E(CHOOSE j : E(j))
    <3> HIDE DEF E
    <3> QED BY <1>4
  <2> QED BY <2>1
<1>6. i[T] = Volume(d, T)
  <2> HIDE DEF T, E
  <2>1. Sums(i, d, T)
    BY <1>3, <1>5
  <2> QED BY <1>2, <2>1, FoldIsVolume
<1> QED BY <1>1, <1>5, <1>6

-----------------------------------------------------------------------------
(* What a grant has in hand is about its user, and a row that was never    *)
(* used is empty.                                                          *)
GrantOK(g) ==
  /\ g.pc # "idle" => g.user \in Users
  /\ g.pc = "reading" => g.row = Null
  /\ g.row # Null => g.user \in Users /\ subs[g.row].user = g.user

GrantInv ==
  /\ SubTypeOK
  /\ \A s \in Subs : subs[s].status = "NONE" => subs[s] = NoRow
  /\ \A c \in Callers : GrantOK(grants[c])

(* m accounts for the days of each row: no row is longer, nor would be by  *)
(* more than Days if a grant now wrote, and to a user no more was given    *)
(* than the grants written.                                                *)
RowCovered(s, m) == subs[s].startsAt <= subs[s].endsAt /\ subs[s].endsAt <= subs[s].startsAt + m[s]

GrantCovered(g, m) ==
  g.pc = "writing" =>
    /\ g.start <= g.end
    /\ g.row = Null => g.end <= g.start + Days
    /\ g.row # Null => subs[g.row].startsAt = g.start /\ g.end <= g.start + m[g.row] + Days

Accounts(m) ==
  /\ m \in [Subs -> Nat]
  /\ \A s \in Subs : RowCovered(s, m)
  /\ \A c \in Callers : GrantCovered(grants[c], m)
  /\ \A u \in Users : Volume(m, RowsOf(u)) <= Days * granted[u]

DaysInv == GrantInv /\ \E m : Accounts(m)

LEMMA InitDays == ASSUME SubInit PROVE DaysInv
<1>1. SubTypeOK
  BY SubscriptionsAssumption DEF SubInit, SubTypeOK, Rows, NoRow, GrantRecords, NoGrant
<1>2. GrantInv
  BY <1>1 DEF SubInit, GrantInv, GrantOK, NoGrant
<1>3. PICK m : m = [s \in Subs |-> 0]
  OBVIOUS
<1>4. \A u \in Users : RowsOf(u) = {} /\ Days * granted[u] = 0
  BY SubscriptionsAssumption DEF SubInit, RowsOf, NoRow
<1>5. \A u \in Users : Volume(m, RowsOf(u)) <= Days * granted[u]
  BY <1>4, VolumeEmpty
<1>6. Accounts(m)
  BY <1>3, <1>5 DEF SubInit, Accounts, RowCovered, GrantCovered, NoRow, NoGrant
<1> QED BY <1>2, <1>6 DEF DaysInv

(* Grants that begin, read or are dropped.                                 *)
LEMMA GrantsChange ==
  ASSUME GrantInv, NEW m, Accounts(m), grants' \in [Callers -> GrantRecords],
         \A c \in Callers : GrantOK(grants'[c]) /\ GrantCovered(grants'[c], m),
         UNCHANGED <<now, subs, granted>>
  PROVE  DaysInv'
<1>1. GrantInv'
  BY DEF GrantInv, SubTypeOK, GrantOK
<1>2. \A c \in Callers : GrantCovered(grants[c], m)'
  BY DEF GrantCovered
<1>3. Accounts(m)'
  BY <1>2 DEF Accounts, RowCovered, RowsOf
<1> QED BY <1>1, <1>3 DEF DaysInv

(* Time passes, or rows that are due become EXPIRED.                       *)
LEMMA AroundDays == ASSUME DaysInv, expireDue \/ Tick PROVE DaysInv'
<1>1. /\ SubTypeOK /\ UNCHANGED <<grants, granted>> /\ now' \in 0 .. MaxTime
  BY SubscriptionsAssumption DEF DaysInv, GrantInv, SubTypeOK, expireDue, Tick
<1>2. /\ subs' \in [Subs -> Rows]
      /\ \A s \in Subs : /\ subs'[s].user = subs[s].user /\ subs'[s].startsAt = subs[s].startsAt
                         /\ subs'[s].endsAt = subs[s].endsAt
                         /\ subs'[s].status = "NONE" => subs'[s] = subs[s]
  <2>1. CASE Tick
    BY <1>1, <2>1 DEF Tick, SubTypeOK
  <2>2. CASE expireDue
    BY <1>1, <2>2 DEF expireDue, SubTypeOK, Rows
  <2> QED BY <2>1, <2>2
<1>3. GrantInv'
  BY <1>1, <1>2 DEF DaysInv, GrantInv, SubTypeOK, GrantOK, GrantRecords
<1>4. PICK m : Accounts(m)
  BY DEF DaysInv
<1>5. \A u \in Users : RowsOf(u)' = RowsOf(u)
  BY <1>2 DEF RowsOf
<1>6. Accounts(m)'
  <2>1. \A s \in Subs : RowCovered(s, m)'
    BY <1>2, <1>4 DEF Accounts, RowCovered
  <2>2. \A c \in Callers : GrantCovered(grants[c], m)'
    BY <1>1, <1>2, <1>4 DEF Accounts, GrantCovered, SubTypeOK, GrantRecords
  <2>3. \A u \in Users : Volume(m, RowsOf(u))' <= Days * granted'[u]
    BY <1>1, <1>4, <1>5 DEF Accounts
  <2> QED BY <1>4, <2>1, <2>2, <2>3 DEF Accounts
<1> QED BY <1>3, <1>6 DEF DaysInv

LEMMA BeginDays ==
  ASSUME DaysInv, NEW c \in Callers, NEW u \in Users, BeginGrant(c, u), UNCHANGED <<now, subs, granted>>
  PROVE  DaysInv'
<1>1. PICK m : Accounts(m)
  BY DEF DaysInv
<1>2. PICK g : g = [NoGrant EXCEPT !.pc = "reading", !.user = u]
  OBVIOUS
<1>3. g = [pc |-> "reading", user |-> u, row |-> Null, start |-> 0, end |-> 0]
  BY <1>2 DEF NoGrant
<1>4. g \in GrantRecords /\ GrantOK(g) /\ GrantCovered(g, m)
  BY <1>3 DEF GrantRecords, GrantOK, GrantCovered
<1>5. grants' = [grants EXCEPT ![c] = g]
  BY <1>2 DEF BeginGrant
<1> QED BY <1>1, <1>4, <1>5, GrantsChange DEF DaysInv, GrantInv, SubTypeOK, Accounts

LEMMA DropDays ==
  ASSUME DaysInv, grants' = [c \in Callers |-> NoGrant], UNCHANGED <<now, subs, granted>>
  PROVE  DaysInv'
<1>1. PICK m : Accounts(m)
  BY DEF DaysInv
<1>2. NoGrant \in GrantRecords /\ GrantOK(NoGrant) /\ GrantCovered(NoGrant, m)
  BY DEF NoGrant, GrantRecords, GrantOK, GrantCovered
<1> QED BY <1>1, <1>2, GrantsChange DEF DaysInv

LEMMA SameDays == ASSUME DaysInv, UNCHANGED subVars PROVE DaysInv'
<1>1. PICK m : Accounts(m)
  BY DEF DaysInv
<1>2. \A c \in Callers : GrantOK(grants'[c]) /\ GrantCovered(grants'[c], m)
  BY <1>1 DEF subVars, DaysInv, GrantInv, Accounts
<1> QED BY <1>1, <1>2, GrantsChange DEF subVars, DaysInv, GrantInv, SubTypeOK

(* What a grant has read is as much as the row has now, or less.           *)
LEMMA ReadDays == ASSUME DaysInv, NEW c \in Callers, GrantRead(c) PROVE DaysInv'
<1>1. PICK m : Accounts(m)
  BY DEF DaysInv
<1>2. /\ SubTypeOK /\ grants[c] \in GrantRecords /\ GrantOK(grants[c]) /\ grants[c].pc = "reading"
      /\ grants[c].row = Null /\ grants[c].user \in Users /\ UNCHANGED <<now, subs, granted>>
  BY DEF DaysInv, GrantInv, GrantOK, SubTypeOK, GrantRead
<1>3. PICK u \in Users : u = grants[c].user
  BY <1>2
<1>4. now \in Nat /\ Days \in Nat
  BY <1>2, SubscriptionsAssumption DEF SubTypeOK
<1>5. ASSUME NEW g \in GrantRecords, GrantOK(g), GrantCovered(g, m), grants' = [grants EXCEPT ![c] = g]
      PROVE  DaysInv'
  BY <1>1, <1>2, <1>5, GrantsChange DEF DaysInv, GrantInv, SubTypeOK, Accounts
<1>6. ASSUME grants' = [grants EXCEPT ![c] = [grants[c] EXCEPT !.pc = "writing", !.start = now,
                                                            !.end = now + Days]]
      PROVE  DaysInv'
  <2>1. PICK g : g = [grants[c] EXCEPT !.pc = "writing", !.start = now, !.end = now + Days]
    OBVIOUS
  <2>2. g = [pc |-> "writing", user |-> u, row |-> Null, start |-> now, end |-> now + Days]
    BY <1>2, <1>3, <2>1 DEF GrantRecords
  <2>3. g \in GrantRecords /\ GrantOK(g) /\ GrantCovered(g, m)
    BY <1>4, <2>2 DEF GrantRecords, GrantOK, GrantCovered
  <2> QED BY <1>5, <1>6, <2>1, <2>3
<1>7. ASSUME NEW s \in getActive(u),
             grants' = [grants EXCEPT ![c] = [grants[c] EXCEPT !.pc = "writing", !.row = s,
                                                !.start = subs[s].startsAt, !.end = subs[s].endsAt + Days]]
      PROVE  DaysInv'
  <2>1. s \in Subs /\ subs[s].user = u
    BY DEF getActive, Live
  <2>2. subs[s] \in Rows /\ RowCovered(s, m) /\ m[s] \in Nat /\ s # Null
    BY <1>1, <1>2, <2>1, SubscriptionsAssumption DEF SubTypeOK, Accounts
  <2>3. PICK g : g = [grants[c] EXCEPT !.pc = "writing", !.row = s, !.start = subs[s].startsAt,
                                       !.end = subs[s].endsAt + Days]
    OBVIOUS
  <2>4. g = [pc |-> "writing", user |-> u, row |-> s, start |-> subs[s].startsAt,
             end |-> subs[s].endsAt + Days]
    BY <1>2, <1>3, <2>3 DEF GrantRecords
  <2>5. g \in GrantRecords /\ GrantOK(g)
    BY <1>4, <2>1, <2>2, <2>4 DEF GrantRecords, GrantOK, Rows
  <2>6. GrantCovered(g, m)
    BY <1>4, <2>2, <2>4 DEF GrantCovered, RowCovered, Rows
  <2> QED BY <1>5, <1>7, <2>3, <2>5, <2>6
<1> QED BY <1>3, <1>6, <1>7 DEF GrantRead

(* A grant that writes has its Days accounted to the row that it extends   *)
(* or creates.                                                             *)
LEMMA WriteDays == ASSUME DaysInv, NEW c \in Callers, GrantWrite(c) PROVE DaysInv'
<1>1. PICK m : Accounts(m)
  BY DEF DaysInv
<1>2. PICK g \in GrantRecords : g = grants[c]
  BY DEF DaysInv, GrantInv, SubTypeOK
<1>3. PICK u \in Users : u = g.user
  BY <1>2 DEF DaysInv, GrantInv, GrantOK, GrantWrite
<1>4. /\ SubTypeOK /\ GrantOK(g) /\ GrantCovered(g, m) /\ g.pc = "writing" /\ now' = now
      /\ Write(g) /\ granted' = [granted EXCEPT ![u] = granted[u] + 1]
      /\ grants' = [grants EXCEPT ![c] = NoGrant]
      /\ Days \in Nat /\ g.start \in Nat /\ g.end \in Nat /\ m \in [Subs -> Nat]
  BY <1>1, <1>2, <1>3, SubscriptionsAssumption DEF DaysInv, GrantInv, Accounts, GrantWrite, GrantRecords
<1>5. \E s \in Subs : \/ g.row = s /\ subs' = [subs EXCEPT ![s].endsAt = g.end]
                      \/ g.row = Null /\ subs[s].status = "NONE" /\ subs' = [subs EXCEPT ![s] = NewRow(g)]
  <2>1. g.row \in Subs \cup {Null}
    BY DEF GrantRecords
  <2> QED BY <1>4, <2>1 DEF Write, Unused
<1>6. PICK s \in Subs, x \in Rows :
        /\ subs' = [subs EXCEPT ![s] = x]
        /\ x.status # "NONE" /\ x.user = u /\ x.startsAt = g.start /\ x.endsAt = g.end
        /\ \/ g.row = s /\ subs[s].user = u /\ subs[s].startsAt = g.start
           \/ g.row = Null /\ subs[s] = NoRow
  <2>1. PICK s \in Subs : \/ g.row = s /\ subs' = [subs EXCEPT ![s].endsAt = g.end]
                          \/ g.row = Null /\ subs[s].status = "NONE" /\ subs' = [subs EXCEPT ![s] = NewRow(g)]
    BY <1>5
  <2>2. CASE g.row = s /\ subs' = [subs EXCEPT ![s].endsAt = g.end]
    <3>1. subs[s] \in Rows /\ subs[s].user = u /\ subs[s].startsAt = g.start
      BY <1>3, <1>4, <2>2, SubscriptionsAssumption DEF SubTypeOK, GrantOK, GrantCovered
    <3>2. subs[s].status # "NONE"
      BY <3>1, SubscriptionsAssumption DEF DaysInv, GrantInv, NoRow
    <3>3. PICK x : x = [subs[s] EXCEPT !.endsAt = g.end]
      OBVIOUS
    <3>4. x = [status |-> subs[s].status, user |-> u, startsAt |-> g.start, endsAt |-> g.end]
      BY <3>1, <3>3 DEF Rows
    <3>5. x \in Rows /\ x.status # "NONE"
      BY <1>4, <3>1, <3>2, <3>4 DEF Rows
    <3> QED BY <2>2, <3>1, <3>3, <3>4, <3>5, ZenonT(30)
  <2>3. CASE g.row = Null /\ subs[s].status = "NONE" /\ subs' = [subs EXCEPT ![s] = NewRow(g)]
    <3>1. PICK x : x = NewRow(g)
      OBVIOUS
    <3>2. x = [status |-> "ACTIVE", user |-> u, startsAt |-> g.start, endsAt |-> g.end]
      BY <1>3, <3>1 DEF NewRow
    <3>3. x \in Rows
      BY <1>4, <3>2 DEF Rows
    <3>4. subs[s] = NoRow
      BY <2>3 DEF DaysInv, GrantInv
    <3>5. /\ subs' = [subs EXCEPT ![s] = x] /\ g.row = Null
          /\ x.status # "NONE" /\ x.user = u /\ x.startsAt = g.start /\ x.endsAt = g.end
      BY <2>3, <3>1, <3>2
    <3> QED BY <3>3, <3>4, <3>5
  <2> QED BY <2>1, <2>2, <2>3
<1>7. subs' \in [Subs -> Rows] /\ subs'[s] = x /\ \A t \in Subs \ {s} : subs'[t] = subs[t]
  BY <1>4, <1>6 DEF SubTypeOK
<1>8. /\ grants' \in [Callers -> GrantRecords] /\ grants'[c] = NoGrant
      /\ \A d \in Callers \ {c} : grants'[d] = grants[d]
  BY <1>4 DEF SubTypeOK, GrantRecords, NoGrant
<1>9. granted' \in [Users -> Nat] /\ granted'[u] = granted[u] + 1 /\ \A v \in Users \ {u} : granted'[v] = granted[v]
  BY <1>4 DEF SubTypeOK
<1>10. \A d \in Callers : GrantOK(grants[d]) /\ grants[d] \in GrantRecords
  BY <1>4 DEF DaysInv, GrantInv, SubTypeOK
<1>11. \A d \in Callers \ {c} : g.row = Null => grants[d].row # s
  BY <1>6, <1>10, SubscriptionsAssumption DEF GrantOK, NoRow
<1>12. GrantInv'
  <2>1. SubTypeOK'
    BY <1>4, <1>7, <1>8, <1>9 DEF SubTypeOK
  <2>2. \A t \in Subs : subs'[t].status = "NONE" => subs'[t] = NoRow
    BY <1>6, <1>7 DEF DaysInv, GrantInv
  <2>3. ASSUME NEW d \in Callers PROVE GrantOK(grants[d])'
    <3>1. CASE d = c
      BY <1>8, <3>1 DEF GrantOK, NoGrant
    <3>2. CASE d # c
      <4>1. grants'[d] = grants[d] /\ GrantOK(grants[d]) /\ grants[d].row \in Subs \cup {Null}
        BY <1>8, <1>10, <3>2 DEF GrantRecords
      <4>2. grants[d].row # Null => subs'[grants[d].row].user = subs[grants[d].row].user
        BY <1>6, <1>7, <1>11, <3>2, <4>1
      <4> QED BY <4>1, <4>2 DEF GrantOK
    <3> QED BY <3>1, <3>2
  <2> QED BY <2>1, <2>2, <2>3 DEF GrantInv
<1>13. PICK n \in [Subs -> Nat] : /\ n[s] = IF g.row = Null THEN Days ELSE m[s] + Days
                               /\ \A t \in Subs \ {s} : n[t] = m[t]
  <2>1. PICK k \in Nat : k = IF g.row = Null THEN Days ELSE m[s] + Days
    BY <1>4
  <2> QED BY <1>4, <2>1, [m EXCEPT ![s] = k] \in [Subs -> Nat]
<1>14. \A t \in Subs : RowCovered(t, n)'
  <2>1. ASSUME NEW t \in Subs \ {s} PROVE RowCovered(t, n)'
    BY <1>1, <1>7, <1>13, <2>1 DEF Accounts, RowCovered
  <2>2. g.start <= g.end /\ g.end <= g.start + n[s]
    BY <1>4, <1>6, <1>13, SubscriptionsAssumption DEF GrantCovered
  <2>3. RowCovered(s, n)'
    BY <1>6, <1>7, <2>2 DEF RowCovered
  <2> QED BY <2>1, <2>3
<1>15. \A d \in Callers : GrantCovered(grants[d], n)'
  <2>1. ASSUME NEW d \in Callers, d = c PROVE GrantCovered(grants[d], n)'
    BY <1>8, <2>1 DEF GrantCovered, NoGrant
  <2>2. ASSUME NEW d \in Callers, d # c, grants[d].row = s PROVE GrantCovered(grants[d], n)'
    <3>1. grants'[d] = grants[d] /\ grants[d] \in GrantRecords /\ GrantCovered(grants[d], m) /\ g.row = s
      BY <1>1, <1>6, <1>8, <1>10, <1>11, <2>2 DEF Accounts
    <3>2. subs'[s].startsAt = subs[s].startsAt /\ n[s] = m[s] + Days /\ s # Null
      BY <1>6, <1>7, <1>13, <3>1, SubscriptionsAssumption
    <3> QED BY <1>4, <2>2, <3>1, <3>2 DEF GrantCovered, GrantRecords
  <2>3. ASSUME NEW d \in Callers, d # c, grants[d].row # s PROVE GrantCovered(grants[d], n)'
    <3>1. grants'[d] = grants[d] /\ grants[d] \in GrantRecords /\ GrantCovered(grants[d], m)
      BY <1>1, <1>8, <1>10, <2>3 DEF Accounts
    <3>2. grants[d].row # Null => grants[d].row \in Subs \ {s}
      BY <2>3, <3>1 DEF GrantRecords
    <3> QED BY <1>7, <1>13, <3>1, <3>2 DEF GrantCovered
  <2> QED BY <2>1, <2>2, <2>3
<1>16. \A v \in Users : Volume(n, RowsOf(v))' <= Days * granted'[v]
  <2>1. \A v : RowsOf(v) \subseteq Subs /\ IsFiniteSet(RowsOf(v))
    BY SubscriptionsAssumption, FS_Subset DEF RowsOf
  <2>2. \A v \in Users : Volume(m, RowsOf(v)) <= Days * granted[v]
    BY <1>1 DEF Accounts
  <2>3. ASSUME NEW v \in Users, v # u PROVE Volume(n, RowsOf(v))' <= Days * granted'[v]
    <3>1. RowsOf(v)' = RowsOf(v) /\ s \notin RowsOf(v)
      BY <1>6, <1>7, <2>3, SubscriptionsAssumption DEF RowsOf, NoRow
    <3>2. Volume(n, RowsOf(v)) = Volume(m, RowsOf(v))
      BY <1>13, <2>1, <3>1, VolumeSame
    <3> QED BY <1>9, <2>2, <2>3, <3>1, <3>2
  <2>4. Volume(n, RowsOf(u))' = Volume(m, RowsOf(u)) + Days
    <3> DEFINE R == RowsOf(u) \ {s}
    <3>1. RowsOf(u)' = R \cup {s}
      BY <1>6, <1>7 DEF RowsOf
    <3>2. IsFiniteSet(R) /\ IsFiniteSet(R \cup {s}) /\ R \subseteq Subs
      BY <2>1, FS_RemoveElement, FS_AddElement
    <3>3. Volume(n, R) = Volume(m, R)
      BY <1>13, <3>2, VolumeSame
    <3>4. Volume(n, R \cup {s}) = n[s] + Volume(n, (R \cup {s}) \ {s})
      <4>1. \A t \in R \cup {s} : n[t] \in Nat
        BY <1>13, <3>2
      <4> HIDE DEF R
      <4> QED BY <3>2, <4>1, VolumeStep
    <3>5. (R \cup {s}) \ {s} = R
      OBVIOUS
    <3>6. Volume(m, R) \in Nat
      <4>1. \A t \in R : m[t] \in Nat
        BY <1>4, <3>2
      <4> HIDE DEF R
      <4> QED BY <3>2, <4>1, BoxesFinite
    <3>7. CASE g.row = Null
      <4>1. s \notin RowsOf(u)
        BY <1>6, <3>7, SubscriptionsAssumption DEF RowsOf, NoRow
      <4>2. R = RowsOf(u) /\ n[s] = Days
        BY <1>13, <3>7, <4>1
      <4> QED BY <1>4, <3>1, <3>3, <3>4, <3>5, <3>6, <4>2, SMTT(30)
    <3>8. CASE g.row # Null
      <4>1. s \in RowsOf(u)
        BY <1>6, <3>8 DEF RowsOf
      <4>2. Volume(m, RowsOf(u)) = m[s] + Volume(m, R)
        <5>1. \A t \in RowsOf(u) : m[t] \in Nat
          BY <1>4, <2>1
        <5> QED BY <2>1, <4>1, <5>1, VolumeStep
      <4> QED BY <1>4, <1>13, <3>1, <3>3, <3>4, <3>5, <3>6, <3>8, <4>2, SMTT(30)
    <3> QED BY <3>7, <3>8
  <2>5. Volume(n, RowsOf(u))' <= Days * granted'[u]
    <3>1. granted[u] \in Nat /\ Volume(m, RowsOf(u)) \in Nat
      <4>1. \A t \in RowsOf(u) : m[t] \in Nat
        BY <1>4, <2>1
      <4> QED BY <1>4, <2>1, <4>1, BoxesFinite DEF SubTypeOK
    <3>2. Days * (granted[u] + 1) = Days * granted[u] + Days
      BY <1>4, <3>1
    <3> QED BY <1>4, <1>9, <2>2, <2>4, <3>1, <3>2
  <2> QED BY <2>3, <2>5
<1>17. Accounts(n)'
  BY <1>13, <1>14, <1>15, <1>16 DEF Accounts
<1> QED BY <1>12, <1>17 DEF DaysInv

(* What is in the table was accounted for.                                 *)
LEMMA DaysAreGranted == DaysInv => NoFreeDays
<1> SUFFICES ASSUME DaysInv, NEW u \in Users PROVE DaysOf(u) <= Days * granted[u]
  BY DEF NoFreeDays
<1>1. PICK m : Accounts(m)
  BY DEF DaysInv
<1>2. PICK d : d = [s \in Subs |-> subs[s].endsAt - subs[s].startsAt]
  OBVIOUS
<1>3. ASSUME NEW s \in Subs PROVE d[s] \in Nat /\ m[s] \in Nat /\ d[s] <= m[s]
  <2>1. subs[s].endsAt \in Nat /\ subs[s].startsAt \in Nat
    BY DEF DaysInv, GrantInv, SubTypeOK, Rows
  <2>2. m[s] \in Nat /\ RowCovered(s, m)
    BY <1>1 DEF Accounts
  <2> QED BY <1>2, <2>1, <2>2 DEF RowCovered
<1>4. RowsOf(u) \subseteq Subs /\ IsFiniteSet(RowsOf(u))
  BY SubscriptionsAssumption, FS_Subset DEF RowsOf
<1>5. DaysOf(u) = Volume(d, RowsOf(u))
  BY <1>2, <1>3, <1>4, DaysOfIsVolume DEF DaysInv, GrantInv
<1>6. Volume(d, RowsOf(u)) <= Volume(m, RowsOf(u))
  BY <1>3, <1>4, VolumeMonotone
<1>7. Volume(m, RowsOf(u)) <= Days * granted[u]
  BY <1>1 DEF Accounts
<1>8. Volume(d, RowsOf(u)) \in Nat /\ Volume(m, RowsOf(u)) \in Nat /\ Days * granted[u] \in Nat
  BY <1>3, <1>4, BoxesFinite, SubscriptionsAssumption DEF DaysInv, GrantInv, SubTypeOK
<1> QED BY <1>5, <1>6, <1>7, <1>8

(* No grant gives more days than it was for, however many run at once and  *)
(* however much time passes between their reads and their writes: what one *)
(* of them overwrites may be lost, and what it writes was granted.         *)
THEOREM NoDaysForNothing == SubSpec => [](SubTypeOK /\ NoFreeDays)
<1>1. SubInit => DaysInv
  BY InitDays
<1>2. DaysInv /\ [SubNext]_subVars => DaysInv'
  <2> SUFFICES ASSUME DaysInv, [SubNext]_subVars PROVE DaysInv'
    OBVIOUS
  <2>1. ASSUME NEW c \in Callers, NEW u \in Users, grant(c, u) PROVE DaysInv'
    BY <2>1, BeginDays DEF grant
  <2>2. ASSUME NEW c \in Callers, GrantRead(c) \/ GrantWrite(c) PROVE DaysInv'
    BY <2>2, ReadDays, WriteDays
  <2> QED BY <2>1, <2>2, AroundDays, SameDays DEF SubNext
<1>3. DaysInv => SubTypeOK /\ NoFreeDays
  BY DaysAreGranted DEF DaysInv, GrantInv
<1> QED BY <1>1, <1>2, <1>3, PTL DEF SubSpec

-----------------------------------------------------------------------------
PayTyped ==
  /\ status \in [Payments -> {"NONE", "PENDING", "SUCCEEDED", "FAILED", "MANUAL"}]
  /\ txn \in [Payments -> {"none", "pending", "succeeded", "canceled"}]
  /\ handler \in [Handlers -> HandlerRecords]
  /\ given \in [Payments -> Nat]

(* A payment without a row has no transaction, and nobody works at it.     *)
Fresh ==
  \A p \in Payments : status[p] = "NONE" =>
    /\ txn[p] = "none" /\ p \notin known
    /\ \A h \in Handlers : handler[h].payment # p

(* One checkout at a time creates the transaction of a payment, which has  *)
(* none before.                                                            *)
OneCreator ==
  \A h \in Handlers : At(h, "creating") =>
    /\ txn[handler[h].payment] = "none"
    /\ \A k \in Handlers :
         At(k, "creating") /\ handler[k].payment = handler[h].payment => k = h

(* A handler on its way to a grant has a payment with which a paid         *)
(* transaction was named.                                                  *)
OnTheWay ==
  \A h \in Handlers :
    /\ ~At(h, "idle") => handler[h].payment \in Payments
    /\ "markPaid" \notin Events =>
         /\ handler[h].via # "admin"
         /\ handler[h].pc \in {"settled", "reading", "marking", "granting"} =>
              SeenPaid(handler[h].payment)

PayInv == PayTyped /\ Fresh /\ OneCreator /\ OnTheWay /\ NothingForFree

LEMMA InitPayInv == Init => PayInv
<1> SUFFICES ASSUME Init PROVE PayInv
  OBVIOUS
<1> USE PaymentsAssumption DEF Init, Idle
<1>1. PayTyped
  BY DEF PayTyped, HandlerRecords
<1>2. Fresh /\ OneCreator /\ OnTheWay
  BY DEF Fresh, OneCreator, OnTheWay, At
<1>3. NothingForFree
  BY DEF NothingForFree
<1> QED  BY <1>1, <1>2, <1>3 DEF PayInv

-----------------------------------------------------------------------------
(* The outcome of a transaction is final, so what the gateway has confirmed*)
(* it confirms ever after.                                                 *)
Final ==
  \A p \in Payments : txn[p] \in {"succeeded", "canceled"} => txn'[p] = txn[p]

LEMMA SeenStays ==
  ASSUME Final, NEW p
  PROVE  /\ SeenPaid(p) => SeenPaid(p)'
         /\ SeenCanceled(p) => SeenCanceled(p)'
         /\ Contested(p) => Contested(p)'
<1>1. \A b \in Bodies : b.object \in Payments
  BY PaymentsAssumption DEF Notifications
<1>2. SeenPaid(p) => SeenPaid(p)'
  BY <1>1 DEF Final, SeenPaid, Names
<1>3. SeenCanceled(p) => SeenCanceled(p)'
  BY <1>1 DEF Final, SeenCanceled, Names
<1> QED BY <1>2, <1>3 DEF Contested

LEMMA OwnIsSeen ==
  ASSUME NEW p \in Payments
  PROVE  /\ txn[p] = "succeeded" => SeenPaid(p)
         /\ txn'[p] = "succeeded" => SeenPaid(p)'
<1>1. Own(p) \in Bodies /\ Own(p).object = p /\ Own(p).paymentId = p
  BY PaymentsAssumption DEF Own
<1> QED BY <1>1 DEF SeenPaid, Names

(* The payment that a notification leads to has a row, and has seen what   *)
(* the gateway confirms to that notification.                              *)
LEMMA FoundIsNamed ==
  ASSUME PayInv, NEW b \in Bodies, NEW p \in findByTxnOrId(b)
  PROVE  /\ p \in Payments /\ status[p] # "NONE"
         /\ txn[b.object] = "succeeded" => SeenPaid(p)
         /\ txn[b.object] = "canceled" => SeenCanceled(p)
<1>1. b.object \in Payments /\ b.paymentId \in Payments \cup {Null}
  BY PaymentsAssumption DEF Notifications
<1>2. p \in Payments /\ status[p] # "NONE" /\ Names(b, p)
  BY <1>1 DEF findByTxnOrId, Names, PayInv, Fresh
<1> QED BY <1>2 DEF SeenPaid, SeenCanceled

-----------------------------------------------------------------------------
(* What the three ways of moving a handler do to it, and that they leave   *)
(* the others alone.                                                       *)
Others(h) == \A k \in Handlers : k # h => handler'[k] = handler[k]

Pcs == {"idle", "creating", "storing", "settled", "reading", "marking", "failing",
        "granting"}

Vias == {"checkout", "webhook", "foreign", "admin"}

LEMMA StartMoves ==
  ASSUME PayTyped, NEW h \in Handlers, NEW via \in Vias, NEW pc \in Pcs, NEW p \in Payments, Start(h, via, pc, p)
  PROVE  /\ handler' \in [Handlers -> HandlerRecords]
         /\ Others(h) /\ At(h, "idle")
         /\ handler'[h].via = via /\ handler'[h].pc = pc /\ handler'[h].payment = p
<1> DEFINE d == [via |-> via, pc |-> pc, payment |-> p]
<1>1. d \in HandlerRecords
  BY DEF HandlerRecords, Pcs, Vias
<1>2. d.via = via /\ d.pc = pc /\ d.payment = p
  OBVIOUS
<1>3. handler' = [handler EXCEPT ![h] = d]
  BY DEF Start
<1> HIDE DEF d
<1> QED  BY <1>1, <1>2, <1>3 DEF PayTyped, Others, Start

LEMMA GotoMoves ==
  ASSUME PayTyped, NEW h \in Handlers, NEW pc \in Pcs, Goto(h, pc)
  PROVE  /\ handler' \in [Handlers -> HandlerRecords]
         /\ Others(h)
         /\ handler'[h].via = handler[h].via
         /\ handler'[h].pc = pc
         /\ handler'[h].payment = handler[h].payment
<1> DEFINE d == [handler[h] EXCEPT !.pc = pc]
<1>1. handler[h] \in HandlerRecords
  BY DEF PayTyped
<1>2. /\ d \in HandlerRecords
      /\ d.via = handler[h].via /\ d.pc = pc /\ d.payment = handler[h].payment
  BY <1>1 DEF HandlerRecords, Pcs
<1>3. handler' = [handler EXCEPT ![h] = d]
  BY DEF Goto
<1> HIDE DEF d
<1> QED  BY <1>2, <1>3 DEF PayTyped, Others

LEMMA FinishMoves ==
  ASSUME PayTyped, NEW h \in Handlers, Finish(h)
  PROVE  /\ handler' \in [Handlers -> HandlerRecords]
         /\ Others(h)
         /\ handler'[h] = Idle
<1>1. Idle \in HandlerRecords
  BY DEF Idle, HandlerRecords
<1> QED  BY <1>1 DEF PayTyped, Others, Finish

LEMMA IdleFields == Idle.pc = "idle" /\ Idle.via = "none" /\ Idle.payment = Null
BY DEF Idle

-----------------------------------------------------------------------------
(* One lemma per action.                                                   *)
LEMMA CheckoutStep ==
  ASSUME PayInv, NEW h \in Handlers, NEW p \in Payments, Checkout(h, p)
  PROVE  PayInv' /\ Final
<1> USE DEF PayInv, Checkout
<1>1. /\ handler' \in [Handlers -> HandlerRecords] /\ Others(h)
      /\ handler'[h].via = "checkout" /\ handler'[h].pc = "creating"
      /\ handler'[h].payment = p
  BY StartMoves DEF Pcs, Vias
<1>2. Final
  BY DEF Final
<1>3. PayTyped'
  BY <1>1 DEF PayTyped
<1>4. Fresh'
  BY <1>1 DEF Fresh, Others, PayTyped
<1>5. OneCreator'
  BY <1>1 DEF OneCreator, Fresh, OnTheWay, Others, At
<1>6. OnTheWay'
  BY <1>1, <1>2, SeenStays DEF OnTheWay, Others, At
<1>7. NothingForFree'
  BY <1>2, SeenStays DEF NothingForFree, PayTyped
<1> QED  BY <1>2, <1>3, <1>4, <1>5, <1>6, <1>7

(* A transaction that is set by the one handler that creates it.           *)
LEMMA CreatePaymentStep ==
  ASSUME PayInv, NEW h \in Handlers, CreatePayment(h) \/ CreatePaymentFails(h)
  PROVE  PayInv' /\ Final
<1> USE DEF PayInv
<1> DEFINE p == handler[h].payment
<1>1. /\ p \in Payments /\ txn[p] = "none" /\ status[p] # "NONE"
      /\ handler[h].pc = "creating"
  BY DEF CreatePayment, CreatePaymentFails, At, OnTheWay, OneCreator, Fresh
<1>2. /\ UNCHANGED <<status, known, given>>
      /\ \/ Finish(h) /\ (txn' = txn \/ txn' = [txn EXCEPT ![p] = "pending"])
         \/ txn' = [txn EXCEPT ![p] = "pending"] /\ Goto(h, "storing")
         \/ txn' = [txn EXCEPT ![p] = "succeeded"] /\ Goto(h, "settled")
  BY DEF CreatePayment, CreatePaymentFails
<1>3. /\ handler' \in [Handlers -> HandlerRecords] /\ Others(h)
      /\ \/ handler'[h] = Idle
         \/ /\ handler'[h].payment = p /\ handler'[h].via = handler[h].via
            /\ \/ handler'[h].pc = "storing"
               \/ handler'[h].pc = "settled" /\ txn'[p] = "succeeded"
  <2>1. CASE Finish(h)
    BY <2>1, FinishMoves
  <2>2. CASE txn' = [txn EXCEPT ![p] = "succeeded"] /\ Goto(h, "settled")
    BY <2>2, <1>1, GotoMoves DEF Pcs, PayTyped
  <2>3. CASE Goto(h, "storing")
    BY <2>3, GotoMoves DEF Pcs
  <2> QED  BY <1>2, <2>1, <2>2, <2>3
<1>4. /\ \A q \in Payments : q # p => txn'[q] = txn[q]
      /\ txn' \in [Payments -> {"none", "pending", "succeeded", "canceled"}]
  BY <1>1, <1>2 DEF PayTyped
<1>5. Final
  BY <1>1, <1>4 DEF Final
<1>6. \A q \in Payments : txn'[q] = "succeeded" => SeenPaid(q)'
  BY OwnIsSeen
<1> HIDE DEF p
<1>7. PayTyped'
  BY <1>2, <1>3, <1>4 DEF PayTyped
<1>8. Fresh'
  BY <1>1, <1>2, <1>3, <1>4, IdleFields, PaymentsAssumption DEF Fresh, Others
<1>9. OneCreator'
  BY <1>1, <1>3, <1>4, IdleFields DEF OneCreator, OnTheWay, Others, At, p
<1>10. OnTheWay'
  BY <1>1, <1>3, <1>5, <1>6, SeenStays, IdleFields DEF OnTheWay, Others, At, p
<1>11. NothingForFree'
  BY <1>2, <1>5, SeenStays DEF NothingForFree
<1> QED  BY <1>5, <1>7, <1>8, <1>9, <1>10, <1>11

(* Its id is stored, for a payment that has a row.                         *)
LEMMA StoreTxnIdStep ==
  ASSUME PayInv, NEW h \in Handlers, StoreTxnId(h)
  PROVE  PayInv' /\ Final
<1> USE DEF PayInv
<1> DEFINE p == handler[h].payment
<1>1. /\ p \in Payments /\ status[p] # "NONE" /\ known' = known \cup {p}
      /\ UNCHANGED <<status, txn, given>>
      /\ handler[h].pc \in {"storing", "settled"}
  BY DEF StoreTxnId, At, OnTheWay, Fresh
<1>2. /\ handler' \in [Handlers -> HandlerRecords] /\ Others(h)
      /\ \/ handler'[h] = Idle
         \/ /\ handler[h].pc = "settled" /\ handler'[h].pc = "reading"
            /\ handler'[h].payment = p /\ handler'[h].via = handler[h].via
  <2>1. CASE Finish(h)
    BY <2>1, FinishMoves
  <2>2. CASE At(h, "settled") /\ Goto(h, "reading")
    BY <2>2, GotoMoves DEF Pcs, At
  <2> QED  BY <2>1, <2>2 DEF StoreTxnId
<1> HIDE DEF p
<1>3. Final
  BY <1>1 DEF Final
<1>4. PayTyped'
  BY <1>1, <1>2 DEF PayTyped
<1>5. Fresh'
  BY <1>1, <1>2, IdleFields, PaymentsAssumption DEF Fresh, Others
<1>6. OneCreator'
  BY <1>1, <1>2, IdleFields DEF OneCreator, Others, At
<1>7. OnTheWay'
  BY <1>1, <1>2, <1>3, SeenStays, IdleFields DEF OnTheWay, Others, At, p
<1>8. NothingForFree'
  BY <1>1, <1>3, SeenStays DEF NothingForFree
<1> QED  BY <1>3, <1>4, <1>5, <1>6, <1>7, <1>8

LEMMA SettleStep ==
  ASSUME PayInv, NEW p \in Payments, Settle(p)
  PROVE  PayInv' /\ Final
<1> USE DEF PayInv, Settle
<1>1. PayTyped'
  BY DEF PayTyped
<1>2. /\ \A q \in Payments : q # p => txn'[q] = txn[q]
      /\ txn[p] = "pending"
  BY DEF PayTyped
<1>3. Final
  BY <1>2 DEF Final
<1>4. Fresh' /\ OneCreator'
  BY <1>2 DEF Fresh, OneCreator, OnTheWay, At
<1>5. OnTheWay'
  BY <1>3, SeenStays DEF OnTheWay, At
<1>6. NothingForFree'
  BY <1>3, SeenStays DEF NothingForFree
<1> QED  BY <1>1, <1>3, <1>4, <1>5, <1>6

(* The webhook and the admin's request find a payment that has a row.      *)
LEMMA RequestStep ==
  ASSUME PayInv, NEW h \in Handlers, NEW p \in Payments,
         MarkManuallyPaid(h, p) \/ \E b \in Bodies : Webhook(h, b, p)
  PROVE  PayInv' /\ Final
<1> USE DEF PayInv
<1>1. /\ UNCHANGED <<status, txn, known, given>> /\ status[p] # "NONE"
      /\ \/ SeenPaid(p) /\ \E via \in {"webhook", "foreign"} : Start(h, via, "reading", p)
         \/ \E via \in {"webhook", "foreign"} : Start(h, via, "failing", p)
         \/ /\ "markPaid" \in Events /\ Start(h, "admin", "marking", p)
  BY FoundIsNamed DEF Webhook, MarkManuallyPaid, Notifier
<1> DEFINE Moved ==
      /\ handler' \in [Handlers -> HandlerRecords] /\ Others(h)
      /\ handler'[h].payment = p
      /\ handler'[h].pc \in {"reading", "failing", "marking"}
      /\ "markPaid" \notin Events =>
           /\ handler'[h].via # "admin"
           /\ handler'[h].pc \in {"settled", "reading", "marking", "granting"} => SeenPaid(p)
<1>2. Moved
  <2>1. ASSUME SeenPaid(p), NEW via \in {"webhook", "foreign"}, Start(h, via, "reading", p)
        PROVE  Moved
    BY <2>1, StartMoves DEF Pcs, Vias
  <2>2. ASSUME NEW via \in {"webhook", "foreign"}, Start(h, via, "failing", p)
        PROVE  Moved
    BY <2>2, StartMoves DEF Pcs, Vias
  <2>3. CASE "markPaid" \in Events /\ Start(h, "admin", "marking", p)
    BY <2>3, StartMoves DEF Pcs, Vias
  <2> QED  BY <1>1, <2>1, <2>2, <2>3
<1>3. Final
  BY <1>1 DEF Final
<1>4. PayTyped'
  BY <1>1, <1>2 DEF PayTyped
<1>5. Fresh'
  BY <1>1, <1>2 DEF Fresh, Others
<1>6. OneCreator'
  BY <1>1, <1>2 DEF OneCreator, Others, At
<1>7. OnTheWay'
  BY <1>2, <1>3, SeenStays DEF OnTheWay, Others, At
<1>8. NothingForFree'
  BY <1>1, <1>3, SeenStays DEF NothingForFree
<1> QED  BY <1>3, <1>4, <1>5, <1>6, <1>7, <1>8

(* A handler that has its payment and does not create its transaction.     *)
LEMMA HandlerStepKeeps ==
  ASSUME PayInv, NEW h \in Handlers,
         MarkSucceededRead(h) \/ MarkFailed(h) \/ MarkPaid(h) \/ GrantStep(h)
  PROVE  PayInv' /\ Final
<1> USE DEF PayInv
<1> DEFINE p == handler[h].payment
<1>1. /\ p \in Payments /\ UNCHANGED <<txn, known>> /\ status[p] # "NONE"
      /\ handler[h].pc \in {"reading", "marking", "failing", "granting"}
  BY DEF MarkSucceededRead, MarkFailed, MarkPaid, GrantStep, payVars, At, OnTheWay, Fresh
<1>2. /\ handler' \in [Handlers -> HandlerRecords]
      /\ Others(h)
      /\ \/ handler'[h] = Idle
         \/ handler'[h] = handler[h]
         \/ /\ handler'[h].payment = p /\ handler'[h].via = handler[h].via
            /\ \/ handler[h].pc = "reading" /\ handler'[h].pc = "marking"
               \/ handler[h].pc = "marking" /\ handler'[h].pc = "granting"
  <2>1. CASE Finish(h)
    BY <2>1, FinishMoves
  <2>2. CASE handler[h].pc = "reading" /\ Goto(h, "marking")
    BY <2>2, GotoMoves DEF Pcs
  <2>3. CASE handler[h].pc = "marking" /\ Goto(h, "granting")
    BY <2>3, GotoMoves DEF Pcs
  <2>4. CASE handler' = handler
    BY <2>4 DEF PayTyped, Others
  <2> QED
    BY <2>1, <2>2, <2>3, <2>4
    DEF MarkSucceededRead, MarkFailed, MarkPaid, GrantStep, payVars, At
<1>3. /\ status' \in [Payments -> {"NONE", "PENDING", "SUCCEEDED", "FAILED", "MANUAL"}]
      /\ \A q \in Payments : q # p => status'[q] = status[q]
      /\ status'[p] # "NONE"
      /\ status'[p] = "SUCCEEDED" =>
           status[p] = "SUCCEEDED" \/ handler[h].pc = "marking"
  BY <1>1 DEF MarkSucceededRead, MarkFailed, MarkPaid, GrantStep, payVars, At, PayTyped
<1>4. /\ given' \in [Payments -> Nat]
      /\ \A q \in Payments : q # p => given'[q] = given[q]
      /\ given'[p] > 0 => given[p] > 0 \/ handler[h].pc = "granting"
  BY <1>1 DEF MarkSucceededRead, MarkFailed, MarkPaid, GrantStep, payVars, At, PayTyped
<1>5. "markPaid" \notin Events /\ handler[h].pc \in {"marking", "granting"} => SeenPaid(p)
  BY DEF OnTheWay
<1> HIDE DEF p
<1>6. Final
  BY <1>1 DEF Final
<1>7. PayTyped'
  BY <1>1, <1>2, <1>3, <1>4 DEF PayTyped
<1>8. Fresh'
  BY <1>1, <1>2, <1>3, IdleFields, PaymentsAssumption DEF Fresh, Others, p
<1>9. OneCreator'
  BY <1>1, <1>2, IdleFields DEF OneCreator, Others, At
<1>10. OnTheWay'
  BY <1>1, <1>2, <1>6, SeenStays, IdleFields DEF OnTheWay, Others, At, p
<1>11. NothingForFree'
  BY <1>1, <1>3, <1>4, <1>5, <1>6, SeenStays DEF NothingForFree
<1> QED  BY <1>6, <1>7, <1>8, <1>9, <1>10, <1>11

LEMMA CrashStep ==
  ASSUME PayInv, Crash
  PROVE  PayInv' /\ Final
<1> USE DEF PayInv, Crash
<1>1. PayTyped' /\ Final
  BY DEF PayTyped, Idle, HandlerRecords, Final
<1>2. Fresh' /\ OneCreator' /\ OnTheWay'
  BY IdleFields, PaymentsAssumption DEF Fresh, OneCreator, OnTheWay, At
<1>3. NothingForFree'
  BY <1>1, SeenStays DEF NothingForFree
<1> QED  BY <1>1, <1>2, <1>3

LEMMA NoStep ==
  ASSUME PayInv, UNCHANGED <<status, txn, known, handler, given>>
  PROVE  PayInv' /\ Final
<1>1. Final
  BY DEF Final
<1> QED  BY <1>1, SeenStays
         DEF PayInv, PayTyped, Fresh, OneCreator, OnTheWay, NothingForFree, At

LEMMA PayInvStep == PayInv /\ [PayNext]_vars => PayInv' /\ Final
<1> SUFFICES ASSUME PayInv, [PayNext]_vars PROVE PayInv' /\ Final
  OBVIOUS
<1>1. CASE \E h \in Handlers : HandlerStep(h)
  BY <1>1, CreatePaymentStep, StoreTxnIdStep, HandlerStepKeeps DEF HandlerStep
<1>2. CASE \E h \in Handlers, p \in Payments : Request(h, p)
  BY <1>2, CheckoutStep, RequestStep DEF Request
<1>3. CASE \E p \in Payments : Settle(p)
  BY <1>3, SettleStep
<1>4. CASE \E p \in Payments : WebhookIgnored(p)
  BY <1>4, NoStep DEF WebhookIgnored
<1>5. CASE Crash
  BY <1>5, CrashStep
<1>6. CASE Around
  BY <1>6, NoStep DEF Around, payVars
<1>7. CASE UNCHANGED vars
  BY <1>7, NoStep DEF vars, payVars
<1> QED  BY <1>1, <1>2, <1>3, <1>4, <1>5, <1>6, <1>7 DEF PayNext

(* Unless an admin says so, a payment is granted, or shown as SUCCEEDED,   *)
(* only when the gateway confirms as paid a transaction that a notification*)
(* names with it: for any notifications, payments and handlers, repeated   *)
(* and late, crashes and failed calls.                                     *)
THEOREM NothingIsFree == PaySpec => []NothingForFree
<1>1. PayInv => NothingForFree
  BY DEF PayInv
<1> QED  BY <1>1, InitPayInv, PayInvStep, PTL DEF PaySpec

(* And when all notifications are the provider's own, that transaction is  *)
(* the payment's: what the run PaymentsCrossed refutes for others.         *)
LEMMA OwnBodiesSee ==
  ASSUME Bodies = {Own(q) : q \in Payments}, NEW p \in Payments
  PROVE  /\ SeenPaid(p) => txn[p] = "succeeded"
         /\ SeenCanceled(p) => txn[p] = "canceled"
<1>1. ASSUME NEW b \in Bodies, Names(b, p) PROVE b.object = p
  BY <1>1, PaymentsAssumption DEF Own, Names
<1> QED BY <1>1 DEF SeenPaid, SeenCanceled

THEOREM OwnBodiesConfirm ==
  ASSUME Bodies = {Own(p) : p \in Payments}
  PROVE  PaySpec => []OwnPaymentConfirmed
<1>1. NothingForFree => OwnPaymentConfirmed
  BY OwnBodiesSee DEF NothingForFree, OwnPaymentConfirmed
<1> QED  BY <1>1, NothingIsFree, PTL

-----------------------------------------------------------------------------
(* How often a payment is granted.  A request claims its payment from the  *)
(* moment it has read that it is not processed.                            *)
Claims(p) ==
  {h \in Handlers : handler[h].payment = p /\ handler[h].pc \in {"marking", "granting"}}

(* A payment that was granted is SUCCEEDED and stays so, unless a canceled *)
(* transaction is named with it as well: it admits no new claim, and a     *)
(* claim is used up by its grant.                                          *)
Counted ==
  /\ \A p \in Payments :
       /\ \A h \in Handlers : At(h, "failing") /\ handler[h].payment = p => SeenCanceled(p)
       /\ status[p] = "FAILED" => SeenCanceled(p)
  /\ \A p \in Payments : ~Contested(p) =>
       /\ \A h \in Handlers :
            At(h, "granting") /\ handler[h].payment = p => status[p] = "SUCCEEDED"
       /\ given[p] > 0 => status[p] = "SUCCEEDED"
       /\ given[p] + Cardinality(Claims(p)) <= Cardinality(Handlers)

CountInv == PayInv /\ ("markPaid" \notin Events => Counted)

(* What a step may do to the grants and the claims of a payment.           *)
Orderly(p) ==
  \/ given'[p] = given[p] /\ (given[p] = 0 \/ Claims(p)' \subseteq Claims(p))
  \/ /\ given'[p] = given[p] + 1
     /\ \E h \in Claims(p) : Claims(p)' \subseteq Claims(p) \ {h}

LEMMA FiniteClaims ==
  ASSUME NEW p \in Payments
  PROVE  /\ IsFiniteSet(Claims(p)) /\ Cardinality(Claims(p)) \in Nat
         /\ IsFiniteSet(Claims(p)') /\ Cardinality(Claims(p)') \in Nat
         /\ Cardinality(Claims(p)') <= Cardinality(Handlers)
         /\ Cardinality(Claims(p)) <= Cardinality(Handlers)
         /\ Cardinality(Handlers) \in Nat
<1>1. IsFiniteSet(Handlers)
  BY PaymentsAssumption DEF Handlers
<1>2. Claims(p) \subseteq Handlers /\ Claims(p)' \subseteq Handlers
  BY DEF Claims
<1> QED  BY <1>1, <1>2, FS_Subset, FS_CardinalityType

LEMMA OrderlyCounts ==
  ASSUME PayTyped, NEW p \in Payments, Orderly(p),
         given[p] + Cardinality(Claims(p)) <= Cardinality(Handlers)
  PROVE  given'[p] + Cardinality(Claims(p)') <= Cardinality(Handlers)
<1>1. given[p] \in Nat
  BY DEF PayTyped
<1>2. CASE given'[p] = given[p] /\ given[p] = 0
  BY <1>2, FiniteClaims
<1>3. CASE given'[p] = given[p] /\ Claims(p)' \subseteq Claims(p)
  <2>1. Cardinality(Claims(p)') <= Cardinality(Claims(p))
    BY <1>3, FiniteClaims, FS_Subset
  <2> QED  BY <1>1, <1>3, <2>1, FiniteClaims
<1>4. ASSUME given'[p] = given[p] + 1, NEW h \in Claims(p),
             Claims(p)' \subseteq Claims(p) \ {h}
      PROVE  given'[p] + Cardinality(Claims(p)') <= Cardinality(Handlers)
  <2>1. /\ IsFiniteSet(Claims(p) \ {h})
        /\ Cardinality(Claims(p) \ {h}) = Cardinality(Claims(p)) - 1
    BY FiniteClaims, FS_RemoveElement
  <2>2. Cardinality(Claims(p)') <= Cardinality(Claims(p) \ {h})
    BY <1>4, <2>1, FS_Subset
  <2> QED  BY <1>1, <1>4, <2>1, <2>2, FiniteClaims
<1> QED  BY <1>2, <1>3, <1>4 DEF Orderly

LEMMA InitCountInv == Init => CountInv
<1> SUFFICES ASSUME Init PROVE CountInv
  OBVIOUS
<1>1. \A p \in Payments : Claims(p) = {} /\ given[p] = 0
  BY IdleFields DEF Init, Claims
<1>2. Cardinality({}) = 0 /\ Cardinality(Handlers) \in Nat
  BY FS_EmptySet, PaymentsAssumption, FS_CardinalityType DEF Handlers
<1>3. \A h \in Handlers : At(h, "idle")
  BY IdleFields DEF Init, At
<1>4. \A p \in Payments : given[p] + Cardinality(Claims(p)) <= Cardinality(Handlers)
  BY <1>1, <1>2
<1>5. \A p \in Payments : status[p] # "FAILED" /\ ~(given[p] > 0)
  BY DEF Init
<1> QED  BY <1>3, <1>4, <1>5, InitPayInv DEF CountInv, Counted, At

(* What is left to show for a step that keeps PayInv.                      *)
LEMMA CountStep ==
  ASSUME CountInv, PayInv', Final,
         "markPaid" \notin Events =>
           /\ \A p \in Payments, h \in Handlers :
                At(h, "failing")' /\ handler'[h].payment = p => SeenCanceled(p)'
           /\ \A p \in Payments : status'[p] = "FAILED" => SeenCanceled(p)'
           /\ \A p \in Payments : ~Contested(p) =>
                /\ \A h \in Handlers :
                     At(h, "granting")' /\ handler'[h].payment = p => status'[p] = "SUCCEEDED"
                /\ given'[p] > 0 => status'[p] = "SUCCEEDED"
                /\ Orderly(p)
  PROVE  CountInv'
<1> SUFFICES ASSUME "markPaid" \notin Events PROVE Counted'
  BY DEF CountInv
<1>1. \A p \in Payments : ~Contested(p) =>
        given'[p] + Cardinality(Claims(p)') <= Cardinality(Handlers)
  BY OrderlyCounts DEF CountInv, PayInv, Counted
<1>2. \A p \in Payments : Contested(p) => Contested(p)'
  BY SeenStays
<1>3. Handlers' = Handlers
  BY DEF Handlers
<1> QED  BY <1>1, <1>2, <1>3 DEF Counted

(* A step that grants nothing: it moves one handler, at most.              *)
LEMMA QuietCounts ==
  ASSUME CountInv, PayInv', Final, given' = given, NEW h \in Handlers, Others(h),
         \A p \in Payments : ~Contested(p) /\ status[p] = "SUCCEEDED" => status'[p] = "SUCCEEDED",
         "markPaid" \notin Events =>
           /\ \A p \in Payments : status'[p] = "FAILED" => status[p] = "FAILED" \/ SeenCanceled(p)
           /\ \A p \in Payments :
                handler'[h].pc = "failing" /\ handler'[h].payment = p => SeenCanceled(p)
           /\ handler'[h].pc = "granting" => status'[handler'[h].payment] = "SUCCEEDED"
           /\ handler'[h].pc \in {"marking", "granting"} =>
                \/ h \in Claims(handler'[h].payment)
                \/ status[handler'[h].payment] # "SUCCEEDED"
  PROVE  CountInv'
<1> SUFFICES ASSUME "markPaid" \notin Events
    PROVE /\ \A p \in Payments, k \in Handlers :
               At(k, "failing")' /\ handler'[k].payment = p => SeenCanceled(p)'
          /\ \A p \in Payments : status'[p] = "FAILED" => SeenCanceled(p)'
          /\ \A p \in Payments : ~Contested(p) =>
               /\ \A k \in Handlers :
                    At(k, "granting")' /\ handler'[k].payment = p => status'[p] = "SUCCEEDED"
               /\ given'[p] > 0 => status'[p] = "SUCCEEDED"
               /\ Orderly(p)
  BY CountStep
<1>1. Counted
  BY DEF CountInv
<1>2. \A k \in Handlers : k # h => handler'[k] = handler[k]
  BY DEF Others
<1>3. ASSUME NEW p \in Payments, NEW k \in Handlers,
             At(k, "failing")', handler'[k].payment = p
      PROVE  SeenCanceled(p)'
  <2>1. SeenCanceled(p)
    BY <1>1, <1>2, <1>3 DEF Counted, At
  <2> QED  BY <2>1, SeenStays
<1>4. ASSUME NEW p \in Payments, status'[p] = "FAILED" PROVE SeenCanceled(p)'
  BY <1>1, <1>4, SeenStays DEF Counted
<1>5. ASSUME NEW p \in Payments, ~Contested(p), NEW k \in Handlers,
             At(k, "granting")', handler'[k].payment = p
      PROVE  status'[p] = "SUCCEEDED"
  BY <1>1, <1>2, <1>5 DEF Counted, At
<1>6. ASSUME NEW p \in Payments, ~Contested(p)
      PROVE  given'[p] > 0 => status'[p] = "SUCCEEDED"
  BY <1>1, <1>6 DEF Counted
<1>7. ASSUME NEW p \in Payments, ~Contested(p) PROVE Orderly(p)
  <2>1. CASE given[p] = 0
    BY <2>1 DEF Orderly
  <2>2. CASE given[p] # 0
    <3>1. status[p] = "SUCCEEDED"
      BY <1>1, <1>7, <2>2 DEF Counted, CountInv, PayInv, PayTyped
    <3>2. Claims(p)' \subseteq Claims(p)
      BY <3>1, <1>2 DEF Claims
    <3> QED  BY <3>2 DEF Orderly
  <2> QED  BY <2>1, <2>2
<1> QED  BY <1>3, <1>4, <1>5, <1>6, <1>7

(* No request at work after the step than before it.                       *)
LEMMA UnmovedCounts ==
  ASSUME CountInv, PayInv', Final, UNCHANGED <<status, handler, given>>
  PROVE  CountInv'
<1>1. \A p \in Payments : Orderly(p)
  BY DEF Orderly, Claims
<1>2. "markPaid" \notin Events =>
        \A p \in Payments, h \in Handlers :
          At(h, "failing")' /\ handler'[h].payment = p => SeenCanceled(p)'
  BY SeenStays DEF CountInv, Counted, At
<1>3. "markPaid" \notin Events =>
        \A p \in Payments : status'[p] = "FAILED" => SeenCanceled(p)'
  BY SeenStays DEF CountInv, Counted
<1>4. "markPaid" \notin Events =>
        \A p \in Payments : ~Contested(p) =>
          /\ \A h \in Handlers :
               At(h, "granting")' /\ handler'[h].payment = p => status'[p] = "SUCCEEDED"
          /\ given'[p] > 0 => status'[p] = "SUCCEEDED"
  BY DEF CountInv, Counted, At
<1> QED BY <1>1, <1>2, <1>3, <1>4, CountStep

LEMMA RequestCounts ==
  ASSUME CountInv, PayInv', Final, NEW h \in Handlers, NEW p \in Payments, Request(h, p)
  PROVE  CountInv'
<1>0. PayInv /\ PayTyped
  BY DEF CountInv, PayInv
<1>1. CASE Checkout(h, p)
  <2>1. Others(h) /\ handler'[h].pc = "creating"
    BY <1>0, <1>1, StartMoves DEF Checkout, Pcs, Vias
  <2>2. \A q \in Payments :
          /\ status[q] = "SUCCEEDED" => status'[q] = "SUCCEEDED"
          /\ status'[q] = "FAILED" => status[q] = "FAILED"
    BY <1>0, <1>1 DEF Checkout, PayTyped
  <2> QED  BY <1>1, <2>1, <2>2, QuietCounts DEF Checkout
<1>2. ASSUME NEW b \in Bodies, Webhook(h, b, p) PROVE CountInv'
  <2>1. /\ UNCHANGED <<status, given>>
        /\ txn[b.object] = "canceled" => SeenCanceled(p)
    BY <1>0, <1>2, FoundIsNamed DEF Webhook
  <2>2. /\ Others(h) /\ handler'[h].payment = p
        /\ \/ handler'[h].pc = "reading"
           \/ handler'[h].pc = "failing" /\ txn[b.object] = "canceled"
    <3>1. PICK via \in Vias, pc \in Pcs :
            /\ Start(h, via, pc, p)
            /\ pc = "reading" \/ (pc = "failing" /\ txn[b.object] = "canceled")
      BY <1>2 DEF Webhook, Notifier, Vias, Pcs
    <3> QED BY <1>0, <3>1, StartMoves
  <2> QED  BY <2>1, <2>2, QuietCounts
<1>3. CASE MarkManuallyPaid(h, p)
  BY <1>3 DEF MarkManuallyPaid, CountInv
<1> QED  BY <1>1, <1>2, <1>3 DEF Request

LEMMA CreateCounts ==
  ASSUME CountInv, PayInv', Final, NEW h \in Handlers,
         CreatePayment(h) \/ CreatePaymentFails(h) \/ StoreTxnId(h)
  PROVE  CountInv'
<1>0. PayTyped /\ UNCHANGED <<status, given>>
  BY DEF CountInv, PayInv, CreatePayment, CreatePaymentFails, StoreTxnId
<1>1. /\ Others(h)
      /\ handler'[h].pc \in {"idle", "storing", "settled", "reading"}
  <2>1. CASE Finish(h)
    BY <1>0, <2>1, FinishMoves, IdleFields
  <2>2. CASE \E pc \in {"storing", "settled", "reading"} : Goto(h, pc)
    BY <1>0, <2>2, GotoMoves DEF Pcs
  <2> QED  BY <2>1, <2>2 DEF CreatePayment, CreatePaymentFails, StoreTxnId
<1> QED  BY <1>0, <1>1, QuietCounts

LEMMA ReadCounts ==
  ASSUME CountInv, PayInv', Final, NEW h \in Handlers, MarkSucceededRead(h)
  PROVE  CountInv'
<1>0. PayTyped
  BY DEF CountInv, PayInv
<1>1. CASE Finish(h)
  BY <1>0, <1>1, FinishMoves, IdleFields, QuietCounts DEF MarkSucceededRead
<1>2. CASE status[handler[h].payment] # "SUCCEEDED" /\ Goto(h, "marking")
  <2>1. /\ Others(h) /\ handler'[h].pc = "marking"
        /\ handler'[h].payment = handler[h].payment
    BY <1>0, <1>2, GotoMoves DEF Pcs
  <2> QED  BY <1>2, <2>1, QuietCounts DEF MarkSucceededRead
<1> QED  BY <1>1, <1>2 DEF MarkSucceededRead, AlreadyProcessed

(* FAILED never replaces SUCCEEDED, unless both outcomes were named.       *)
LEMMA FailCounts ==
  ASSUME CountInv, PayInv', Final, NEW h \in Handlers, MarkFailed(h)
  PROVE  CountInv'
<1>0. PayInv /\ PayTyped
  BY DEF CountInv, PayInv
<1> SUFFICES ASSUME "markPaid" \notin Events PROVE CountInv'
  BY DEF CountInv
<1>1. Others(h) /\ handler'[h] = Idle /\ UNCHANGED <<txn, given>>
  BY <1>0, FinishMoves DEF MarkFailed
<1>2. PICK q \in Payments : q = handler[h].payment
  BY <1>0 DEF MarkFailed, At, PayInv, OnTheWay
<1>3. SeenCanceled(q)
  BY <1>2 DEF CountInv, Counted, MarkFailed, At
<1>4. ~Contested(q) => status[q] # "SUCCEEDED"
  BY <1>0, <1>3 DEF PayInv, NothingForFree, Contested
<1>5. /\ status'[q] = "FAILED"
      /\ \A p \in Payments : p # q => status'[p] = status[p]
  BY <1>0, <1>2 DEF MarkFailed, PayTyped
<1>6. \A p \in Payments :
        /\ ~Contested(p) /\ status[p] = "SUCCEEDED" => status'[p] = "SUCCEEDED"
        /\ status'[p] = "FAILED" => status[p] = "FAILED" \/ SeenCanceled(p)
  BY <1>3, <1>4, <1>5
<1> QED  BY <1>1, <1>6, IdleFields, QuietCounts

LEMMA PaidCounts ==
  ASSUME CountInv, PayInv', Final, NEW h \in Handlers, MarkPaid(h)
  PROVE  CountInv'
<1>0. PayInv /\ PayTyped
  BY DEF CountInv, PayInv
<1> SUFFICES ASSUME "markPaid" \notin Events PROVE CountInv'
  BY DEF CountInv
<1>1. /\ Others(h) /\ UNCHANGED <<txn, given>>
      /\ handler'[h].pc = "granting" /\ handler'[h].payment = handler[h].payment
  BY <1>0, GotoMoves DEF MarkPaid, Pcs
<1>2. handler[h].payment \in Payments /\ handler[h].via # "admin"
  BY <1>0 DEF MarkPaid, At, PayInv, OnTheWay
<1>3. /\ status'[handler[h].payment] = "SUCCEEDED"
      /\ \A p \in Payments :
           /\ status[p] = "SUCCEEDED" => status'[p] = "SUCCEEDED"
           /\ status'[p] = "FAILED" => status[p] = "FAILED"
  BY <1>0, <1>2 DEF MarkPaid, PayTyped
<1>4. h \in Claims(handler[h].payment)
  BY DEF MarkPaid, At, Claims
<1> QED  BY <1>1, <1>3, <1>4, QuietCounts

(* The grant is written, and its claim is gone.                            *)
LEMMA GrantCounts ==
  ASSUME CountInv, PayInv', Final, NEW h \in Handlers, GrantStep(h)
  PROVE  CountInv'
<1>0. PayInv /\ PayTyped
  BY DEF CountInv, PayInv
<1> DEFINE q == handler[h].payment
<1>1. CASE UNCHANGED payVars
  BY <1>1, UnmovedCounts DEF payVars
<1>2. CASE /\ given' = [given EXCEPT ![q] = @ + 1]
           /\ Finish(h) /\ UNCHANGED <<status, txn, known>>
  <2> SUFFICES ASSUME "markPaid" \notin Events PROVE CountInv'
    BY DEF CountInv
  <2>1. Others(h) /\ handler'[h] = Idle
    BY <1>0, <1>2, FinishMoves
  <2>2. /\ q \in Payments /\ h \in Claims(q)
        /\ ~Contested(q) => status[q] = "SUCCEEDED"
    BY <1>0 DEF GrantStep, At, PayInv, OnTheWay, CountInv, Counted, Claims
  <2>3. /\ given'[q] = given[q] + 1
        /\ \A p \in Payments : p # q => given'[p] = given[p]
    BY <1>0, <1>2, <2>2 DEF PayTyped
  <2> HIDE DEF q
  <2>4. \A p \in Payments : Claims(p)' \subseteq Claims(p) \ {h}
    BY <2>1, IdleFields DEF Claims, Others
  <2>5. \A p \in Payments : Orderly(p)
    BY <2>2, <2>3, <2>4 DEF Orderly
  <2>6. \A k \in Handlers : handler'[k] = handler[k] \/ handler'[k].pc = "idle"
    BY <2>1, IdleFields DEF Others
  <2>7. \A p \in Payments, k \in Handlers :
          At(k, "failing")' /\ handler'[k].payment = p => SeenCanceled(p)'
    BY <2>6, SeenStays DEF CountInv, Counted, At
  <2>8. \A p \in Payments : status'[p] = "FAILED" => SeenCanceled(p)'
    BY <1>2, SeenStays DEF CountInv, Counted
  <2>9. \A p \in Payments : ~Contested(p) =>
          /\ \A k \in Handlers :
               At(k, "granting")' /\ handler'[k].payment = p => status'[p] = "SUCCEEDED"
          /\ given'[p] > 0 => status'[p] = "SUCCEEDED"
    BY <1>2, <2>2, <2>3, <2>6 DEF CountInv, Counted, At
  <2> QED  BY <2>5, <2>7, <2>8, <2>9, CountStep
<1> QED  BY <1>1, <1>2 DEF GrantStep

LEMMA CrashCounts ==
  ASSUME CountInv, PayInv', Final, Crash
  PROVE  CountInv'
<1>1. UNCHANGED <<status, txn, given>> /\ \A h \in Handlers : handler'[h] = Idle
  BY DEF Crash
<1>2. \A p \in Payments : Claims(p)' = {}
  BY <1>1, IdleFields DEF Claims
<1>3. \A p \in Payments : Orderly(p)
  BY <1>1, <1>2 DEF Orderly
<1>4. \A h \in Handlers : ~At(h, "failing")' /\ ~At(h, "granting")'
  BY <1>1, IdleFields DEF At
<1>5. "markPaid" \notin Events =>
        \A p \in Payments : status'[p] = "FAILED" => SeenCanceled(p)'
  BY <1>1, SeenStays DEF CountInv, Counted
<1>6. "markPaid" \notin Events =>
        \A p \in Payments : ~Contested(p) => (given'[p] > 0 => status'[p] = "SUCCEEDED")
  BY <1>1 DEF CountInv, Counted
<1> QED  BY <1>3, <1>4, <1>5, <1>6, CountStep

LEMMA CountInvStep == CountInv /\ [PayNext]_vars => CountInv'
<1> SUFFICES ASSUME CountInv, [PayNext]_vars PROVE CountInv'
  OBVIOUS
<1>0. PayInv' /\ Final
  BY PayInvStep DEF CountInv
<1>1. CASE \E h \in Handlers : HandlerStep(h)
  BY <1>0, <1>1, CreateCounts, ReadCounts, FailCounts, PaidCounts, GrantCounts
  DEF HandlerStep
<1>2. CASE \E h \in Handlers, p \in Payments : Request(h, p)
  BY <1>0, <1>2, RequestCounts
<1>3. CASE \E p \in Payments : Settle(p)
  BY <1>0, <1>3, UnmovedCounts DEF Settle
<1>4. CASE \E p \in Payments : WebhookIgnored(p)
  BY <1>0, <1>4, UnmovedCounts DEF WebhookIgnored
<1>5. CASE Crash
  BY <1>0, <1>5, CrashCounts
<1>6. CASE Around
  BY <1>0, <1>6, UnmovedCounts DEF Around, payVars
<1>7. CASE UNCHANGED vars
  BY <1>0, <1>7, UnmovedCounts DEF vars, payVars
<1> QED  BY <1>1, <1>2, <1>3, <1>4, <1>5, <1>6, <1>7 DEF PayNext

(* However many notifications arrive, whatever they name and however they  *)
(* overlap, a payment that no admin touches, and with which paid and       *)
(* canceled transactions are not both named, is granted no more often than *)
(* there are handlers: with one at a time, markSucceeded is idempotent.    *)
THEOREM GrantsBounded == PaySpec => []GrantExcess
<1>1. CountInv => GrantExcess
  BY FiniteClaims DEF CountInv, Counted, GrantExcess, PayInv, PayTyped
<1> QED  BY <1>1, InitCountInv, CountInvStep, PTL DEF PaySpec

(* A payment that is shown as FAILED had a canceled transaction named with *)
(* it, and was and is granted nothing unless a paid one was too: for any   *)
(* number of payments and handlers, and any notifications.                 *)
THEOREM FailedIsFinal == PaySpec => []FailedGetsNothing
<1>1. CountInv => FailedGetsNothing
  <2> SUFFICES ASSUME CountInv, "markPaid" \notin Events,
                      NEW p \in Payments, status[p] = "FAILED"
      PROVE  /\ SeenCanceled(p)
             /\ ~Contested(p) =>
                  /\ given[p] = 0
                  /\ \A h \in Handlers : At(h, "granting") => handler[h].payment # p
    BY DEF FailedGetsNothing
  <2>1. Counted /\ given[p] \in Nat
    BY DEF CountInv, PayInv, PayTyped
  <2>2. SeenCanceled(p) /\ (~Contested(p) => ~(given[p] > 0))
    BY <2>1 DEF Counted
  <2>3. ~Contested(p) =>
          \A h \in Handlers : At(h, "granting") => handler[h].payment # p
    BY <2>1 DEF Counted
  <2> QED  BY <2>1, <2>2, <2>3
<1> QED  BY <1>1, InitCountInv, CountInvStep, PTL DEF PaySpec

-----------------------------------------------------------------------------
(* That what is shown as paid is granted.  A payment that is, and was not  *)
(* granted yet, has a request on the way to the grant: one that writes     *)
(* SUCCEEDED or MANUAL goes on to the grant, and leaves it only by writing *)
(* it, unless the process ends.                                            *)
Paid(p) == status[p] \in {"SUCCEEDED", "MANUAL"}

Served(p) ==
  Paid(p) => given[p] > 0 \/ \E h \in Handlers : At(h, "granting") /\ handler[h].payment = p

ServedInv == PayInv /\ \A p \in Payments : Served(p)

(* A step that marks nothing as paid, takes nothing back, and leaves those *)
(* that are granting to themselves.                                        *)
LEMMA QuietServes ==
  ASSUME ServedInv, NEW p \in Payments,
         Paid(p)' => Paid(p), given[p] > 0 => given'[p] > 0,
         \A h \in Handlers : At(h, "granting") => handler'[h] = handler[h]
  PROVE  Served(p)'
BY DEF ServedInv, Served, At, Handlers

LEMMA StepServes ==
  ASSUME "crash" \notin Events, ServedInv, PayNext
  PROVE  \A p \in Payments : Served(p)'
<1>0. PayInv /\ PayTyped
  BY DEF ServedInv, PayInv
<1>1. ASSUME NEW h \in Handlers, NEW q \in Payments, Request(h, q), NEW p \in Payments
      PROVE  Served(p)'
  <2>1. /\ given' = given
        /\ status' = status \/ status' = [status EXCEPT ![q] = "PENDING"]
        /\ \E via \in Vias, pc \in Pcs : Start(h, via, pc, q)
    BY <1>1 DEF Request, Checkout, Webhook, MarkManuallyPaid, Notifier, Pcs, Vias
  <2>2. Others(h) /\ At(h, "idle")
    BY <1>0, <2>1, StartMoves
  <2>3. Paid(p)' => Paid(p)
    BY <1>0, <2>1 DEF Paid, PayTyped
  <2> QED  BY <2>1, <2>2, <2>3, QuietServes DEF Others, At
<1>2. ASSUME NEW h \in Handlers, NEW p \in Payments,
             \/ CreatePayment(h) \/ CreatePaymentFails(h) \/ StoreTxnId(h)
             \/ MarkSucceededRead(h) \/ MarkFailed(h)
      PROVE  Served(p)'
  <2>1. /\ given' = given /\ ~At(h, "granting")
        /\ status' = status \/ status' = [status EXCEPT ![handler[h].payment] = "FAILED"]
        /\ Finish(h) \/ \E pc \in Pcs : Goto(h, pc)
    BY <1>2 DEF CreatePayment, CreatePaymentFails, StoreTxnId, MarkSucceededRead, MarkFailed,
                At, Pcs
  <2>2. Others(h)
    BY <1>0, <2>1, FinishMoves, GotoMoves
  <2>3. Paid(p)' => Paid(p)
    BY <1>0, <2>1 DEF Paid, PayTyped
  <2> QED  BY <2>1, <2>2, <2>3, QuietServes DEF Others, At
<1>3. ASSUME NEW h \in Handlers, MarkPaid(h), NEW p \in Payments PROVE Served(p)'
  <2>1. /\ Others(h) /\ given' = given /\ ~At(h, "granting")
        /\ handler'[h].pc = "granting" /\ handler'[h].payment = handler[h].payment
    BY <1>0, <1>3, GotoMoves DEF MarkPaid, Pcs, At
  <2>2. CASE p = handler[h].payment
    BY <2>1, <2>2 DEF Served, At, Handlers
  <2>3. CASE p # handler[h].payment
    <3>1. Paid(p)' => Paid(p)
      BY <1>0, <1>3, <2>3 DEF Paid, PayTyped, MarkPaid
    <3> QED  BY <2>1, <3>1, QuietServes DEF Others, At
  <2> QED  BY <2>2, <2>3
<1>4. ASSUME NEW h \in Handlers, GrantStep(h), NEW p \in Payments PROVE Served(p)'
  <2>1. CASE UNCHANGED payVars
    BY <2>1, QuietServes DEF payVars, Paid
  <2>2. CASE /\ given' = [given EXCEPT ![handler[h].payment] = @ + 1]
             /\ Finish(h) /\ UNCHANGED <<status, txn, known>>
    <3>1. Others(h) /\ handler[h].payment \in Payments
      BY <1>0, <1>4, <2>2, FinishMoves DEF GrantStep, PayInv, OnTheWay, At
    <3>2. CASE p = handler[h].payment
      <4>1. given'[p] > 0
        BY <1>0, <2>2, <3>1, <3>2 DEF PayTyped
      <4> QED  BY <4>1 DEF Served
    <3>3. CASE p # handler[h].payment
      <4>1. given'[p] = given[p]
        BY <1>0, <2>2, <3>1, <3>3 DEF PayTyped
      <4> QED  BY <2>2, <3>1, <3>3, <4>1 DEF ServedInv, Served, Paid, Others, At, Handlers
    <3> QED  BY <3>2, <3>3
  <2> QED  BY <1>4, <2>1, <2>2 DEF GrantStep
<1>5. ASSUME UNCHANGED <<status, handler, given>>, NEW p \in Payments PROVE Served(p)'
  BY <1>5, QuietServes DEF Paid
<1> QED
  BY <1>1, <1>2, <1>3, <1>4, <1>5
  DEF PayNext, HandlerStep, Settle, WebhookIgnored, Crash, Around, payVars

(* As long as the process does not end in between, a payment that is shown *)
(* as SUCCEEDED or MANUAL has been granted once all is quiet, whoever      *)
(* raced to write it: admins, repeated notifications, cancellations.       *)
THEOREM ProcessedAreGranted ==
  ASSUME "crash" \notin Events PROVE PaySpec => []ProcessedIsGranted
<1>1. Init => ServedInv
  BY InitPayInv DEF ServedInv, Served, Paid, Init
<1>2. ServedInv /\ [PayNext]_vars => ServedInv'
  <2>1. ASSUME ServedInv, UNCHANGED vars PROVE \A p \in Payments : Served(p)'
    BY <2>1, QuietServes DEF vars, payVars, Paid
  <2> QED  BY <2>1, StepServes, PayInvStep DEF ServedInv
<1>3. ServedInv => ProcessedIsGranted
  BY DEF ServedInv, Served, Paid, ProcessedIsGranted, At
<1> QED  BY <1>1, <1>2, <1>3, PTL DEF PaySpec

-----------------------------------------------------------------------------
(* Payments and the subscriptions they are for.                            *)
LEMMA DaysStep == PayInv /\ DaysInv /\ [PayNext]_vars => DaysInv'
<1> SUFFICES ASSUME PayInv, DaysInv, [PayNext]_vars PROVE DaysInv'
  OBVIOUS
<1>1. ASSUME NEW h \in Handlers, HandlerStep(h) PROVE DaysInv'
  <2>1. CASE MarkPaid(h)
    <3>1. Payer[handler[h].payment] \in Users
      BY <2>1, PaymentsAssumption DEF MarkPaid, At, PayInv, OnTheWay
    <3> QED BY <2>1, <3>1, BeginDays DEF MarkPaid, Handlers
  <2>2. CASE GrantStep(h)
    BY <2>2, ReadDays, WriteDays DEF GrantStep, Handlers
  <2>3. CASE \/ CreatePayment(h) \/ CreatePaymentFails(h) \/ StoreTxnId(h)
             \/ MarkSucceededRead(h) \/ MarkFailed(h)
    <3>1. UNCHANGED subVars
      BY <2>3 DEF CreatePayment, CreatePaymentFails, StoreTxnId, MarkSucceededRead, MarkFailed
    <3> QED BY <3>1, SameDays
  <2> QED BY <1>1, <2>1, <2>2, <2>3 DEF HandlerStep
<1>2. CASE \E h \in Handlers, p \in Payments : Request(h, p)
  <2>1. UNCHANGED subVars
    BY <1>2 DEF Request, Checkout, Webhook, MarkManuallyPaid
  <2> QED BY <2>1, SameDays
<1>3. CASE \E p \in Payments : Settle(p) \/ WebhookIgnored(p)
  <2>1. UNCHANGED subVars
    BY <1>3 DEF Settle, WebhookIgnored
  <2> QED BY <2>1, SameDays
<1>4. CASE Crash
  BY <1>4, DropDays DEF Crash
<1>5. CASE Around
  BY <1>5, AroundDays DEF Around
<1>6. CASE UNCHANGED vars
  BY <1>6, SameDays DEF vars
<1> QED BY <1>1, <1>2, <1>3, <1>4, <1>5, <1>6 DEF PayNext

(* However payments, notifications, crashes and the sweep interleave, a    *)
(* user's subscriptions never last longer than the grants written for him. *)
THEOREM PaymentsGiveNoDays == PaySpec => []NoFreeDays
<1>1. Init => PayInv /\ DaysInv
  BY InitPayInv, InitDays DEF Init
<1>2. PayInv /\ DaysInv /\ [PayNext]_vars => PayInv' /\ DaysInv'
  BY PayInvStep, DaysStep
<1>3. DaysInv => NoFreeDays
  BY DaysAreGranted
<1> QED BY <1>1, <1>2, <1>3, PTL DEF PaySpec

LEMMA OneAtMost ==
  ASSUME \A h, k \in Handlers : h = k
  PROVE  Cardinality(Handlers) <= 1
<1>1. CASE Handlers = {}
  BY <1>1, FS_EmptySet
<1>2. ASSUME NEW h \in Handlers PROVE Cardinality(Handlers) <= 1
  <2>1. Handlers = {h}
    OBVIOUS
  <2>2. Cardinality({h}) = 1
    BY FS_Singleton
  <2> QED BY <2>1, <2>2
<1> QED BY <1>1, <1>2

(* With one request at a time, and the provider's own notifications alone, *)
(* markSucceeded is what it says: idempotent.                              *)
THEOREM OneHandlerGrantsOnce ==
  ASSUME \A h, k \in Handlers : h = k, "markPaid" \notin Events,
         Bodies = {Own(p) : p \in Payments}
  PROVE  PaySpec => []GrantedOnce
<1>1. Cardinality(Handlers) <= 1
  BY OneAtMost
<1>2. \A p \in Payments : ~Contested(p)
  BY OwnBodiesSee DEF Contested
<1>3. PayTyped /\ GrantExcess => GrantedOnce
  BY <1>1, <1>2, FiniteClaims DEF PayTyped, GrantExcess, GrantedOnce
<1>4. PaySpec => []PayTyped
  BY InitPayInv, PayInvStep, PTL DEF PaySpec, PayInv
<1> QED BY <1>3, <1>4, GrantsBounded, PTL

-----------------------------------------------------------------------------
(* A grant is for the payer of its payment, what was granted was granted   *)
(* for a payment, and what is in the table was granted.                    *)
Linked ==
  /\ \A h \in Handlers : grants[h].pc # "idle" =>
       At(h, "granting") /\ grants[h].user = Payer[handler[h].payment]
  /\ \A u \in Users : granted[u] > 0 => \E p \in Payments : Payer[p] = u /\ given[p] > 0
  /\ \A s \in Subs : subs[s].status # "NONE" =>
       subs[s].user \in Users /\ granted[subs[s].user] > 0

LinkInv == PayInv /\ DaysInv /\ Linked

(* A step that writes no subscription and moves a handler only when it has *)
(* no grant.                                                               *)
LEMMA QuietLinks ==
  ASSUME LinkInv, UNCHANGED <<subs, granted, given>>,
         \A h \in Handlers : \/ grants'[h].pc = "idle"
                             \/ grants'[h] = grants[h] /\ handler'[h] = handler[h]
  PROVE  Linked'
BY DEF LinkInv, Linked, At, Handlers

LEMMA PaidLinks == ASSUME LinkInv, NEW h \in Handlers, MarkPaid(h) PROVE Linked'
<1>0. PayTyped /\ SubTypeOK
  BY DEF LinkInv, PayInv, DaysInv, GrantInv
<1>1. PICK g : g = [NoGrant EXCEPT !.pc = "reading", !.user = Payer[handler[h].payment]]
  OBVIOUS
<1>2. g = [pc |-> "reading", user |-> Payer[handler[h].payment], row |-> Null, start |-> 0, end |-> 0]
  BY <1>1 DEF NoGrant
<1>3. grants' = [grants EXCEPT ![h] = g]
  BY <1>1 DEF MarkPaid, BeginGrant
<1>4. /\ grants'[h].user = Payer[handler[h].payment]
      /\ \A k \in Handlers : k # h => grants'[k] = grants[k]
  BY <1>0, <1>2, <1>3 DEF SubTypeOK, Handlers
<1>5. /\ Others(h) /\ handler'[h].pc = "granting" /\ handler'[h].payment = handler[h].payment
  BY <1>0, GotoMoves DEF MarkPaid, Pcs
<1> QED BY <1>4, <1>5 DEF MarkPaid, LinkInv, Linked, At, Others

LEMMA GrantLinks == ASSUME LinkInv, NEW h \in Handlers, GrantStep(h) PROVE Linked'
<1>0. PayTyped /\ SubTypeOK /\ GrantInv /\ Linked /\ h \in Callers
  BY DEF LinkInv, PayInv, DaysInv, GrantInv, Handlers
<1>1. CASE GrantRead(h) /\ UNCHANGED payVars
  <2>1. PICK g : grants' = [grants EXCEPT ![h] = g] /\ g.user = grants[h].user
    <3>1. grants[h] \in GrantRecords
      BY <1>0 DEF SubTypeOK
    <3>2. CASE grants' = [grants EXCEPT ![h] = [@ EXCEPT !.pc = "writing", !.start = now,
                                                         !.end = now + Days]]
      <4>1. PICK g : g = [grants[h] EXCEPT !.pc = "writing", !.start = now, !.end = now + Days]
        OBVIOUS
      <4>2. g.user = grants[h].user
        BY <3>1, <4>1 DEF GrantRecords
      <4> QED BY <3>2, <4>1, <4>2
    <3>3. ASSUME NEW s \in getActive(grants[h].user),
                 grants' = [grants EXCEPT ![h] = [@ EXCEPT !.pc = "writing", !.row = s,
                              !.start = subs[s].startsAt, !.end = subs[s].endsAt + Days]]
          PROVE  \E g : grants' = [grants EXCEPT ![h] = g] /\ g.user = grants[h].user
      <4>1. PICK g : g = [grants[h] EXCEPT !.pc = "writing", !.row = s,
                            !.start = subs[s].startsAt, !.end = subs[s].endsAt + Days]
        OBVIOUS
      <4>2. g.user = grants[h].user
        BY <3>1, <4>1 DEF GrantRecords
      <4> QED BY <3>3, <4>1, <4>2
    <3> QED BY <1>1, <3>2, <3>3 DEF GrantRead
  <2>2. /\ grants'[h].user = grants[h].user
        /\ \A k \in Handlers : k # h => grants'[k] = grants[k]
    BY <1>0, <2>1 DEF SubTypeOK, Handlers
  <2>3. /\ UNCHANGED <<subs, granted, handler, given>> /\ grants[h].pc = "reading"
    BY <1>1 DEF GrantRead, payVars
  <2> QED BY <1>0, <2>2, <2>3 DEF Linked, At
<1>2. CASE /\ GrantWrite(h) /\ Finish(h)
           /\ given' = [given EXCEPT ![handler[h].payment] = @ + 1]
  <2> DEFINE p == handler[h].payment
             u == grants[h].user
  <2>1. /\ At(h, "granting") /\ p \in Payments /\ u = Payer[p] /\ u \in Users
        /\ grants[h].pc = "writing"
    BY <1>0, <1>2, PaymentsAssumption
    DEF GrantWrite, GrantStep, LinkInv, PayInv, OnTheWay, At, Linked
  <2>2. /\ grants'[h] = NoGrant /\ \A k \in Handlers : k # h => grants'[k] = grants[k]
    BY <1>0, <1>2 DEF GrantWrite, SubTypeOK, Handlers
  <2>3. Others(h)
    BY <1>0, <1>2, FinishMoves
  <2>4. /\ given'[p] > 0 /\ \A q \in Payments : given[q] > 0 => given'[q] > 0
    BY <1>0, <1>2, <2>1 DEF PayTyped
  <2>5. /\ granted'[u] > 0
        /\ \A v \in Users : granted[v] > 0 => granted'[v] > 0
        /\ \A v \in Users : v # u => granted'[v] = granted[v]
    BY <1>0, <1>2, <2>1 DEF GrantWrite, SubTypeOK
  <2> HIDE DEF p, u
  <2>6. \A k \in Handlers : grants'[k].pc # "idle" =>
          At(k, "granting")' /\ grants'[k].user = Payer[handler'[k].payment]
    BY <1>0, <2>2, <2>3 DEF Linked, At, Others, NoGrant
  <2>7. \A v \in Users : granted'[v] > 0 => \E q \in Payments : Payer[q] = v /\ given'[q] > 0
    BY <1>0, <2>1, <2>4, <2>5 DEF Linked
  <2>8. \A s \in Subs : \/ subs'[s].status = subs[s].status /\ subs'[s].user = subs[s].user
                        \/ subs'[s].user = u
    <3>1. CASE grants[h].row # Null /\ subs' = [subs EXCEPT ![grants[h].row].endsAt = grants[h].end]
      BY <1>0, <3>1 DEF SubTypeOK, Rows
    <3>2. CASE \E s \in Unused : subs' = [subs EXCEPT ![s] = NewRow(grants[h])]
      <4>1. PICK s \in Unused : subs' = [subs EXCEPT ![s] = NewRow(grants[h])]
        BY <3>2
      <4>2. NewRow(grants[h]).user = u
        BY DEF NewRow, u
      <4> HIDE DEF NewRow
      <4> QED BY <1>0, <4>1, <4>2 DEF SubTypeOK, Unused
    <3> QED BY <1>2, <3>1, <3>2 DEF GrantWrite, Write
  <2>9. \A s \in Subs : subs'[s].status # "NONE" =>
          subs'[s].user \in Users /\ granted'[subs'[s].user] > 0
    BY <1>0, <2>1, <2>5, <2>8 DEF Linked
  <2> QED BY <2>6, <2>7, <2>9 DEF Linked
<1> QED BY <1>1, <1>2 DEF GrantStep

LEMMA AroundLinks == ASSUME LinkInv, Around PROVE Linked'
<1>1. SubTypeOK /\ Linked /\ UNCHANGED <<grants, granted, handler, given>>
  BY DEF LinkInv, DaysInv, GrantInv, Around, expireDue, Tick, payVars
<1>2. \A s \in Subs : /\ subs'[s].user = subs[s].user
                      /\ subs'[s].status # "NONE" => subs[s].status # "NONE"
  <2>1. CASE Tick
    BY <2>1 DEF Tick
  <2>2. CASE expireDue
    BY <1>1, <2>2 DEF expireDue, SubTypeOK, Rows, Due
  <2> QED BY <2>1, <2>2 DEF Around
<1> QED BY <1>1, <1>2 DEF Linked, At

LEMMA LinkStep == LinkInv /\ [PayNext]_vars => LinkInv'
<1> SUFFICES ASSUME LinkInv, [PayNext]_vars PROVE Linked'
  BY PayInvStep, DaysStep DEF LinkInv
<1>0. PayTyped /\ Linked
  BY DEF LinkInv, PayInv
<1>1. ASSUME NEW h \in Handlers, HandlerStep(h) PROVE Linked'
  <2>1. CASE \/ CreatePayment(h) \/ CreatePaymentFails(h) \/ StoreTxnId(h)
             \/ MarkSucceededRead(h) \/ MarkFailed(h)
    <3>1. /\ UNCHANGED <<subVars, given>> /\ ~At(h, "granting")
          /\ Finish(h) \/ \E pc \in Pcs : Goto(h, pc)
      BY <2>1 DEF CreatePayment, CreatePaymentFails, StoreTxnId, MarkSucceededRead, MarkFailed,
                  At, Pcs
    <3>2. Others(h)
      BY <1>0, <3>1, FinishMoves, GotoMoves
    <3> QED BY <1>0, <3>1, <3>2, QuietLinks DEF Others, Linked, subVars
  <2> QED BY <1>1, <2>1, PaidLinks, GrantLinks DEF HandlerStep
<1>2. ASSUME NEW h \in Handlers, NEW p \in Payments, Request(h, p) PROVE Linked'
  <2>1. /\ UNCHANGED <<subVars, given>>
        /\ \E via \in Vias, pc \in Pcs : Start(h, via, pc, p)
    BY <1>2 DEF Request, Checkout, Webhook, MarkManuallyPaid, Notifier, Pcs, Vias
  <2>2. Others(h) /\ At(h, "idle")
    BY <1>0, <2>1, StartMoves
  <2> QED BY <1>0, <2>1, <2>2, QuietLinks DEF Others, Linked, subVars, At
<1>3. CASE \E p \in Payments : Settle(p) \/ WebhookIgnored(p)
  BY <1>3, QuietLinks DEF Settle, WebhookIgnored, subVars
<1>4. CASE Crash
  BY <1>4, QuietLinks DEF Crash, NoGrant, Handlers
<1>5. CASE UNCHANGED vars
  BY <1>5, QuietLinks DEF vars, subVars, payVars
<1> QED BY <1>1, <1>2, <1>3, <1>4, <1>5, AroundLinks DEF PayNext

LEMMA InitLinks == Init => LinkInv
<1> SUFFICES ASSUME Init PROVE Linked
  BY InitPayInv, InitDays DEF Init, LinkInv
<1> QED BY PaymentsAssumption, SubscriptionsAssumption
    DEF Init, SubInit, Linked, NoGrant, NoRow, Handlers

(* Who has a live subscription has a payment of his own that was granted.  *)
LEMMA SubscribersAreGranted ==
  ASSUME LinkInv, NEW u \in Users, getActive(u) # {}
  PROVE  \E p \in Payments : Payer[p] = u /\ given[p] > 0
<1>1. PICK s \in Subs : subs[s].user = u /\ subs[s].status # "NONE"
  BY DEF getActive, Live
<1> QED BY <1>1 DEF LinkInv, Linked

(* From the gateway to the subscription: whatever requests, crashes, late  *)
(* and repeated notifications, whatever these name, and the sweep do,      *)
(* access comes of a payment of the same user with which a transaction was *)
(* named that the gateway confirms as paid.                                *)
THEOREM AccessIsPaid == PaySpec => []ServedHavePaid
<1>1. LinkInv => ServedHavePaid
  BY SubscribersAreGranted DEF ServedHavePaid, LinkInv, PayInv, NothingForFree
<1> QED BY <1>1, InitLinks, LinkStep, PTL DEF PaySpec
===============================================================================
