------------------------------ MODULE ConsoleProofs ---------------------------
(***************************************************************************)
(* Theorems about what admins work with: Routes, for every set of groups,  *)
(* blocks and publishers; Catalogue, for every set of countries, tariffs   *)
(* and tabs; ServersPage, for every set of servers, intervals and polls.   *)
(***************************************************************************)
EXTENDS Routes, Catalogue, ServersPage, TLAPS

\* A publisher's record: it finds entries of the groups it is done with.
RecordOK(r) ==
  /\ r \in PubRecords
  /\ r.base <= version /\ r.todo \subseteq r.groups
  /\ \A e \in r.found : e.group \in r.groups \ r.todo

\* What a publisher holds while it resolves.  As long as no version was
\* published since it read the list, prev is the list, and a group that it is done
\* with is found if the list has it.
Working(r) ==
  /\ r.pc # "resolving" => r.found = {}
  /\ r.pc = "resolving" /\ r.base = version =>
       /\ r.prev = entries
       /\ \A g \in r.groups \ r.todo : Of(g, entries) # {} => Of(g, r.found) # {}

ListTyped ==
  /\ group \in [Groups -> GroupStates]
  /\ version \in Nat /\ entries \subseteq Entries

RoutesInv == /\ ListTyped
             /\ pub \in [Publishers -> PubRecords]
             /\ \A p \in Publishers : RecordOK(pub[p]) /\ Working(pub[p])

LEMMA RestingOK == ASSUME version \in Nat PROVE RecordOK(Resting) /\ Working(Resting)
BY DEF RecordOK, Working, Resting, PubRecords

LEMMA InitInv == RoutesInit => RoutesInv
<1> SUFFICES ASSUME RoutesInit PROVE RoutesInv
  OBVIOUS
<1>1. ListTyped
  BY DEF RoutesInit, ListTyped, GroupStates
<1>2. RecordOK(Resting) /\ Working(Resting)
  BY RestingOK DEF RoutesInit
<1>3. pub \in [Publishers -> PubRecords] /\ \A p \in Publishers : pub[p] = Resting
  BY <1>2 DEF RoutesInit, RecordOK
<1> QED BY <1>1, <1>2, <1>3 DEF RoutesInv

-------------------------------------------------------------------------------
\* A step that leaves the list alone and gives one publisher a new record.
LEMMA RecordStep ==
  ASSUME RoutesInv, NEW p \in Publishers, NEW r,
         pub' = [pub EXCEPT ![p] = r], UNCHANGED <<group, version, entries>>,
         RecordOK(r), Working(r)
  PROVE  RoutesInv'
<1>1. pub' \in [Publishers -> PubRecords]
  BY DEF RoutesInv, RecordOK
<1>2. ASSUME NEW q \in Publishers PROVE (RecordOK(pub[q]) /\ Working(pub[q]))'
  <2>1. CASE q = p
    BY <2>1 DEF RoutesInv, RecordOK, Working, Of
  <2>2. CASE q # p
    BY <2>2 DEF RoutesInv, RecordOK, Working, Of
  <2> QED BY <2>1, <2>2
<1> QED BY <1>1, <1>2 DEF RoutesInv, ListTyped

\* A step that only changes groups.
LEMMA GroupStep ==
  ASSUME RoutesInv, NEW g \in Groups, NEW s \in GroupStates, Switch(g, s)
  PROVE  RoutesInv'
<1>1. ListTyped'
  BY DEF RoutesInv, ListTyped, Switch
<1>2. ASSUME NEW q \in Publishers PROVE (RecordOK(pub[q]) /\ Working(pub[q]))'
  BY DEF RoutesInv, RecordOK, Working, Of, Switch
<1> QED BY <1>1, <1>2 DEF RoutesInv, Switch

LEMMA ReadGroupsOK ==
  ASSUME RoutesInv, NEW p \in Publishers, ReadGroups(p) PROVE RoutesInv'
<1>1. PICK r : r = [Resting EXCEPT !.pc = "reading",
                                   !.groups = {g \in Groups : group[g] = "enabled"}]
  OBVIOUS
<1>2. PICK groups \in SUBSET Groups : groups = {g \in Groups : group[g] = "enabled"}
  OBVIOUS
<1>3. r = [pc |-> "reading", groups |-> groups, base |-> 0, prev |-> {}, todo |-> {}, found |-> {}]
  BY <1>1, <1>2 DEF Resting
<1>4. RecordOK(r) /\ Working(r)
  BY <1>3 DEF RecordOK, Working, PubRecords, RoutesInv, ListTyped
<1> QED BY <1>1, <1>4, RecordStep DEF ReadGroups

LEMMA GetCurrentOK ==
  ASSUME RoutesInv, NEW p \in Publishers, getCurrentVersion(p) PROVE RoutesInv'
<1>1. PICK r : r = [pub[p] EXCEPT !.pc = "resolving", !.base = version,
                                  !.prev = entries, !.todo = pub[p].groups]
  OBVIOUS
<1>2. pub' = [pub EXCEPT ![p] = r] /\ UNCHANGED <<group, version, entries>>
  BY <1>1 DEF getCurrentVersion
<1>3. RecordOK(pub[p]) /\ pub[p].found = {}
  BY DEF RoutesInv, Working, getCurrentVersion
<1>4. r = [pc |-> "resolving", groups |-> pub[p].groups, base |-> version,
           prev |-> entries, todo |-> pub[p].groups, found |-> {}]
  BY <1>1, <1>3 DEF RecordOK, PubRecords
<1>5. RecordOK(r) /\ Working(r)
  BY <1>3, <1>4 DEF RecordOK, Working, PubRecords, RoutesInv, ListTyped
<1> QED BY <1>2, <1>5, RecordStep

LEMMA ResolveOK ==
  ASSUME RoutesInv, NEW p \in Publishers, NEW g \in Groups, NEW cidrs \in SUBSET Cidrs,
         Resolve(p, g, cidrs)
  PROVE  RoutesInv'
<1>1. PICK r : r = [pub[p] EXCEPT !.todo = pub[p].todo \ {g},
                                  !.found = pub[p].found \cup GroupEntries(p, g, cidrs)]
  OBVIOUS
<1>2. pub' = [pub EXCEPT ![p] = r] /\ UNCHANGED <<group, version, entries>>
  BY <1>1 DEF Resolve, RoutesInv, PubRecords
<1>3. RecordOK(pub[p]) /\ Working(pub[p]) /\ pub[p].pc = "resolving" /\ g \in pub[p].todo
  BY DEF RoutesInv, Resolve
<1>4. GroupEntries(p, g, cidrs) \subseteq Of(g, Entries)
  BY <1>3 DEF GroupEntries, Of, RecordOK, PubRecords, Entries
<1>5. Of(g, pub[p].prev) # {} => Of(g, GroupEntries(p, g, cidrs)) # {}
  <2>1. CASE cidrs = {}
    BY <2>1 DEF GroupEntries, Of
  <2>2. CASE cidrs # {}
    <3>1. PICK c \in cidrs : TRUE
      BY <2>2
    <3>2. [group |-> g, cidr |-> c] \in Of(g, GroupEntries(p, g, cidrs))
      BY <2>2, <3>1 DEF GroupEntries, Of
    <3> QED BY <3>2
  <2> QED BY <2>1, <2>2
<1>6. RecordOK(r)
  BY <1>1, <1>3, <1>4 DEF RecordOK, PubRecords, Of
<1>7. Working(r)
  <2>1. /\ r.pc = "resolving" /\ r.base = pub[p].base /\ r.prev = pub[p].prev
        /\ r.groups = pub[p].groups /\ r.todo = pub[p].todo \ {g}
        /\ r.found = pub[p].found \cup GroupEntries(p, g, cidrs)
    BY <1>1, <1>3 DEF RecordOK, PubRecords
  <2> SUFFICES ASSUME r.base = version
               PROVE  /\ r.prev = entries
                      /\ \A f \in r.groups \ r.todo : Of(f, entries) # {} => Of(f, r.found) # {}
    BY <2>1 DEF Working
  <2>2. /\ pub[p].prev = entries
        /\ \A f \in pub[p].groups \ pub[p].todo : Of(f, entries) # {} => Of(f, pub[p].found) # {}
    BY <1>3, <2>1 DEF Working
  <2>3. \A f : Of(f, pub[p].found) \cup Of(f, GroupEntries(p, g, cidrs)) = Of(f, r.found)
    BY <2>1 DEF Of
  <2> QED BY <1>5, <2>1, <2>2, <2>3
<1> QED BY <1>2, <1>6, <1>7, RecordStep

\* A version that is published has an entry at least, or is the first, and one of
\* each group that the list had and the publisher has found enabled.
LEMMA PublishFacts ==
  ASSUME RoutesInv, NEW p \in Publishers, Publish(p), version' # version \/ entries' # entries
  PROVE  /\ version' = version + 1 /\ entries' = pub[p].found /\ entries' \subseteq Entries
         /\ entries # {} => entries' # {}
         /\ version > 0 => entries' # entries
         /\ \A g \in pub[p].groups : Of(g, entries) # {} => Of(g, entries') # {}
<1>1. /\ ~Keeps(p) /\ pub[p].base = version
      /\ version' = version + 1 /\ entries' = pub[p].found
      /\ pub[p].pc = "resolving" /\ pub[p].todo = {}
  BY DEF Publish, Unique
<1>2. RecordOK(pub[p]) /\ Working(pub[p])
  BY DEF RoutesInv
<1>3. /\ pub[p].prev = entries
      /\ \A g \in pub[p].groups : Of(g, entries) # {} => Of(g, pub[p].found) # {}
  BY <1>1, <1>2 DEF Working
<1>4. pub[p].found \subseteq Entries
  BY <1>2 DEF RecordOK, PubRecords
<1> QED BY <1>1, <1>3, <1>4 DEF Keeps

LEMMA PublishOK ==
  ASSUME RoutesInv, NEW p \in Publishers, Publish(p) PROVE RoutesInv'
<1>1. RecordOK(Resting) /\ Working(Resting)
  BY RestingOK DEF RoutesInv, ListTyped
<1>2. pub' = [pub EXCEPT ![p] = Resting] /\ UNCHANGED group
  BY DEF Publish
<1>3. CASE UNCHANGED <<version, entries>>
  <2>1. PICK r : r = Resting
    OBVIOUS
  <2> QED BY <1>1, <1>2, <1>3, <2>1, RecordStep
<1>4. CASE version' # version \/ entries' # entries
  <2>1. version' = version + 1 /\ entries' \subseteq Entries /\ version \in Nat
    BY <1>4, PublishFacts DEF RoutesInv, ListTyped
  <2>2. ListTyped'
    BY <1>2, <2>1 DEF RoutesInv, ListTyped
  <2>3. pub' \in [Publishers -> PubRecords]
    BY <1>1, <1>2 DEF RoutesInv, RecordOK
  <2>4. ASSUME NEW q \in Publishers PROVE (RecordOK(pub[q]) /\ Working(pub[q]))'
    <3>1. CASE q = p
      <4>1. pub'[q] = Resting
        BY <1>2, <3>1 DEF RoutesInv
      <4> QED BY <2>1, <4>1 DEF RecordOK, Working, Resting, PubRecords
    <3>2. CASE q # p
      <4>1. pub'[q] = pub[q] /\ RecordOK(pub[q]) /\ Working(pub[q])
        BY <1>2, <3>2 DEF RoutesInv
      <4>2. pub[q].base \in Nat /\ pub[q].base <= version
        BY <4>1 DEF RecordOK, PubRecords
      <4>3. pub[q].base # version' /\ pub[q].base <= version'
        BY <2>1, <4>2
      <4> QED BY <4>1, <4>3 DEF RecordOK, Working
    <3> QED BY <3>1, <3>2
  <2> QED BY <2>2, <2>3, <2>4 DEF RoutesInv
<1> QED BY <1>3, <1>4

LEMMA PublisherFailsOK ==
  ASSUME RoutesInv, NEW p \in Publishers, PublisherFails(p) PROVE RoutesInv'
<1>1. PICK r : r = Resting
  OBVIOUS
<1>2. RecordOK(r) /\ Working(r)
  BY <1>1, RestingOK DEF RoutesInv, ListTyped
<1> QED BY <1>1, <1>2, RecordStep DEF PublisherFails

LEMMA NextInv == RoutesInv /\ [RoutesNext]_routesVars => RoutesInv'
<1> SUFFICES ASSUME RoutesInv, [RoutesNext]_routesVars PROVE RoutesInv'
  OBVIOUS
<1>1. ASSUME NEW g \in Groups, NEW s \in {"enabled", "disabled"},
             upsertGroup(g, s) \/ setEnabled(g, s)
      PROVE  RoutesInv'
  BY <1>1, GroupStep DEF upsertGroup, setEnabled, GroupStates
<1>2. ASSUME NEW g \in Groups, Seed(g) PROVE RoutesInv'
  BY <1>2, GroupStep DEF Seed, GroupStates
<1>3. ASSUME NEW p \in Publishers,
             \/ ReadGroups(p) \/ getCurrentVersion(p) \/ Publish(p) \/ PublisherFails(p)
             \/ \E g \in Groups, cidrs \in SUBSET Cidrs : Resolve(p, g, cidrs)
      PROVE  RoutesInv'
  BY <1>3, ReadGroupsOK, GetCurrentOK, ResolveOK, PublishOK, PublisherFailsOK
<1>4. CASE UNCHANGED routesVars
  BY <1>4 DEF routesVars, RoutesInv, ListTyped, RecordOK, Working, Of
<1> QED BY <1>1, <1>2, <1>3, <1>4 DEF RoutesNext

\* The list changes when it is published, and then only.
LEMMA OnlyPublish ==
  ASSUME RoutesInv, [RoutesNext]_routesVars, version' # version \/ entries' # entries
  PROVE  \E p \in Publishers : Publish(p)
BY DEF RoutesNext, routesVars, Switch, upsertGroup, setEnabled, Seed, ReadGroups, getCurrentVersion,
       Resolve, PublisherFails

-------------------------------------------------------------------------------
LEMMA InvAlways == RoutesSpec => []RoutesInv
BY InitInv, NextInv, PTL DEF RoutesSpec

\* Types, and that a publisher finds entries of groups it has read as enabled and
\* resolved.
THEOREM RoutesTypeCorrect == RoutesSpec => []RoutesTypeOK
<1>1. RoutesInv => RoutesTypeOK
  BY DEF RoutesInv, RoutesTypeOK, ListTyped, RecordOK
<1> QED BY <1>1, InvAlways, PTL

\* However many publishers run, admins switch groups, names fail to resolve and
\* publishers fail: a list with entries is replaced by lists with entries only.
THEOREM ListIsNeverEmptied == RoutesSpec => NeverEmptied
<1>1. RoutesInv /\ [RoutesNext]_routesVars => [entries # {} => entries' # {}]_routesVars
  BY OnlyPublish, PublishFacts
<1> QED BY <1>1, InvAlways, PTL DEF RoutesSpec, NeverEmptied

\* A group is left out of the next version only by a publisher that found it
\* disabled.
THEOREM WorkingGroupsAreKept == RoutesSpec => WorkingGroupKept
<1> DEFINE Kept == \A g \in Groups :
             Of(g, entries) # {} /\ Of(g, entries') = {} =>
               \E p \in Publishers : Publish(p) /\ g \notin pub[p].groups
<1>1. RoutesInv /\ [RoutesNext]_routesVars => [Kept]_routesVars
  <2> SUFFICES ASSUME RoutesInv, [RoutesNext]_routesVars,
                      NEW g \in Groups, Of(g, entries) # {}, Of(g, entries') = {}
               PROVE  \E p \in Publishers : Publish(p) /\ g \notin pub[p].groups
    OBVIOUS
  <2>1. entries' # entries
    BY DEF Of
  <2>2. PICK p \in Publishers : Publish(p)
    BY <2>1, OnlyPublish
  <2> QED BY <2>1, <2>2, PublishFacts
<1> QED BY <1>1, InvAlways, PTL DEF RoutesSpec, WorkingGroupKept

\* Versions are numbered one by one and each differs from the one before.
THEOREM VersionsDiffer == RoutesSpec => NoChurn
<1> DEFINE Differs == version' # version => version' = version + 1 /\ (version > 0 => entries' # entries)
<1>1. RoutesInv /\ [RoutesNext]_routesVars => [Differs]_routesVars
  BY OnlyPublish, PublishFacts
<1> QED BY <1>1, InvAlways, PTL DEF RoutesSpec, NoChurn

-------------------------------------------------------------------------------
\* Catalogue.  A PATCH carries the switch that was clicked and no other.  No tariff
\* has the country that a request has found unused, unless the request is raced.
RequestOK(r) ==
  /\ r = [pc |-> r.pc, id |-> r.id, set |-> r.set, click |-> r.click, raced |-> r.raced]
  /\ r.pc \in {"ready", "patching", "checked", "changed"} /\ r.raced \in BOOLEAN
  /\ r.pc = "patching" => r.id \in Tariffs /\ r.click \in Switches /\ r.set \in [{r.click} -> BOOLEAN]
  /\ r.pc = "checked" => r.id \in Countries /\ (r.raced \/ \A t \in Tariffs : r.id \notin tariff[t].allowed)

RowsOK ==
  /\ code \in [Countries -> Codes \cup {Unset}]
  /\ tariff \in [Tariffs -> TariffRow]
  /\ hostIn \in [Hosts -> Countries \cup {Unset}]
  /\ meant \in [Tariffs -> [Switches -> BOOLEAN]]
  /\ \A t \in Tariffs : tariff[t].is = "none" => tariff[t].allowed = {}
  /\ SwitchesMeant

TabsOK == /\ do = [a \in Tabs |-> do[a]] /\ unrecorded \in Nat
          /\ \A a \in Tabs : RequestOK(do[a])

CatalogueInv == RowsOK /\ TabsOK

LEMMA ReadyOK == RequestOK(Ready)
BY DEF RequestOK, Ready

LEMMA SeededCodes == CatalogueInit => code \in [Countries -> Codes \cup {Unset}]
<1> DEFINE Seeding(f) == \A k \in Codes : Cardinality({c \in Countries : f[c] = k}) = 1
<1>1. \E f \in [Countries -> Codes \cup {Unset}] : Seeding(f)
  BY CatalogueAssumption
<1>2. CatalogueInit => code = CHOOSE f \in [Countries -> Codes \cup {Unset}] : Seeding(f)
  BY DEF CatalogueInit
<1> HIDE DEF Seeding
<1> QED BY <1>1, <1>2

LEMMA CatalogueInitOK == ASSUME CatalogueInit PROVE CatalogueInv
<1>1. PICK starter : tariff = [t \in Tariffs |-> [is |-> IF t = starter THEN "there" ELSE "none",
                                on |-> AllOn, allowed |-> IF t = starter THEN There ELSE {}]]
  BY DEF CatalogueInit
<1>2. There \subseteq Countries /\ AllOn \in [Switches -> BOOLEAN]
  BY DEF There, AllOn
<1>3. tariff \in [Tariffs -> TariffRow]
  BY <1>1, <1>2 DEF TariffRow
<1>4. meant = [t \in Tariffs |-> AllOn] /\ hostIn = [s \in Hosts |-> Unset]
  BY DEF CatalogueInit
<1>5. SwitchesMeant /\ \A t \in Tariffs : tariff[t].is = "none" => tariff[t].allowed = {}
  BY <1>1, <1>4 DEF SwitchesMeant
<1>6. RowsOK
  BY <1>2, <1>3, <1>4, <1>5, SeededCodes DEF RowsOK
<1>7. TabsOK
  BY ReadyOK DEF CatalogueInit, TabsOK
<1> QED BY <1>6, <1>7 DEF CatalogueInv

\* A request ends, or becomes another one.
LEMMA TabStep ==
  ASSUME CatalogueInv, NEW a \in Tabs, NEW r, RequestOK(r), do' = [do EXCEPT ![a] = r],
         unrecorded' \in Nat, UNCHANGED rows
  PROVE  CatalogueInv'
<1>1. RowsOK'
  BY DEF CatalogueInv, RowsOK, rows, SwitchesMeant
<1>2. \A b \in Tabs : do'[b] = IF b = a THEN r ELSE do[b]
  BY DEF CatalogueInv, TabsOK
<1>3. \A b \in Tabs : RequestOK(do[b])'
  BY <1>2 DEF CatalogueInv, TabsOK, RequestOK, rows
<1>4. do' = [b \in Tabs |-> do'[b]]
  BY DEF CatalogueInv, TabsOK
<1> QED BY <1>1, <1>3, <1>4 DEF CatalogueInv, TabsOK

\* A change of the tables: requests that have found a country unused are raced if a
\* tariff may have got it.
LEMMA ChangedStep ==
  ASSUME CatalogueInv, NEW a \in Tabs, NEW connected \in SUBSET Countries, Changed(a, connected), RowsOK',
         \A t \in Tariffs : tariff'[t].allowed \subseteq tariff[t].allowed \cup connected
  PROVE  CatalogueInv'
<1>1. do' = [b \in Tabs |-> IF b = a THEN [Ready EXCEPT !.pc = "changed"]
                ELSE [do[b] EXCEPT !.raced = do[b].raced \/ (do[b].pc = "checked" /\ do[b].id \in connected)]]
  BY DEF Changed, CatalogueInv, TabsOK, RequestOK
<1>2. do' = [b \in Tabs |-> do'[b]]
  BY <1>1
<1>3. ASSUME NEW b \in Tabs PROVE RequestOK(do[b])'
  <2>1. CASE b = a
    <3>1. do'[b] = [pc |-> "changed", id |-> Unset, set |-> <<>>, click |-> Unset, raced |-> FALSE]
      BY <1>1, <2>1 DEF Ready
    <3> QED BY <3>1 DEF RequestOK
  <2>2. CASE b # a
    <3>1. RequestOK(do[b])
      BY DEF CatalogueInv, TabsOK
    <3>2. PICK raced \in BOOLEAN : raced = (do[b].raced \/ (do[b].pc = "checked" /\ do[b].id \in connected))
      OBVIOUS
    <3>3. do'[b] = [do[b] EXCEPT !.raced = raced]
      BY <1>1, <2>2, <3>2
    <3>4. do'[b] = [pc |-> do[b].pc, id |-> do[b].id, set |-> do[b].set, click |-> do[b].click,
                    raced |-> raced]
      BY <3>1, <3>3 DEF RequestOK
    <3>5. do[b].pc = "checked" =>
            do[b].id \in Countries /\ (raced \/ \A t \in Tariffs : do[b].id \notin tariff'[t].allowed)
      BY <3>1, <3>2 DEF RequestOK
    <3> QED BY <3>1, <3>4, <3>5 DEF RequestOK
  <2> QED BY <2>1, <2>2
<1>4. unrecorded' \in Nat
  BY DEF Changed, CatalogueInv, TabsOK
<1> QED BY <1>2, <1>3, <1>4 DEF CatalogueInv, TabsOK

\* Requests that are sent, end or fail.
LEMMA SendOK ==
  ASSUME CatalogueInv, NEW a \in Tabs,
         \/ \E t \in Tariffs, f \in Switches, shown \in [Switches -> BOOLEAN] : Toggle(a, t, f, shown)
         \/ \E c \in Countries : CountryUnused(a, c)
         \/ record(a) \/ RequestFails(a)
  PROVE  CatalogueInv'
<1>1. unrecorded \in Nat
  BY DEF CatalogueInv, TabsOK
<1>2. ASSUME NEW t \in Tariffs, NEW f \in Switches, NEW shown \in [Switches -> BOOLEAN], Toggle(a, t, f, shown)
      PROVE  CatalogueInv'
  <2>1. PICK set \in [{f} -> BOOLEAN] : set = [x \in {f} |-> ~shown[f]]
    OBVIOUS
  <2>2. PICK r : r = [Ready EXCEPT !.pc = "patching", !.id = t, !.click = f, !.set = set]
    OBVIOUS
  <2>3. do' = [do EXCEPT ![a] = r] /\ UNCHANGED <<rows, unrecorded>>
    BY <1>2, <2>1, <2>2 DEF Toggle, Send
  <2>4. r = [pc |-> "patching", id |-> t, set |-> set, click |-> f, raced |-> FALSE]
    BY <2>2 DEF Ready
  <2>5. RequestOK(r)
    BY <2>4 DEF RequestOK
  <2> QED BY <1>1, <2>3, <2>5, TabStep
<1>3. ASSUME NEW c \in Countries, CountryUnused(a, c) PROVE CatalogueInv'
  <2>1. PICK r : r = [Ready EXCEPT !.pc = "checked", !.id = c]
    OBVIOUS
  <2>2. do' = [do EXCEPT ![a] = r] /\ UNCHANGED <<rows, unrecorded>> /\ Using(c) = {}
    BY <1>3, <2>1 DEF CountryUnused, Send
  <2>3. r = [pc |-> "checked", id |-> c, set |-> <<>>, click |-> Unset, raced |-> FALSE]
    BY <2>1 DEF Ready
  <2>4. RequestOK(r)
    BY <2>2, <2>3 DEF RequestOK, Using
  <2> QED BY <1>1, <2>2, <2>4, TabStep
<1>4. ASSUME record(a) \/ RequestFails(a) PROVE CatalogueInv'
  <2>1. PICK r : r = Ready
    OBVIOUS
  <2>2. do' = [do EXCEPT ![a] = r] /\ UNCHANGED rows /\ unrecorded' \in Nat
    BY <1>1, <1>4, <2>1 DEF record, RequestFails
  <2> QED BY <2>1, <2>2, ReadyOK, TabStep
<1> QED BY <1>2, <1>3, <1>4

\* A row of tariffs, and what a statement that writes one does to the table.
LEMMA TariffFields ==
  ASSUME RowsOK, NEW t \in Tariffs
  PROVE  /\ tariff[t] \in TariffRow /\ tariff[t].on \in [Switches -> BOOLEAN]
         /\ tariff[t].is \in {"none", "there", "archived"} /\ tariff[t].allowed \subseteq Countries
<1>1. tariff[t] \in TariffRow
  BY DEF RowsOK
<1> QED BY <1>1 DEF TariffRow

LEMMA RowWritten ==
  ASSUME RowsOK, NEW t \in Tariffs, NEW x \in TariffRow, tariff' = [tariff EXCEPT ![t] = x]
  PROVE  /\ tariff' \in [Tariffs -> TariffRow]
         /\ \A u \in Tariffs : tariff'[u] = IF u = t THEN x ELSE tariff[u]
<1>1. tariff \in [Tariffs -> TariffRow]
  BY DEF RowsOK
<1> QED BY <1>1

LEMMA createTariffOK ==
  ASSUME CatalogueInv, NEW a \in Tabs, NEW t \in Tariffs, NEW cs \in SUBSET Countries, createTariff(a, t, cs)
  PROVE  CatalogueInv'
<1>1. PICK on \in [Switches -> BOOLEAN] :
        /\ tariff' = [tariff EXCEPT ![t] = [is |-> "there", on |-> on, allowed |-> cs]]
        /\ meant'  = [meant EXCEPT ![t] = on]
  BY DEF createTariff
<1>2. RowsOK /\ UNCHANGED <<code, hostIn>> /\ Changed(a, cs)
  BY DEF createTariff, CatalogueInv
<1>3. \A u \in Tariffs : /\ tariff'[u] = IF u = t THEN [is |-> "there", on |-> on, allowed |-> cs] ELSE tariff[u]
                         /\ meant'[u] = IF u = t THEN on ELSE meant[u]
  BY <1>1, <1>2 DEF RowsOK
<1>4. tariff' \in [Tariffs -> TariffRow] /\ meant' \in [Tariffs -> [Switches -> BOOLEAN]]
  <2>1. PICK x \in TariffRow : x = [is |-> "there", on |-> on, allowed |-> cs]
    BY DEF TariffRow
  <2>2. tariff' = [tariff EXCEPT ![t] = x]
    BY <1>1, <2>1
  <2>3. tariff' \in [Tariffs -> TariffRow]
    BY <1>2, <2>1, <2>2, RowWritten
  <2>4. meant' \in [Tariffs -> [Switches -> BOOLEAN]]
    BY <1>1, <1>2 DEF RowsOK
  <2> QED BY <2>3, <2>4
<1>5. SwitchesMeant' /\ \A u \in Tariffs : tariff'[u].is = "none" => tariff'[u].allowed = {}
  <2>1. SwitchesMeant'
    BY <1>2, <1>3 DEF RowsOK, SwitchesMeant
  <2>2. ASSUME NEW u \in Tariffs, tariff'[u].is = "none" PROVE tariff'[u].allowed = {}
    BY <1>2, <1>3, <2>2 DEF RowsOK
  <2> QED BY <2>1, <2>2
<1>6. RowsOK'
  BY <1>2, <1>4, <1>5 DEF RowsOK
<1> QED BY <1>2, <1>3, <1>6, ChangedStep

LEMMA setAllowedOK ==
  ASSUME CatalogueInv, NEW a \in Tabs, NEW t \in Tariffs, NEW cs \in SUBSET Countries, setAllowed(a, t, cs)
  PROVE  CatalogueInv'
<1>1. /\ RowsOK /\ UNCHANGED <<code, hostIn, meant>> /\ Changed(a, cs) /\ tariff[t].is # "none"
      /\ tariff' = [tariff EXCEPT ![t].allowed = cs]
  BY DEF setAllowed, CatalogueInv
<1>2. PICK x \in TariffRow : x = [is |-> tariff[t].is, on |-> tariff[t].on, allowed |-> cs]
  BY <1>1, TariffFields DEF TariffRow
<1>3. x = [tariff[t] EXCEPT !.allowed = cs]
  <2>1. tariff[t] \in TariffRow
    BY <1>1, TariffFields
  <2> QED BY <1>2, <2>1 DEF TariffRow
<1>4. tariff' = [tariff EXCEPT ![t] = x]
  BY <1>1, <1>3
<1>5. /\ tariff' \in [Tariffs -> TariffRow]
      /\ \A u \in Tariffs : tariff'[u] = IF u = t THEN x ELSE tariff[u]
  BY <1>1, <1>4, RowWritten
<1>6. \A u \in Tariffs : /\ tariff'[u].is = tariff[u].is /\ tariff'[u].on = tariff[u].on
                         /\ tariff'[u].allowed = IF u = t THEN cs ELSE tariff[u].allowed
  BY <1>2, <1>5
<1>7. RowsOK'
  <2>1. /\ code' = code /\ hostIn' = hostIn /\ meant' = meant
        /\ \A u \in Tariffs : tariff'[u].is = "none" => tariff'[u].allowed = {}
    BY <1>1, <1>6 DEF RowsOK
  <2>2. SwitchesMeant'
    BY <1>1, <1>6, <2>1 DEF RowsOK, SwitchesMeant
  <2> QED BY <1>1, <1>5, <2>1, <2>2 DEF RowsOK
<1> QED BY <1>1, <1>6, <1>7, ChangedStep

LEMMA archiveOK ==
  ASSUME CatalogueInv, NEW a \in Tabs, NEW t \in Tariffs, archive(a, t) PROVE CatalogueInv'
<1>1. /\ RowsOK /\ UNCHANGED <<code, hostIn, meant>> /\ Changed(a, {})
      /\ tariff' = [tariff EXCEPT ![t].is = "archived"] /\ tariff[t].is # "none"
  BY DEF archive, CatalogueInv
<1>2. PICK x \in TariffRow : x = [is |-> "archived", on |-> tariff[t].on, allowed |-> tariff[t].allowed]
  BY <1>1, TariffFields DEF TariffRow
<1>3. x = [tariff[t] EXCEPT !.is = "archived"]
  <2>1. tariff[t] \in TariffRow
    BY <1>1, TariffFields
  <2> QED BY <1>2, <2>1 DEF TariffRow
<1>4. tariff' = [tariff EXCEPT ![t] = x]
  BY <1>1, <1>3
<1>5. /\ tariff' \in [Tariffs -> TariffRow]
      /\ \A u \in Tariffs : tariff'[u] = IF u = t THEN x ELSE tariff[u]
  BY <1>1, <1>4, RowWritten
<1>6. \A u \in Tariffs : /\ tariff'[u].is = IF u = t THEN "archived" ELSE tariff[u].is
                         /\ tariff'[u].on = tariff[u].on /\ tariff'[u].allowed = tariff[u].allowed
  BY <1>2, <1>5
<1>7. RowsOK'
  <2>1. /\ code' = code /\ hostIn' = hostIn /\ meant' = meant
        /\ \A u \in Tariffs : tariff'[u].is = "none" => tariff'[u].allowed = {}
    BY <1>1, <1>6 DEF RowsOK
  <2>2. SwitchesMeant'
    BY <1>1, <1>6, <2>1 DEF RowsOK, SwitchesMeant
  <2> QED BY <1>1, <1>5, <2>1, <2>2 DEF RowsOK
<1> QED BY <1>1, <1>6, <1>7, ChangedStep

\* Only the switch that was clicked is written, as it was meant.
LEMMA updateTariffOK ==
  ASSUME CatalogueInv, NEW a \in Tabs, updateTariff(a) PROVE CatalogueInv'
<1>1. RowsOK /\ RequestOK(do[a]) /\ do[a].pc = "patching"
  BY DEF CatalogueInv, TabsOK, updateTariff
<1>0. PICK t \in Tariffs, f \in Switches : t = do[a].id /\ f = do[a].click
  BY <1>1 DEF RequestOK
<1>2. PICK set \in [{f} -> BOOLEAN] : set = do[a].set
  BY <1>0, <1>1 DEF RequestOK
<1>4. DOMAIN set = {f} /\ set[f] \in BOOLEAN
  OBVIOUS
<1>3. PICK on \in [Switches -> BOOLEAN] : on = [tariff[t].on EXCEPT ![f] = set[f]]
  <2>1. tariff[t].on \in [Switches -> BOOLEAN]
    BY <1>1, TariffFields
  <2> QED BY <1>4, <2>1
<1>5. /\ tariff' = [tariff EXCEPT ![t].on = on]
      /\ meant' = [meant EXCEPT ![t][f] = set[f]]
      /\ Changed(a, {}) /\ UNCHANGED <<code, hostIn>>
  <2>1. tariff \in [Tariffs -> TariffRow] /\ tariff[t].on \in [Switches -> BOOLEAN]
    BY <1>1, TariffFields DEF RowsOK
  <2>2. on = [x \in Switches |-> IF x \in DOMAIN set THEN set[x] ELSE tariff[t].on[x]]
    BY <1>3, <1>4, <2>1
  <2>3. tariff' = [tariff EXCEPT ![t].on =
                     [x \in Switches |-> IF x \in DOMAIN set THEN set[x] ELSE tariff[t].on[x]]]
    BY <1>0, <1>2, <2>1 DEF updateTariff
  <2>4. tariff' = [tariff EXCEPT ![t].on = on]
    BY <2>2, <2>3
  <2> QED BY <1>0, <1>2, <2>4 DEF updateTariff
<1>6. PICK x \in TariffRow : x = [is |-> tariff[t].is, on |-> on, allowed |-> tariff[t].allowed]
  BY <1>1, TariffFields DEF TariffRow
<1>7. /\ tariff' \in [Tariffs -> TariffRow]
      /\ \A u \in Tariffs : /\ tariff'[u].is = tariff[u].is /\ tariff'[u].allowed = tariff[u].allowed
                            /\ tariff'[u].on = IF u = t THEN on ELSE tariff[u].on
  <2>1. x = [tariff[t] EXCEPT !.on = on]
    <3>1. tariff[t] \in TariffRow
      BY <1>1, TariffFields
    <3> QED BY <1>6, <3>1 DEF TariffRow
  <2>2. tariff' = [tariff EXCEPT ![t] = x]
    BY <1>5, <2>1
  <2>3. /\ tariff' \in [Tariffs -> TariffRow]
        /\ \A u \in Tariffs : tariff'[u] = IF u = t THEN x ELSE tariff[u]
    BY <1>1, <2>2, RowWritten
  <2> QED BY <1>6, <2>3
<1>8. meant' \in [Tariffs -> [Switches -> BOOLEAN]]
      /\ \A u \in Tariffs : meant'[u] = IF u = t THEN [meant[t] EXCEPT ![f] = set[f]] ELSE meant[u]
  <2>1. meant \in [Tariffs -> [Switches -> BOOLEAN]] /\ meant' = [meant EXCEPT ![t][f] = set[f]]
    BY <1>1, <1>5 DEF RowsOK
  <2>2. PICK m \in [Switches -> BOOLEAN] : m = [meant[t] EXCEPT ![f] = set[f]]
    BY <1>4, <2>1
  <2>3. meant' = [meant EXCEPT ![t] = m]
    BY <2>1, <2>2
  <2>4. meant' \in [Tariffs -> [Switches -> BOOLEAN]]
    BY <2>1, <2>3
  <2>5. \A u \in Tariffs : meant'[u] = IF u = t THEN m ELSE meant[u]
    BY <2>1, <2>3
  <2> QED BY <2>2, <2>4, <2>5
<1>9. on = [meant[t] EXCEPT ![f] = set[f]] /\ \A u \in Tariffs : tariff[u].on = meant[u]
  BY <1>1, <1>3 DEF RowsOK, SwitchesMeant
<1>10. SwitchesMeant'
  BY <1>7, <1>8, <1>9 DEF SwitchesMeant
<1>11. RowsOK'
  BY <1>1, <1>5, <1>7, <1>8, <1>10 DEF RowsOK
<1> QED BY <1>5, <1>7, <1>11, ChangedStep

\* Countries come, change their code and go.
LEMMA CodeOK ==
  ASSUME CatalogueInv, NEW c \in Countries, NEW k \in Codes, code' = [code EXCEPT ![c] = k],
         UNCHANGED <<tariff, hostIn, meant>>
  PROVE  RowsOK'
BY DEF CatalogueInv, RowsOK, SwitchesMeant

LEMMA SaveCountryOK ==
  ASSUME CatalogueInv, NEW a \in Tabs, NEW c \in Countries, NEW k \in Codes,
         createCountry(a, c, k) \/ updateCountry(a, c, k)
  PROVE  CatalogueInv'
<1>1. Changed(a, {}) /\ UNCHANGED tariff /\ RowsOK'
  BY CodeOK DEF createCountry, updateCountry
<1> QED BY <1>1, ChangedStep

LEMMA seedCountryOK ==
  ASSUME CatalogueInv, NEW c \in Countries, NEW k \in Codes, seedCountry(c, k) PROVE CatalogueInv'
<1>1. RowsOK' /\ UNCHANGED <<tariff, do, unrecorded>>
  BY CodeOK DEF seedCountry
<1> QED BY <1>1 DEF CatalogueInv, TabsOK, RequestOK

\* What an allow-list loses with a country.
LEMMA deleteCountryFacts ==
  ASSUME CatalogueInv, NEW a \in Tabs, deleteCountry(a)
  PROVE  /\ do[a].pc = "checked" /\ do[a].id \in Countries /\ RequestOK(do[a])
         /\ code' = [code EXCEPT ![do[a].id] = Unset] /\ UNCHANGED <<hostIn, meant>> /\ Changed(a, {})
         /\ tariff' = [t \in Tariffs |-> tariff'[t]]
         /\ \A t \in Tariffs :
              tariff'[t] = [is |-> tariff[t].is, on |-> tariff[t].on, allowed |-> tariff[t].allowed \ {do[a].id}]
<1>1. RowsOK /\ RequestOK(do[a]) /\ do[a].pc = "checked"
  BY DEF CatalogueInv, TabsOK, deleteCountry
<1>2. PICK c \in Countries : c = do[a].id
  BY <1>1 DEF RequestOK
<1>3. /\ code' = [code EXCEPT ![c] = Unset] /\ UNCHANGED <<hostIn, meant>> /\ Changed(a, {})
      /\ tariff' = [t \in Tariffs |-> [tariff[t] EXCEPT !.allowed = tariff[t].allowed \ {c}]]
  BY <1>2 DEF deleteCountry
<1>4. \A t \in Tariffs : tariff'[t] = [is |-> tariff[t].is, on |-> tariff[t].on, allowed |-> tariff[t].allowed \ {c}]
  BY <1>1, <1>3 DEF RowsOK, TariffRow
<1> QED BY <1>1, <1>2, <1>3, <1>4

LEMMA deleteCountryOK ==
  ASSUME CatalogueInv, NEW a \in Tabs, deleteCountry(a) PROVE CatalogueInv'
<1>1. PICK c \in Countries : c = do[a].id
  BY deleteCountryFacts
<1>2. /\ RowsOK /\ tariff' = [t \in Tariffs |-> tariff'[t]]
      /\ \A t \in Tariffs :
           tariff'[t] = [is |-> tariff[t].is, on |-> tariff[t].on, allowed |-> tariff[t].allowed \ {c}]
  BY <1>1, deleteCountryFacts DEF CatalogueInv
<1>3. \A t \in Tariffs : tariff'[t] \in TariffRow
  BY <1>2 DEF RowsOK, TariffRow
<1>4. tariff' \in [Tariffs -> TariffRow]
  BY <1>2, <1>3
<1>5. \A t \in Tariffs : /\ tariff'[t].is = tariff[t].is /\ tariff'[t].on = tariff[t].on
                         /\ tariff'[t].allowed \subseteq tariff[t].allowed \cup {}
  BY <1>2
<1>6. UNCHANGED <<hostIn, meant>> /\ Changed(a, {}) /\ code' = [code EXCEPT ![c] = Unset]
  BY <1>1, deleteCountryFacts
<1>7. RowsOK'
  BY <1>2, <1>4, <1>5, <1>6 DEF RowsOK, SwitchesMeant
<1> QED BY <1>5, <1>6, <1>7, ChangedStep

LEMMA HostOK ==
  ASSUME CatalogueInv, NEW a \in Tabs, NEW s \in Hosts,
         removeHost(a, s) \/ \E c \in Countries : saveHost(a, s, c)
  PROVE  CatalogueInv'
<1>1. /\ UNCHANGED <<code, tariff, meant>> /\ Changed(a, {})
      /\ \E c \in Countries \cup {Unset} : hostIn' = [hostIn EXCEPT ![s] = c]
  BY DEF removeHost, saveHost
<1>2. RowsOK'
  BY <1>1 DEF CatalogueInv, RowsOK, SwitchesMeant
<1> QED BY <1>1, <1>2, ChangedStep

LEMMA CatalogueNextOK == CatalogueInv /\ [CatalogueNext]_catalogueVars => CatalogueInv'
<1> SUFFICES ASSUME CatalogueInv, [CatalogueNext]_catalogueVars PROVE CatalogueInv'
  OBVIOUS
<1>1. ASSUME NEW a \in Tabs, NEW t \in Tariffs,
             \/ \E f \in Switches, shown \in [Switches -> BOOLEAN] : Toggle(a, t, f, shown)
             \/ \E cs \in SUBSET Countries : createTariff(a, t, cs) \/ setAllowed(a, t, cs)
             \/ archive(a, t)
      PROVE  CatalogueInv'
  BY <1>1, SendOK, createTariffOK, setAllowedOK, archiveOK
<1>2. ASSUME NEW a \in Tabs, NEW c \in Countries,
             \/ \E k \in Codes : createCountry(a, c, k) \/ updateCountry(a, c, k)
             \/ CountryUnused(a, c)
      PROVE  CatalogueInv'
  BY <1>2, SaveCountryOK, SendOK
<1>3. ASSUME NEW a \in Tabs, NEW s \in Hosts, removeHost(a, s) \/ \E c \in Countries : saveHost(a, s, c)
      PROVE  CatalogueInv'
  BY <1>3, HostOK
<1>4. ASSUME NEW a \in Tabs, updateTariff(a) \/ deleteCountry(a) \/ record(a) \/ RequestFails(a)
      PROVE  CatalogueInv'
  BY <1>4, updateTariffOK, deleteCountryOK, SendOK
<1>5. ASSUME NEW c \in Countries, NEW k \in Codes, seedCountry(c, k) PROVE CatalogueInv'
  BY <1>5, seedCountryOK
<1>6. CASE UNCHANGED catalogueVars
  BY <1>6 DEF catalogueVars, rows, CatalogueInv, RowsOK, TabsOK, RequestOK, SwitchesMeant
<1> QED BY <1>1, <1>2, <1>3, <1>4, <1>5, <1>6 DEF CatalogueNext

LEMMA CatalogueAlways == CatalogueSpec => []CatalogueInv
BY CatalogueInitOK, CatalogueNextOK, PTL DEF CatalogueSpec

\* Types, and that tariffs, countries, servers and the requests of all tabs are rows
\* and requests of the model.
THEOREM CatalogueTypeCorrect == CatalogueSpec => []CatalogueTypeOK
<1>1. CatalogueInv => CatalogueTypeOK
  BY DEF CatalogueInv, RowsOK, TabsOK, RequestOK, CatalogueTypeOK
<1> QED BY <1>1, CatalogueAlways, PTL

\* However old the pages are from which admins switch tariffs: each switch is as it
\* was last set.
THEOREM SwitchesAsMeant == CatalogueSpec => []SwitchesMeant
<1>1. CatalogueInv => SwitchesMeant
  BY DEF CatalogueInv, RowsOK
<1> QED BY <1>1, CatalogueAlways, PTL

\* Which steps empty an allow-list: a PATCH that says so, and the removal of a
\* country that a tariff was given after the removal had found it unused.
LEMMA EmptiesAllowed ==
  ASSUME CatalogueInv, [CatalogueNext]_catalogueVars, NEW t \in Tariffs,
         tariff[t].allowed # {}, tariff'[t].allowed = {}
  PROVE  \E a \in Tabs : setAllowed(a, t, {}) \/ (deleteCountry(a) /\ do[a].raced)
<1>0. RowsOK
  BY DEF CatalogueInv
<1>1. ASSUME NEW a \in Tabs, NEW u \in Tariffs, NEW cs \in SUBSET Countries, createTariff(a, u, cs)
      PROVE  FALSE
  <2>1. tariff[u].allowed = {} /\ \A x \in Tariffs : x # u => tariff'[x] = tariff[x]
    BY <1>0, <1>1 DEF createTariff, RowsOK
  <2> QED BY <2>1
<1>2. ASSUME NEW a \in Tabs, NEW u \in Tariffs, NEW cs \in SUBSET Countries, setAllowed(a, u, cs)
      PROVE  setAllowed(a, t, {})
  <2>1. tariff' = [tariff EXCEPT ![u].allowed = cs]
    BY <1>2 DEF setAllowed
  <2>2. tariff'[t].allowed = IF t = u THEN cs ELSE tariff[t].allowed
    BY <1>0, <2>1 DEF RowsOK, TariffRow
  <2>3. u = t /\ cs = {}
    BY <2>2
  <2> QED BY <1>2, <2>3
<1>3. ASSUME NEW a \in Tabs, NEW u \in Tariffs, archive(a, u) PROVE FALSE
  <2>1. tariff' = [tariff EXCEPT ![u].is = "archived"]
    BY <1>3 DEF archive
  <2> QED BY <1>0, <2>1 DEF RowsOK, TariffRow
<1>4. ASSUME NEW a \in Tabs, updateTariff(a) PROVE FALSE
  <2>1. PICK u \in Tariffs : u = do[a].id
    BY <1>4 DEF updateTariff, CatalogueInv, TabsOK, RequestOK
  <2>2. tariff' = [tariff EXCEPT ![u].on = [x \in Switches |-> IF x \in DOMAIN do[a].set THEN do[a].set[x]
                                                               ELSE tariff[u].on[x]]]
    BY <1>0, <1>4, <2>1 DEF updateTariff, RowsOK, TariffRow
  <2>3. PICK on : tariff' = [tariff EXCEPT ![u].on = on]
    BY <2>2
  <2> QED BY <1>0, <2>3 DEF RowsOK, TariffRow
<1>5. ASSUME NEW a \in Tabs, deleteCountry(a) PROVE do[a].raced
  <2>1. tariff'[t] = [is |-> tariff[t].is, on |-> tariff[t].on, allowed |-> tariff[t].allowed \ {do[a].id}]
    BY <1>5, deleteCountryFacts
  <2>2. do[a].id \in tariff[t].allowed
    BY <2>1
  <2>3. do[a].pc = "checked" /\ RequestOK(do[a])
    BY <1>5, deleteCountryFacts
  <2> QED BY <2>2, <2>3 DEF RequestOK
<1>6. CASE UNCHANGED tariff
  BY <1>6
<1>7. \/ UNCHANGED tariff
      \/ \E a \in Tabs, u \in Tariffs, cs \in SUBSET Countries : createTariff(a, u, cs) \/ setAllowed(a, u, cs)
      \/ \E a \in Tabs : (\E u \in Tariffs : archive(a, u)) \/ updateTariff(a) \/ deleteCountry(a)
  BY DEF CatalogueNext, catalogueVars, rows, seedCountry, Toggle, Send, createCountry, updateCountry,
         CountryUnused, saveHost, removeHost, record, RequestFails
<1> QED BY <1>1, <1>2, <1>3, <1>4, <1>5, <1>6, <1>7

\* A restricted tariff is not opened to every country by itself: allow-lists are
\* emptied by an admin who means it, or by the removal of a country that raced with
\* giving it to the tariff.
THEOREM RestrictionsAreKept == CatalogueSpec => RestrictionKept
<1> DEFINE Kept == \A t \in Tariffs :
             tariff[t].allowed # {} /\ tariff'[t].allowed = {} =>
               \E a \in Tabs : setAllowed(a, t, {}) \/ (deleteCountry(a) /\ do[a].raced)
<1>1. CatalogueInv /\ [CatalogueNext]_catalogueVars => [Kept]_catalogueVars
  BY EmptiesAllowed
<1> QED BY <1>1, CatalogueAlways, PTL DEF CatalogueSpec, RestrictionKept

-------------------------------------------------------------------------------
\* ServersPage.  NoIntervalLost is inductive: with it, to clear the interval that the
\* page knows of is to clear every one.
PageInv == PageTypeOK /\ NoIntervalLost

LEMMA AllCleared == PageInv => Cleared = [i \in Intervals |-> None]
BY DEF PageInv, PageTypeOK, NoIntervalLost, Cleared

LEMMA PageInitOK == PageInit => PageInv
BY PageAssumption DEF PageInit, PageInv, PageTypeOK, NoIntervalLost, Statuses, NoPoll

\* Runs and the request that starts one.
LEMMA RunsOK ==
  ASSUME PageInv, NEW s \in Servers, MarkRunning(s) \/ RunEnds(s) \/ press(s) \/ provision(s)
  PROVE  PageInv'
<1>1. NoIntervalLost'
  BY DEF PageInv, NoIntervalLost, MarkRunning, RunEnds, press, provision, panel, log
<1>2. CASE MarkRunning(s) \/ RunEnds(s)
  <2>1. PageTypeOK /\ UNCHANGED <<runs, mounted, act, log, poll>>
    BY <1>2 DEF PageInv, MarkRunning, RunEnds
  <2>2. prov' \in [Servers -> Statuses] /\ running' \in [Servers -> Nat] /\ starting' \in [Servers -> Nat]
    BY <1>2 DEF PageInv, PageTypeOK, Statuses, MarkRunning, RunEnds
  <2> QED BY <1>1, <2>1, <2>2 DEF PageInv, PageTypeOK, log
<1>3. CASE press(s) \/ provision(s)
  <2>1. PageTypeOK /\ UNCHANGED <<prov, running, mounted, log, poll>>
    BY <1>3 DEF PageInv, press, provision, panel
  <2>2. /\ starting' \in [Servers -> Nat] /\ runs' \in Nat
        /\ act' \in [Servers -> {"none", "posting", "answered"}]
    BY <1>3 DEF PageInv, PageTypeOK, press, provision, panel
  <2> QED BY <1>1, <2>1, <2>2 DEF PageInv, PageTypeOK, log
<1> QED BY <1>2, <1>3

\* A log that is opened, wherever the page is: its interval is the only one.
LEMMA openLogOK ==
  ASSUME PageInv, NEW s \in Servers, NEW p \in Polls, openLog(s, p) PROVE PageInv'
<1>1. PICK i \in Intervals : /\ logServer' = s /\ pollRef' = i /\ interval' = [Cleared EXCEPT ![i] = s]
                            /\ poll' = [poll EXCEPT ![p].server = s]
  BY DEF openLog, Open
<1>2. interval' = [j \in Intervals |-> IF j = i THEN s ELSE None]
  BY <1>1, AllCleared
<1>3. PageTypeOK /\ UNCHANGED <<panel, mounted>> /\ act' \in [Servers -> {"none", "posting", "answered"}]
  BY DEF PageInv, PageTypeOK, openLog
<1>4. poll' \in [Polls -> [server : Servers \cup {None}, status : Statuses \cup {None}]]
  BY <1>1, <1>3 DEF PageTypeOK
<1>5. PageTypeOK'
  BY <1>1, <1>2, <1>3, <1>4 DEF PageTypeOK, panel
<1>6. NoIntervalLost'
  BY <1>1, <1>2 DEF NoIntervalLost
<1> QED BY <1>5, <1>6 DEF PageInv

\* Intervals that stop, all of them, whatever becomes of the log.
LEMMA StopOK ==
  ASSUME PageInv, interval' = Cleared, logServer' \in Servers \cup {None}, pollRef' \in Intervals \cup {None},
         mounted' \in BOOLEAN, UNCHANGED <<panel, act>>,
         poll' \in [Polls -> [server : Servers \cup {None}, status : Statuses \cup {None}]]
  PROVE  PageInv'
<1>1. interval' = [i \in Intervals |-> None]
  BY AllCleared
<1> QED BY <1>1 DEF PageInv, PageTypeOK, NoIntervalLost, panel

\* Polls and their answers.
LEMMA PollsOK ==
  ASSUME PageInv, NEW p \in Polls,
         (\E i \in Intervals : tick(i, p)) \/ getState(p) \/ answered(p) \/ pollFails(p)
  PROVE  PageInv'
<1>1. PageTypeOK /\ UNCHANGED <<panel, mounted, act, logServer>>
  BY DEF PageInv, tick, getState, answered, pollFails, log
<1>2. poll' \in [Polls -> [server : Servers \cup {None}, status : Statuses \cup {None}]]
  <2>1. PICK server \in Servers \cup {None}, status \in Statuses \cup {None} :
          poll' = [poll EXCEPT ![p] = [server |-> server, status |-> status]]
    <3>1. poll[p] = [server |-> poll[p].server, status |-> poll[p].status]
      BY <1>1 DEF PageTypeOK
    <3>2. ASSUME NEW i \in Intervals, tick(i, p)
          PROVE  poll' = [poll EXCEPT ![p] = [server |-> interval[i], status |-> poll[p].status]]
      <4>1. [poll[p] EXCEPT !.server = interval[i]] = [server |-> interval[i], status |-> poll[p].status]
        BY <3>1
      <4> QED BY <1>1, <3>2, <4>1 DEF PageTypeOK, tick
    <3>3. ASSUME getState(p)
          PROVE  poll' = [poll EXCEPT ![p] = [server |-> poll[p].server, status |-> prov[poll[p].server]]]
      <4>1. [poll[p] EXCEPT !.status = prov[poll[p].server]]
              = [server |-> poll[p].server, status |-> prov[poll[p].server]]
        BY <3>1
      <4> QED BY <1>1, <3>3, <4>1 DEF PageTypeOK, getState
    <3>4. ASSUME answered(p) \/ pollFails(p)
          PROVE  poll' = [poll EXCEPT ![p] = [server |-> None, status |-> None]]
      BY <3>4 DEF answered, pollFails, NoPoll
    <3>5. getState(p) => prov[poll[p].server] \in Statuses
      BY <1>1 DEF PageTypeOK, getState
    <3> QED BY <1>1, <3>2, <3>3, <3>4, <3>5 DEF PageTypeOK
  <2> QED BY <1>1, <2>1 DEF PageTypeOK
<1>3. CASE interval' = Cleared /\ pollRef' = None
  BY <1>1, <1>2, <1>3, StopOK DEF PageTypeOK
<1>4. CASE UNCHANGED <<interval, pollRef>>
  BY <1>1, <1>2, <1>4 DEF PageInv, PageTypeOK, NoIntervalLost, panel
<1> QED BY <1>3, <1>4 DEF tick, getState, answered, pollFails, log

LEMMA PageNextOK == PageInv /\ [PageNext]_pageVars => PageInv'
<1> SUFFICES ASSUME PageInv, [PageNext]_pageVars PROVE PageInv'
  OBVIOUS
<1>1. CASE closeLog \/ leave
  BY <1>1, StopOK DEF PageInv, PageTypeOK, closeLog, leave, panel
<1>2. CASE UNCHANGED pageVars
  BY <1>2 DEF pageVars, panel, log, PageInv, PageTypeOK, NoIntervalLost
<1> QED BY <1>1, <1>2, RunsOK, openLogOK, PollsOK DEF PageNext

LEMMA PageAlways == PageSpec => []PageInv
BY PageInitOK, PageNextOK, PTL DEF PageSpec

\* Types, and that the counts of runs under way do not go below zero.
THEOREM PageTypeCorrect == PageSpec => []PageTypeOK
<1>1. PageInv => PageTypeOK
  BY DEF PageInv
<1> QED BY <1>1, PageAlways, PTL

\* Whatever logs are opened over one another, closed, left and stopped by answers
\* that are late: there is one interval at most, the page can clear it, and it polls
\* for the log that is open.
THEOREM IntervalsAreKnown == PageSpec => []NoIntervalLost
<1>1. PageInv => NoIntervalLost
  BY DEF PageInv
<1> QED BY <1>1, PageAlways, PTL

===============================================================================
