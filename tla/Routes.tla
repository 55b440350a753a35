---------------------------------- MODULE Routes ------------------------------
(***************************************************************************)
(* RoutesService (apps/api/src/routes): route groups and the versions of   *)
(* the route list.  A publisher reads, resolves one group after the other, *)
(* and writes; admins edit the groups meanwhile.  What a group's domains   *)
(* resolve to, sanitised and aggregated (module Cidr), is a set of blocks. *)
(***************************************************************************)
EXTENDS Naturals

CONSTANTS Groups,      \* route groups, by key
          Seeded,      \* DEFAULT_ROUTE_GROUPS
          Cidrs,       \* blocks
          Publishers,  \* resolveAndPublish in progress
          MaxVersion   \* bound: versions published

ASSUME RoutesAssumption == Seeded \subseteq Groups /\ MaxVersion \in Nat

VARIABLES group,    \* route_groups: "none" while there is no row
          version,  \* the version getCurrentVersion returns, 0 for none
          entries,  \* and its entries
          pub       \* where each publisher is

routesVars == <<group, version, entries, pub>>

GroupStates == {"none", "enabled", "disabled"}
Entries     == [group : Groups, cidr : Cidrs]

\* groups: the enabled ones read.  base, prev: the current version read.
\* todo: groups yet to resolve.  found: the entries of those resolved.
Resting == [pc |-> "idle", groups |-> {}, base |-> 0, prev |-> {}, todo |-> {}, found |-> {}]

Of(g, list) == {e \in list : e.group = g}

RoutesInit ==
  /\ group   = [g \in Groups |-> "none"]
  /\ version = 0 /\ entries = {}
  /\ pub     = [p \in Publishers |-> Resting]

Switch(g, s) == group' = [group EXCEPT ![g] = s] /\ UNCHANGED <<version, entries, pub>>

upsertGroup(g, s) == Switch(g, s)

setEnabled(g, s) == group[g] # "none" /\ Switch(g, s)

\* Every deployment seeds: what is there keeps its switch.
Seed(g) ==
  /\ g \in Seeded /\ group[g] = "none"
  /\ Switch(g, "enabled")

ReadGroups(p) ==
  /\ pub[p].pc = "idle"
  /\ pub' = [pub EXCEPT ![p] = [Resting EXCEPT !.pc = "reading",
                                  !.groups = {g \in Groups : group[g] = "enabled"}]]
  /\ UNCHANGED <<group, version, entries>>

getCurrentVersion(p) ==
  /\ pub[p].pc = "reading"
  /\ pub' = [pub EXCEPT ![p] = [@ EXCEPT !.pc = "resolving", !.base = version,
                                         !.prev = entries, !.todo = pub[p].groups]]
  /\ UNCHANGED <<group, version, entries>>

\* Mutants: a group that resolves to nothing is left out; or keeps them all.
GroupEntriesResolved(p, g, cidrs) == [group : {g}, cidr : cidrs]
GroupEntriesAll(p, g, cidrs) ==
  IF cidrs = {} THEN pub[p].prev ELSE [group : {g}, cidr : cidrs]

\* A group that resolves to nothing keeps its entries.
GroupEntries(p, g, cidrs) ==
  IF cidrs = {} THEN Of(g, pub[p].prev) ELSE [group : {g}, cidr : cidrs]

Resolve(p, g, cidrs) ==
  /\ pub[p].pc = "resolving" /\ g \in pub[p].todo
  /\ pub' = [pub EXCEPT ![p].todo = @ \ {g}, ![p].found = @ \cup GroupEntries(p, g, cidrs)]
  /\ UNCHANGED <<group, version, entries>>

\* Mutant: an empty list replaces any.
KeepsNothing(p) == pub[p].base > 0 /\ pub[p].found = pub[p].prev

\* Anti-poison, and no version without a change.
Keeps(p) == \/ pub[p].found = {} /\ pub[p].prev # {}
            \/ pub[p].base > 0 /\ pub[p].found = pub[p].prev

\* Mutant: the version is numbered when it is stored.
UniqueAnyway(p) == TRUE

\* version is @unique: the number was computed from what was read.
Unique(p) == version = pub[p].base

\* The transaction: the version with its entries, or a violated index.  The
\* flagging of peers finds none, since their version is always null.
Publish(p) ==
  /\ pub[p].pc = "resolving" /\ pub[p].todo = {}
  /\ pub' = [pub EXCEPT ![p] = Resting]
  /\ \/ /\ ~Keeps(p) /\ Unique(p)
        /\ version < MaxVersion
        /\ version' = version + 1 /\ entries' = pub[p].found
     \/ /\ Keeps(p) \/ ~Unique(p)
        /\ UNCHANGED <<version, entries>>
  /\ UNCHANGED group

\* The panel stops, or a statement throws.
PublisherFails(p) ==
  /\ pub[p].pc # "idle" /\ pub' = [pub EXCEPT ![p] = Resting]
  /\ UNCHANGED <<group, version, entries>>

RoutesNext ==
  \/ \E g \in Groups, s \in {"enabled", "disabled"} : upsertGroup(g, s) \/ setEnabled(g, s)
  \/ \E g \in Groups : Seed(g)
  \/ \E p \in Publishers :
       \/ ReadGroups(p) \/ getCurrentVersion(p) \/ Publish(p) \/ PublisherFails(p)
       \/ \E g \in Groups, cidrs \in SUBSET Cidrs : Resolve(p, g, cidrs)

RoutesSpec == RoutesInit /\ [][RoutesNext]_routesVars

-------------------------------------------------------------------------------
PubRecords == [pc : {"idle", "reading", "resolving"}, groups : SUBSET Groups, base : Nat,
               prev : SUBSET Entries, todo : SUBSET Groups, found : SUBSET Entries]

\* Types, and that a publisher takes entries of groups it has read as enabled only,
\* and only once they are resolved.
RoutesTypeOK ==
  /\ group \in [Groups -> GroupStates]
  /\ version \in Nat /\ entries \subseteq Entries
  /\ pub \in [Publishers -> PubRecords]
  /\ \A p \in Publishers : pub[p].base <= version /\ pub[p].todo \subseteq pub[p].groups
  /\ \A p \in Publishers : \A e \in pub[p].found : e.group \in pub[p].groups \ pub[p].todo

\* A list that routes something is never replaced by an empty one, not by a
\* publisher either that read the list before there was anything in it ("never
\* replace a non-empty published list with an empty one").
NeverEmptied == [][entries # {} => entries' # {}]_routesVars

\* A group stays routed while it is enabled: a version leaves out a group of the
\* one before only when its publisher found the group disabled ("transient DNS
\* failure must not wipe a working group").
WorkingGroupKept ==
  [][\A g \in Groups :
       Of(g, entries) # {} /\ Of(g, entries') = {} =>
         \E p \in Publishers : Publish(p) /\ g \notin pub[p].groups]_routesVars

\* Every version differs from the one before, whoever publishes at the same
\* time ("avoid version churn").
NoChurn == [][version' # version => version' = version + 1 /\ (version > 0 => entries' # entries)]_routesVars

\* Not so: a group that was disabled is not published afterwards.
DisabledStaysOut ==
  [][\A g \in Groups : Of(g, entries) = {} /\ Of(g, entries') # {} => group[g] = "enabled"]_routesVars
===============================================================================
