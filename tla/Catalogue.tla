-------------------------------- MODULE Catalogue -----------------------------
(***************************************************************************)
(* Countries, tariffs with their allow-lists, and the countries of servers:*)
(* TariffsService, the countries of ServersService, the endpoints that     *)
(* record what they did in the audit log, and the admin pages that call    *)
(* them.  A statement that fails and a row that is missing change nothing; *)
(* the page shows the error.                                               *)
(***************************************************************************)
EXTENDS Naturals, FiniteSets

CONSTANTS Countries, Codes,  \* rows of vpn_countries and their codes
          Tariffs, Hosts,    \* rows of tariffs and of vpn_servers
          Tabs,              \* pages open in browsers of admins
          Unset,
          MaxUnrecorded      \* bound: changes whose record is lost

\* There are rows enough for the default countries.
ASSUME CatalogueAssumption ==
  /\ Unset \notin Codes \cup Countries /\ MaxUnrecorded \in Nat
  /\ \E f \in [Countries -> Codes \cup {Unset}] :
       \A k \in Codes : Cardinality({c \in Countries : f[c] = k}) = 1

VARIABLES code,       \* the code of a country, Unset while there is no row
          tariff,
          hostIn,     \* the country of a server, Unset while there is no row
          do,         \* the request of each tab
          unrecorded, \* history: changes whose record failed
          meant       \* history: the switches as admins last set them

rows == <<code, tariff, hostIn, meant>>
catalogueVars == <<rows, do, unrecorded>>

Switches  == {"isActive", "isPublic"}
AllOn     == [f \in Switches |-> TRUE]
TariffRow == [is : {"none", "there", "archived"}, on : [Switches -> BOOLEAN],
              allowed : SUBSET Countries]

\* id: the row it is about.  set, click: the switches a PATCH carries, and the one
\* that was clicked.  raced: a tariff was given the country since it was checked.
Ready == [pc |-> "ready", id |-> Unset, set |-> <<>>, click |-> Unset, raced |-> FALSE]

There      == {c \in Countries : code[c] # Unset}
Using(c)   == {t \in Tariffs : c \in tariff[t].allowed}
HostsIn(c) == {s \in Hosts : hostIn[s] = c}

\* The seed: the default countries, and one tariff for all of them.
CatalogueInit ==
  /\ code = CHOOSE f \in [Countries -> Codes \cup {Unset}] :
              \A k \in Codes : Cardinality({c \in Countries : f[c] = k}) = 1
  /\ LET starter == CHOOSE t \in Tariffs : TRUE
     IN  tariff = [t \in Tariffs |-> [is |-> IF t = starter THEN "there" ELSE "none", on |-> AllOn,
                                      allowed |-> IF t = starter THEN There ELSE {}]]
  /\ hostIn = [s \in Hosts |-> Unset]
  /\ do = [a \in Tabs |-> Ready]
  /\ unrecorded = 0
  /\ meant = [t \in Tariffs |-> AllOn]

\* What admins or a new deployment do, whose seed brings back default countries.
seedCountry(c, k) ==
  /\ code[c] = Unset /\ \A d \in Countries : code[d] # k
  /\ code' = [code EXCEPT ![c] = k]
  /\ UNCHANGED <<tariff, hostIn, meant, do, unrecorded>>

Send(a, request) ==
  /\ do[a] = Ready /\ do' = [do EXCEPT ![a] = request]
  /\ UNCHANGED <<rows, unrecorded>>

\* The statement of a request is through; those that removing a country has to
\* fear are noted.
Changed(a, connected) ==
  /\ do' = [b \in Tabs |->
             IF b = a THEN [Ready EXCEPT !.pc = "changed"]
             ELSE [do[b] EXCEPT !.raced = @ \/ (do[b].pc = "checked" /\ do[b].id \in connected)]]
  /\ UNCHANGED unrecorded

createTariff(a, t, countries) ==
  /\ do[a] = Ready /\ tariff[t].is = "none" /\ countries \subseteq There
  /\ \E on \in [Switches -> BOOLEAN] :
       /\ tariff' = [tariff EXCEPT ![t] = [is |-> "there", on |-> on, allowed |-> countries]]
       /\ meant'  = [meant EXCEPT ![t] = on]
  /\ Changed(a, countries) /\ UNCHANGED <<code, hostIn>>

\* Mutant: toggles send all that the page shows.
ToggleAll(a, t, f, shown) ==
  Send(a, [Ready EXCEPT !.pc = "patching", !.id = t, !.click = f,
                        !.set = [shown EXCEPT ![f] = ~@]])

\* toggleActive and togglePublic send the opposite of what the page shows, which
\* may be old.
Toggle(a, t, f, shown) ==
  Send(a, [Ready EXCEPT !.pc = "patching", !.id = t, !.click = f, !.set = [x \in {f} |-> ~shown[f]]])

\* update: only the fields that are given; tariffs that are archived, too.
updateTariff(a) ==
  LET t == do[a].id  f == do[a].click  set == do[a].set IN
  /\ do[a].pc = "patching"
  /\ tariff' = [tariff EXCEPT ![t].on = [x \in Switches |-> IF x \in DOMAIN set THEN set[x] ELSE @[x]]]
  /\ meant'  = [meant EXCEPT ![t][f] = set[f]]
  /\ Changed(a, {}) /\ UNCHANGED <<code, hostIn>>

\* A PATCH with countryIds, which no page sends.
setAllowed(a, t, countries) ==
  /\ do[a] = Ready /\ tariff[t].is # "none" /\ countries \subseteq There
  /\ tariff' = [tariff EXCEPT ![t].allowed = countries]
  /\ Changed(a, countries) /\ UNCHANGED <<code, hostIn, meant>>

archive(a, t) ==
  /\ do[a] = Ready /\ tariff[t].is # "none"
  /\ tariff' = [tariff EXCEPT ![t].is = "archived"]
  /\ Changed(a, {}) /\ UNCHANGED <<code, hostIn, meant>>

\* The unique index on the code.
CodeFree(c, k) == \A d \in Countries \ {c} : code[d] # k

createCountry(a, c, k) ==
  /\ do[a] = Ready /\ code[c] = Unset /\ CodeFree(c, k)
  /\ code' = [code EXCEPT ![c] = k]
  /\ Changed(a, {}) /\ UNCHANGED <<tariff, hostIn, meant>>

updateCountry(a, c, k) ==
  /\ do[a] = Ready /\ code[c] # Unset /\ CodeFree(c, k)
  /\ code' = [code EXCEPT ![c] = k]
  /\ Changed(a, {}) /\ UNCHANGED <<tariff, hostIn, meant>>

\* Mutant: a country that only tariffs use may go.
CountryCountsServers(a, c) ==
  /\ code[c] # Unset /\ HostsIn(c) = {}
  /\ Send(a, [Ready EXCEPT !.pc = "checked", !.id = c])

\* removeCountry: what it counts,
CountryUnused(a, c) ==
  /\ code[c] # Unset /\ HostsIn(c) = {} /\ Using(c) = {}
  /\ Send(a, [Ready EXCEPT !.pc = "checked", !.id = c])

\* and what the foreign keys do: servers restrict, allow-lists cascade.
Restricts(c) == HostsIn(c) # {}

deleteCountry(a) ==
  LET c == do[a].id IN
  /\ do[a].pc = "checked" /\ code[c] # Unset /\ ~Restricts(c)
  /\ code'   = [code EXCEPT ![c] = Unset]
  /\ tariff' = [t \in Tariffs |-> [tariff[t] EXCEPT !.allowed = @ \ {c}]]
  /\ Changed(a, {}) /\ UNCHANGED <<hostIn, meant>>

\* ServersService.create, update and remove, as far as countries go.
saveHost(a, s, c) ==
  /\ do[a] = Ready /\ code[c] # Unset
  /\ hostIn' = [hostIn EXCEPT ![s] = c]
  /\ Changed(a, {}) /\ UNCHANGED <<code, tariff, meant>>

removeHost(a, s) ==
  /\ do[a] = Ready /\ hostIn[s] # Unset
  /\ hostIn' = [hostIn EXCEPT ![s] = Unset]
  /\ Changed(a, {}) /\ UNCHANGED <<code, tariff, meant>>

record(a) ==
  /\ do[a].pc = "changed"
  /\ do' = [do EXCEPT ![a] = Ready]
  /\ UNCHANGED <<rows, unrecorded>>

\* A refused or failed statement, or a restart of the panel, ends the request.
RequestFails(a) ==
  /\ do[a] # Ready /\ do' = [do EXCEPT ![a] = Ready]
  /\ IF do[a].pc = "changed" THEN unrecorded < MaxUnrecorded /\ unrecorded' = unrecorded + 1
     ELSE UNCHANGED unrecorded
  /\ UNCHANGED rows

CatalogueNext ==
  \/ \E c \in Countries, k \in Codes : seedCountry(c, k)
  \/ \E a \in Tabs :
       \/ \E t \in Tariffs : \/ \E f \in Switches, shown \in [Switches -> BOOLEAN] :
                                  tariff[t].is # "none" /\ Toggle(a, t, f, shown)
                             \/ \E cs \in SUBSET Countries : createTariff(a, t, cs) \/ setAllowed(a, t, cs)
                             \/ archive(a, t)
       \/ \E c \in Countries : \/ \E k \in Codes : createCountry(a, c, k) \/ updateCountry(a, c, k)
                               \/ CountryUnused(a, c)
       \/ \E s \in Hosts : removeHost(a, s) \/ \E c \in Countries : saveHost(a, s, c)
       \/ updateTariff(a) \/ deleteCountry(a) \/ record(a) \/ RequestFails(a)

CatalogueSpec == CatalogueInit /\ [][CatalogueNext]_catalogueVars

-------------------------------------------------------------------------------
\* Types.
CatalogueTypeOK ==
  /\ code \in [Countries -> Codes \cup {Unset}]
  /\ tariff \in [Tariffs -> TariffRow]
  /\ hostIn \in [Hosts -> Countries \cup {Unset}]
  /\ \A a \in Tabs : do[a].pc \in {"ready", "patching", "checked", "changed"}
  /\ unrecorded \in Nat

\* An allow-list does not become empty, which would allow every country, unless
\* an admin empties it or gives it a country while that is being removed
\* ("blocked if servers/tariffs are attached").
RestrictionKept ==
  [][\A t \in Tariffs :
       tariff[t].allowed # {} /\ tariff'[t].allowed = {} =>
         \E a \in Tabs : setAllowed(a, t, {}) \/ (deleteCountry(a) /\ do[a].raced)]_catalogueVars

\* A tariff is on sale as admins last set each of its switches, though they work
\* from pages that are out of date.
SwitchesMeant == \A t \in Tariffs : tariff[t].on = meant[t]

\* Not so: all admin mutations are recorded.
AllRecorded == unrecorded = 0
===============================================================================
