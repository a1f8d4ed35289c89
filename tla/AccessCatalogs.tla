--------------------------- MODULE AccessCatalogs ----------------------------
(***************************************************************************)
(* The versions of the access catalogue of one application, and the        *)
(* assignments granted from them (application-access-catalog.mjs,          *)
(* administration-access-catalog.mjs, access-decision-admin.mjs).          *)
(*                                                                         *)
(* A worker is one publication - by the application or by the bootstrap of *)
(* the Administration catalogue - or one decision of an operator.          *)
(* A decision is prepared from a catalogue read outside its transaction;   *)
(* a publication locks the application, its versions and its assignments.  *)
(***************************************************************************)
EXTENDS Integers

CONSTANTS
    Identities, Roles, Permissions,
    None,
    Workers,
    Offered,         \* contents the application may try to publish
    Chain,           \* the versions the bootstrap publishes one after the other
    Inherited,       \* permissions of the assignments older than any catalogue:
                     \* [Identities \X Roles -> SUBSET Permissions]
    MaxCatalogs,     \* bound: versions of the catalogue
    MaxVersion       \* bound: decisions on one assignment

Definition == {"none", "inactive", "active"}    \* inactive: planned or deprecated

Catalog ==
    [roles: [Roles -> Definition], permissions: [Permissions -> Definition],
     of: [Roles -> SUBSET Permissions]]

\* The identifiers a catalogue defines.  (Scope types are one more kind.)
Known(c) ==
    {r \in Roles : c.roles[r] # "none"} \cup {x \in Permissions : c.permissions[x] # "none"}

\* prepareApplicationAccessCatalog: what a catalogue must be.
Coherent(c) ==
    /\ \E r \in Roles : c.roles[r] # "none"
    /\ \A r \in Roles :
          /\ c.of[r] = {} <=> c.roles[r] = "none"
          /\ \A x \in c.of[r] :
                /\ c.permissions[x] # "none"
                /\ c.roles[r] = "active" => c.permissions[x] = "active"

Last == MaxCatalogs

ASSUME CatalogAssumption ==
    /\ Roles \cap Permissions = {} /\ None \notin Catalog \cup Roles \cup Identities
    /\ MaxCatalogs \in Nat \ {0} /\ MaxVersion \in Nat
    /\ Offered \subseteq Catalog
    /\ Inherited \in [Identities \X Roles -> SUBSET Permissions]

\* Each version of the Administration catalogue completes the one before.
Completing ==
    /\ \A v \in 1..Last : Coherent(Chain[v])
    /\ \A v \in 1..(Last - 1) : Known(Chain[v]) \subseteq Known(Chain[v + 1])

ASSUME ChainAssumption == Chain \in [1..Last -> Catalog] /\ Completing

VARIABLES
    administration,  \* whether the application is N09 Administration itself
    catalogs,        \* application_access_catalog_versions
    grants,          \* access_assignments, one per identity and role
    work             \* what each publication or decision holds in memory

vars == <<administration, catalogs, grants, work>>
registry == <<administration, catalogs, grants>>

GrantRecord ==
    [status: {"none", "active", "revoked"}, version: Nat, permissions: SUBSET Permissions,
     from: 0..MaxCatalogs]     \* catalogue the decision names in its audit, 0 before there is one

Row == {<<"application">>, <<"assignments">>} \cup {<<"grant", i, r>> : i \in Identities, r \in Roles}

WorkRecord ==
    [stage: {"idle", "submitted", "evolving", "checked", "viewed", "prepared"},
     chained: BOOLEAN, version: 0..MaxCatalogs, content: Catalog \cup {None},
     identity: Identities \cup {None}, role: Roles \cup {None},
     grant: GrantRecord \cup {None}, locks: SUBSET Row]

Idle == [stage |-> "idle", chained |-> FALSE, version |-> 0, content |-> None,
         identity |-> None, role |-> None, grant |-> None, locks |-> {}]

TypeOK ==
    /\ administration \in BOOLEAN
    /\ catalogs \in [1..MaxCatalogs -> Catalog \cup {None}]
    /\ grants \in [Identities \X Roles -> GrantRecord]
    /\ work \in [Workers -> WorkRecord]

Init ==
    /\ administration \in BOOLEAN
    /\ catalogs = [v \in 1..MaxCatalogs |-> None]
    /\ grants = [g \in Identities \X Roles |->
                   IF Inherited[g] = {}
                     THEN [status |-> "none", version |-> 0, permissions |-> {}, from |-> 0]
                     ELSE [status |-> "active", version |-> 1, permissions |-> Inherited[g], from |-> 0]]
    /\ work = [p \in Workers |-> Idle]

-----------------------------------------------------------------------------
(* Helpers *)

Become(p, x) == work' = [work EXCEPT ![p] = x]
Answer(p) == Become(p, Idle)

\* None else has locked any of these rows.
Free(p, rows) == \A q \in Workers \ {p} : work[q].locks \cap rows = {}

\* getLatestApplicationAccessCatalog
Published == {v \in 1..MaxCatalogs : catalogs[v] # None}
IsLatest(v) == (v = 0 \/ v \in Published) /\ \A w \in Published : w <= v

\* Wrong variant of Evolves: an identifier may disappear.
EvolvesFreely(v, c) == v - 1 \in Published \cup {0} /\ c \in Catalog

\* assertCompatibleCatalogEvolution, for the version that follows the latest.
Evolves(v, c) == v > 1 => Known(catalogs[v - 1]) \subseteq Known(c)

\* Wrong variant of Interprets: what is granted does not matter.
InterpretsAny(c) == c \in Catalog

\* Every active assignment has a role and permissions that c defines.
Interprets(c) ==
    \A g \in Identities \X Roles :
        grants[g].status = "active" => {g[2]} \cup grants[g].permissions \subseteq Known(c)

-----------------------------------------------------------------------------
(* The publication of a version *)

\* The application signs its request.
Submit(p, v, c) ==
    /\ work[p].stage = "idle"
    /\ Coherent(c)
    /\ Become(p, [Idle EXCEPT !.stage = "submitted", !.version = v, !.content = c])
    /\ UNCHANGED registry

\* Wrong variant of Bootstrap: straight to the last version.
BootstrapLast(p, n) ==
    /\ administration
    /\ work[p].stage = "idle"
    /\ IsLatest(n)
    /\ Become(p, [Idle EXCEPT !.stage = "submitted", !.chained = TRUE,
                              !.version = Last, !.content = Chain[Last]])
    /\ UNCHANGED registry

\* publishAdministrationAccessCatalog reads the latest version and publishes
\* the next one, up to the last one, which it publishes again.
Bootstrap(p, n) ==
    LET v == IF n < Last THEN n + 1 ELSE Last IN
    /\ administration
    /\ work[p].stage = "idle"
    /\ IsLatest(n)
    /\ Become(p, [Idle EXCEPT !.stage = "submitted", !.chained = TRUE,
                              !.version = v, !.content = Chain[v]])
    /\ UNCHANGED registry

\* The application and its versions, FOR UPDATE.  A known version is either
\* repeated or in conflict, and nothing is written; another one has to be the
\* next one and to keep every identifier.
LockVersions(p) ==
    LET v == work[p].version IN
    /\ work[p].stage = "submitted"
    /\ Free(p, {<<"application">>})
    /\ IF IsLatest(v - 1) /\ Evolves(v, work[p].content)
          THEN Become(p, [work[p] EXCEPT !.stage = "evolving", !.locks = {<<"application">>}])
          ELSE Answer(p)
    /\ UNCHANGED registry

\* The assignments there are, and the place of those to come.
AssignmentRows ==
    {<<"assignments">>}
       \cup {<<"grant", g[1], g[2]>> : g \in {g \in Identities \X Roles : grants[g].version > 0}}

\* The active assignments, FOR UPDATE.
Check(p) ==
    /\ work[p].stage = "evolving"
    /\ Free(p, AssignmentRows)
    /\ IF Interprets(work[p].content)
          THEN Become(p, [work[p] EXCEPT !.stage = "checked", !.locks = @ \cup AssignmentRows])
          ELSE Answer(p)
    /\ UNCHANGED registry

\* The INSERT of the version, its audit, the commit.
Publish(p) ==
    /\ work[p].stage = "checked"
    /\ catalogs' = [catalogs EXCEPT ![work[p].version] = work[p].content]
    /\ Answer(p)
    /\ UNCHANGED <<administration, grants>>

-----------------------------------------------------------------------------
(* The decisions of an operator *)

\* The console shows the latest version.
View(p, n) ==
    /\ work[p].stage = "idle"
    /\ n # 0 /\ IsLatest(n)
    /\ Become(p, [Idle EXCEPT !.stage = "viewed", !.version = n])
    /\ UNCHANGED registry

\* Wrong variant of Grantable: any role of the catalogue.
GrantableAny(c, r) == c.roles[r] # "none"

Grantable(c, r) == c.roles[r] = "active" /\ \A x \in c.of[r] : c.permissions[x] = "active"

\* prepareAccessAssignment: the version shown is still the latest; what the
\* role allows there is copied into the assignment.  The assignments of N09
\* Administration itself are refused here (a dedicated procedure gives them).
PrepareGrant(p, i, r) ==
    LET n == work[p].version
        g == grants[<<i, r>>] IN
    /\ ~ administration
    /\ work[p].stage = "viewed"
    /\ IsLatest(n)
    /\ Grantable(catalogs[n], r)
    /\ g.status # "active"
    /\ Become(p, [work[p] EXCEPT !.stage = "prepared", !.identity = i, !.role = r,
                     !.grant = [status |-> "active", version |-> g.version + 1,
                                permissions |-> catalogs[n].of[r], from |-> n]])
    /\ UNCHANGED registry

\* revokeAccessAssignment: no catalogue is needed.
PrepareRevocation(p, i, r) ==
    LET g == grants[<<i, r>>] IN
    /\ work[p].stage = "idle"
    /\ g.status = "active"
    /\ Become(p, [Idle EXCEPT !.stage = "prepared", !.identity = i, !.role = r,
                     !.grant = [g EXCEPT !.status = "revoked", !.version = @ + 1]])
    /\ UNCHANGED registry

\* saveAssignment: the version follows the one of the row; a new row waits
\* for those who have locked the assignments or the application.
Save(p) ==
    LET i == work[p].identity
        r == work[p].role
        old == grants[<<i, r>>].version IN
    /\ work[p].stage = "prepared"
    /\ Free(p, {<<"grant", i, r>>})
    /\ old = 0 => Free(p, {<<"assignments">>, <<"application">>})
    /\ work[p].grant.version = old + 1 /\ old < MaxVersion
    /\ grants' = [grants EXCEPT ![<<i, r>>] = work[p].grant]
    /\ Answer(p)
    /\ UNCHANGED <<administration, catalogs>>

\* A refusal, an error, an unavailable database or a crash: the transaction
\* is undone.
Fail(p) ==
    /\ work[p].stage # "idle"
    /\ Answer(p)
    /\ UNCHANGED registry

Step(p) ==
    \/ \E v \in 1..MaxCatalogs, c \in Offered : Submit(p, v, c)
    \/ \E n \in 0..MaxCatalogs : Bootstrap(p, n) \/ View(p, n)
    \/ LockVersions(p)
    \/ Check(p)
    \/ Publish(p)
    \/ \E i \in Identities, r \in Roles : PrepareGrant(p, i, r) \/ PrepareRevocation(p, i, r)
    \/ Save(p)
    \/ Fail(p)

Next == \E p \in Workers : Step(p)

Spec == Init /\ [][Next]_vars

-----------------------------------------------------------------------------
(* What the catalogues ensure *)

\* The latest catalogue defines the role and the permissions of every active
\* assignment, those included that were prepared from an older version and
\* saved after the newer one had looked at the assignments (ADR-014: a
\* catalogue cannot make an active assignment uninterpretable).
Interpretable ==
    \A n \in Published, i \in Identities, r \in Roles :
        IsLatest(n) /\ grants[<<i, r>>].status = "active" =>
            /\ catalogs[n].roles[r] # "none"
            /\ \A x \in grants[<<i, r>>].permissions : catalogs[n].permissions[x] # "none"

\* An active assignment decided from the console gives exactly what an active
\* role gave in the published version its decision names.
GrantedAsPublished ==
    \A g \in Identities \X Roles :
        LET n == grants[g].from IN
        grants[g].status = "active" /\ n > 0 =>
            /\ n \in Published
            /\ catalogs[n].roles[g[2]] = "active"
            /\ grants[g].permissions = catalogs[n].of[g[2]]
            /\ \A x \in grants[g].permissions : catalogs[n].permissions[x] = "active"

\* Two bootstraps that run together both succeed: as long as only versions of
\* the chain are published and what is granted is interpretable, what a
\* bootstrap submits is a known version, or it follows the latest one.
BootstrapSucceeds ==
    \A p \in Workers :
        LET v == work[p].version IN
        /\ work[p].stage \in {"submitted", "evolving"} /\ work[p].chained
        /\ Published # {} /\ \A w \in Published : catalogs[w] = Chain[w]
        => \/ v \in Published
           \/ IsLatest(v - 1) /\ Evolves(v, Chain[v]) /\ Interprets(Chain[v])

-----------------------------------------------------------------------------
(* Why they do *)

Exclusive ==
    \A p, q \in Workers : p # q =>
        \A row \in work[p].locks \cap work[q].locks : row = <<"assignments">>

\* What the transaction of a publication has read under its locks is still
\* so: nobody else publishes, nor decides on an assignment it has looked at.
ReadIsStill(x) ==
    /\ x.stage \in {"submitted", "evolving", "checked"} =>
          x.version > 0 /\ x.content \in Catalog /\ Coherent(x.content)
    /\ x.stage \in {"evolving", "checked"} =>
          /\ <<"application">> \in x.locks
          /\ IsLatest(x.version - 1) /\ Evolves(x.version, x.content)
    /\ x.stage = "checked" =>
          AssignmentRows \subseteq x.locks /\ Interprets(x.content)
    /\ x.stage = "viewed" => x.version \in Published

\* What a bootstrap submits follows the latest version, or is known by now.
FollowsChain(x) ==
    x.stage \in {"submitted", "evolving"} /\ x.chained =>
        x.version \in Published \/ IsLatest(x.version - 1)

\* A decision about to be saved carries what a published version gave.
PreparedAsPublished(x) ==
    x.stage = "prepared" =>
        /\ x.grant \in GrantRecord /\ x.identity \in Identities /\ x.role \in Roles
        /\ x.grant.status = "active" =>
              /\ x.grant.from \in Published
              /\ catalogs[x.grant.from].roles[x.role] = "active"
              /\ x.grant.permissions = catalogs[x.grant.from].of[x.role]

\* No version is skipped, and no identifier disappears between two versions.
VersionsStand ==
    \A v \in Published :
        /\ Coherent(catalogs[v])
        /\ v > 1 => v - 1 \in Published
        /\ \A w \in Published : w <= v => Known(catalogs[w]) \subseteq Known(catalogs[v])

Inv ==
    /\ TypeOK
    /\ Exclusive
    /\ \A p \in Workers : /\ ReadIsStill(work[p])
                          /\ FollowsChain(work[p])
                          /\ PreparedAsPublished(work[p])
    /\ VersionsStand
    /\ Interpretable
    /\ GrantedAsPublished
=============================================================================
