------------------------ MODULE AccessCatalogsProofs -------------------------
(***************************************************************************)
(* Proofs about AccessCatalogs for every value of its constants: any       *)
(* number of publications and decisions at a time, any contents offered,   *)
(* any chain of completing versions, any assignments inherited.            *)
(***************************************************************************)
EXTENDS AccessCatalogs, TLAPS

USE CatalogAssumption DEF CatalogAssumption

-----------------------------------------------------------------------------
(* Catalogues and versions *)

\* What it means that a catalogue defines a role or a permission.
LEMMA Defines ==
    ASSUME NEW c \in Catalog
    PROVE  /\ \A r \in Roles : r \in Known(c) <=> c.roles[r] # "none"
           /\ \A x \in Permissions : x \in Known(c) <=> c.permissions[x] # "none"
BY DEF Known

\* What an active role of a coherent catalogue gives is active, and known.
LEMMA ActiveRoleGivesActive ==
    ASSUME NEW c \in Catalog, Coherent(c), NEW r \in Roles, c.roles[r] = "active"
    PROVE  /\ c.of[r] \subseteq Permissions
           /\ \A x \in c.of[r] : c.permissions[x] = "active"
           /\ {r} \cup c.of[r] \subseteq Known(c)
<1>1. c.of[r] \subseteq Permissions
  BY DEF Catalog
<1>2. \A x \in c.of[r] : c.permissions[x] = "active"
  BY DEF Coherent
<1> QED
  BY <1>1, <1>2, Defines

LEMMA PublishedType ==
    ASSUME TypeOK
    PROVE  /\ Published \subseteq 1..MaxCatalogs
           /\ \A v \in Published : catalogs[v] \in Catalog
BY DEF TypeOK, Published

\* There is one latest version.
LEMMA OneLatest ==
    ASSUME NEW v \in Int, NEW w \in Int, IsLatest(v), IsLatest(w), Published \subseteq Nat \ {0}
    PROVE  v = w
BY DEF IsLatest

LEMMA IdleType == Idle \in WorkRecord /\ Idle.chained = FALSE /\ Idle.locks = {}
BY DEF Idle, WorkRecord

LEMMA RowsAreRows ==
    /\ {<<"application">>} \subseteq Row /\ AssignmentRows \subseteq Row
    /\ <<"application">> # <<"assignments">> /\ <<"assignments">> \in AssignmentRows
BY DEF Row, AssignmentRows

-----------------------------------------------------------------------------
(* Steps that only move a worker *)

\* One worker moves to x, the others stay where they are.
LEMMA Moves ==
    ASSUME TypeOK, NEW p \in Workers, NEW x, Become(p, x)
    PROVE  \A q \in Workers : work'[q] = IF q = p THEN x ELSE work[q]
BY DEF TypeOK, Become

LEMMA MovingKeepsExclusive ==
    ASSUME TypeOK, Exclusive, NEW p \in Workers, NEW x, Become(p, x),
           Free(p, x.locks \ work[p].locks)
    PROVE  Exclusive'
<1>1. \A q \in Workers : work'[q] = IF q = p THEN x ELSE work[q]
  BY Moves
<1> SUFFICES ASSUME NEW q \in Workers, NEW s \in Workers, q # s,
                    NEW row \in work'[q].locks \cap work'[s].locks
             PROVE  row = <<"assignments">>
  BY DEF Exclusive
<1>2. CASE q # p /\ s # p
  BY <1>1, <1>2 DEF Exclusive
<1>3. CASE q = p
  BY <1>1, <1>3 DEF Exclusive, Free
<1>4. CASE s = p
  BY <1>1, <1>4 DEF Exclusive, Free
<1> QED
  BY <1>2, <1>3, <1>4

LEMMA MovingKeepsInv ==
    ASSUME Inv, NEW p \in Workers, NEW x \in WorkRecord, Become(p, x),
           Free(p, x.locks \ work[p].locks),
           ReadIsStill(x), FollowsChain(x), PreparedAsPublished(x), UNCHANGED registry
    PROVE  Inv'
<1> USE DEF Inv, registry
<1>1. TypeOK'
  BY DEF TypeOK, Become
<1>2. \A q \in Workers : work'[q] = IF q = p THEN x ELSE work[q]
  BY Moves
<1>3. Exclusive'
  BY MovingKeepsExclusive
<1>4. Published' = Published /\ \A v : IsLatest(v)' <=> IsLatest(v)
  BY DEF Published, IsLatest
<1>5. ASSUME NEW q \in Workers
      PROVE  ReadIsStill(work[q])' /\ FollowsChain(work[q])' /\ PreparedAsPublished(work[q])'
  <2>1. ReadIsStill(work'[q]) /\ FollowsChain(work'[q]) /\ PreparedAsPublished(work'[q])
    BY <1>2
  <2>2. /\ \A v, c : Evolves(v, c)' <=> Evolves(v, c)
        /\ \A c : Interprets(c)' <=> Interprets(c)
        /\ AssignmentRows' = AssignmentRows
    BY DEF Evolves, Interprets, AssignmentRows
  <2>3. ReadIsStill(work[q])'
    BY <1>4, <2>1, <2>2 DEF ReadIsStill
  <2>4. FollowsChain(work[q])'
    BY <1>4, <2>1 DEF FollowsChain
  <2>5. PreparedAsPublished(work[q])'
    BY <1>4, <2>1 DEF PreparedAsPublished
  <2> QED
    BY <2>3, <2>4, <2>5
<1>6. VersionsStand'
  BY <1>4 DEF VersionsStand
<1>7. Interpretable'
  BY <1>4 DEF Interpretable
<1>8. GrantedAsPublished'
  BY <1>4 DEF GrantedAsPublished
<1> QED
  BY <1>1, <1>3, <1>5, <1>6, <1>7, <1>8

LEMMA IdleIsProper ==
    /\ ReadIsStill(Idle) /\ FollowsChain(Idle) /\ PreparedAsPublished(Idle)
    /\ Idle.locks = {}
BY DEF Idle, ReadIsStill, FollowsChain, PreparedAsPublished

LEMMA AnsweringKeepsInv ==
    ASSUME Inv, NEW p \in Workers, Answer(p), UNCHANGED registry PROVE Inv'
<1>1. Free(p, Idle.locks \ work[p].locks)
  BY IdleIsProper DEF Free
<1> QED
  BY <1>1, IdleType, IdleIsProper, MovingKeepsInv DEF Answer

LEMMA InitInv == Init => Inv
<1> SUFFICES ASSUME Init PROVE Inv
  OBVIOUS
<1>1. TypeOK
  <2>1. grants \in [Identities \X Roles -> GrantRecord]
    <3> SUFFICES ASSUME NEW g \in Identities \X Roles PROVE grants[g] \in GrantRecord
      BY DEF Init
    <3>1. Inherited[g] \in SUBSET Permissions
      OBVIOUS
    <3> QED
      BY <3>1 DEF Init, GrantRecord
  <2> QED
    BY <2>1, IdleType DEF Init, TypeOK
<1>2. Published = {} /\ \A p \in Workers : work[p] = Idle
  BY DEF Init, Published
<1>3. Exclusive /\ \A p \in Workers : /\ ReadIsStill(work[p])
                                      /\ FollowsChain(work[p])
                                      /\ PreparedAsPublished(work[p])
  BY <1>2, IdleIsProper DEF Exclusive
<1>4. VersionsStand /\ Interpretable
  BY <1>2 DEF VersionsStand, Interpretable
<1>5. GrantedAsPublished
  BY DEF Init, GrantedAsPublished
<1> QED
  BY <1>1, <1>3, <1>4, <1>5 DEF Inv

-----------------------------------------------------------------------------
(* What does not write *)

LEMMA SubmitKeepsInv ==
    ASSUME Inv, NEW p \in Workers, NEW v \in 1..MaxCatalogs, NEW c \in Offered, Submit(p, v, c)
    PROVE  Inv'
<1> DEFINE x == [Idle EXCEPT !.stage = "submitted", !.version = v, !.content = c]
<1>1. /\ x \in WorkRecord /\ x.stage = "submitted" /\ x.chained = FALSE
      /\ x.version = v /\ x.content = c /\ x.locks = {}
  <2>1. v \in 0..MaxCatalogs /\ c \in Catalog \cup {None}
    OBVIOUS
  <2> QED
    BY <2>1, IdleType DEF WorkRecord
<1>2. Become(p, x) /\ Coherent(c) /\ UNCHANGED registry
  BY DEF Submit
<1> HIDE DEF x
<1>3. ReadIsStill(x) /\ FollowsChain(x) /\ PreparedAsPublished(x)
  BY <1>1, <1>2 DEF ReadIsStill, FollowsChain, PreparedAsPublished
<1>4. Free(p, x.locks \ work[p].locks)
  BY <1>1 DEF Free
<1> QED
  BY <1>1, <1>2, <1>3, <1>4, MovingKeepsInv

LEMMA BootstrapKeepsInv ==
    ASSUME Inv, NEW p \in Workers, NEW n \in 0..MaxCatalogs, Bootstrap(p, n)
    PROVE  Inv'
<1>1. PICK v \in 1..MaxCatalogs : v = IF n < Last THEN n + 1 ELSE Last
  BY DEF Last
<1>2. Chain[v] \in Catalog /\ Coherent(Chain[v])
  BY ChainAssumption DEF Completing, Last
<1> DEFINE x == [Idle EXCEPT !.stage = "submitted", !.chained = TRUE,
                             !.version = v, !.content = Chain[v]]
<1>3. /\ x \in WorkRecord /\ x.stage = "submitted"
      /\ x.version = v /\ x.content = Chain[v] /\ x.locks = {}
  <2>1. v \in 0..MaxCatalogs /\ Chain[v] \in Catalog \cup {None}
    BY <1>2
  <2> QED
    BY <2>1, IdleType DEF WorkRecord
<1>4. Become(p, x) /\ UNCHANGED registry /\ IsLatest(n)
  BY <1>1 DEF Bootstrap
<1> HIDE DEF x
<1>5. ReadIsStill(x) /\ PreparedAsPublished(x)
  BY <1>2, <1>3 DEF ReadIsStill, PreparedAsPublished
<1>6. FollowsChain(x)
  BY <1>1, <1>3, <1>4 DEF FollowsChain, IsLatest, Last
<1>7. Free(p, x.locks \ work[p].locks)
  BY <1>3 DEF Free
<1> QED
  BY <1>3, <1>4, <1>5, <1>6, <1>7, MovingKeepsInv

LEMMA ViewKeepsInv ==
    ASSUME Inv, NEW p \in Workers, NEW n \in 0..MaxCatalogs, View(p, n)
    PROVE  Inv'
<1> DEFINE x == [Idle EXCEPT !.stage = "viewed", !.version = n]
<1>1. x \in WorkRecord /\ x.stage = "viewed" /\ x.version = n /\ x.locks = {}
  BY IdleType DEF WorkRecord
<1>2. Become(p, x) /\ n \in Published /\ UNCHANGED registry
  BY DEF View, IsLatest
<1> HIDE DEF x
<1>3. ReadIsStill(x) /\ FollowsChain(x) /\ PreparedAsPublished(x)
  BY <1>1, <1>2 DEF ReadIsStill, FollowsChain, PreparedAsPublished
<1>4. Free(p, x.locks \ work[p].locks)
  BY <1>1 DEF Free
<1> QED
  BY <1>1, <1>2, <1>3, <1>4, MovingKeepsInv

LEMMA LockVersionsKeepsInv ==
    ASSUME Inv, NEW p \in Workers, LockVersions(p) PROVE Inv'
<1> DEFINE x == [work[p] EXCEPT !.stage = "evolving", !.locks = {<<"application">>}]
           goes == IsLatest(work[p].version - 1) /\ Evolves(work[p].version, work[p].content)
<1>1. CASE goes
  <2>1. /\ x \in WorkRecord /\ x.stage = "evolving" /\ x.version = work[p].version
        /\ x.content = work[p].content /\ x.chained = work[p].chained
        /\ x.locks = {<<"application">>}
    <3>1. work[p] \in WorkRecord
      BY DEF Inv, TypeOK
    <3> QED
      BY <3>1, RowsAreRows DEF WorkRecord
  <2>2. Become(p, x) /\ UNCHANGED registry /\ Free(p, {<<"application">>})
    BY <1>1 DEF LockVersions
  <2> HIDE DEF x
  <2>3. ReadIsStill(x)
    BY <1>1, <2>1 DEF ReadIsStill, Inv, LockVersions
  <2>4. FollowsChain(x) /\ PreparedAsPublished(x)
    BY <1>1, <2>1 DEF FollowsChain, PreparedAsPublished
  <2>5. Free(p, x.locks \ work[p].locks)
    BY <2>1, <2>2 DEF Free
  <2> QED
    BY <2>1, <2>2, <2>3, <2>4, <2>5, MovingKeepsInv
<1>2. CASE ~goes
  <2>1. Answer(p) /\ UNCHANGED registry
    BY <1>2 DEF LockVersions
  <2> QED
    BY <2>1, AnsweringKeepsInv
<1> QED
  BY <1>1, <1>2

LEMMA CheckKeepsInv ==
    ASSUME Inv, NEW p \in Workers, Check(p) PROVE Inv'
<1> DEFINE x == [work[p] EXCEPT !.stage = "checked", !.locks = @ \cup AssignmentRows]
<1>1. CASE Interprets(work[p].content)
  <2>1. /\ x \in WorkRecord /\ x.stage = "checked" /\ x.version = work[p].version
        /\ x.content = work[p].content
        /\ x.locks = work[p].locks \cup AssignmentRows
    <3>1. work[p] \in WorkRecord
      BY DEF Inv, TypeOK
    <3> QED
      BY <3>1, RowsAreRows DEF WorkRecord
  <2>2. Become(p, x) /\ UNCHANGED registry /\ Free(p, AssignmentRows)
    BY <1>1 DEF Check
  <2> HIDE DEF x
  <2>3. ReadIsStill(x)
    BY <1>1, <2>1 DEF ReadIsStill, Inv, Check
  <2>4. FollowsChain(x) /\ PreparedAsPublished(x)
    BY <2>1 DEF FollowsChain, PreparedAsPublished
  <2>5. Free(p, x.locks \ work[p].locks)
    BY <2>1, <2>2 DEF Free
  <2> QED
    BY <2>1, <2>2, <2>3, <2>4, <2>5, MovingKeepsInv
<1>2. CASE ~Interprets(work[p].content)
  <2>1. Answer(p) /\ UNCHANGED registry
    BY <1>2 DEF Check
  <2> QED
    BY <2>1, AnsweringKeepsInv
<1> QED
  BY <1>1, <1>2

LEMMA PrepareGrantKeepsInv ==
    ASSUME Inv, NEW p \in Workers, NEW i \in Identities, NEW r \in Roles, PrepareGrant(p, i, r)
    PROVE  Inv'
<1> DEFINE n == work[p].version
           g == [status |-> "active", version |-> grants[<<i, r>>].version + 1,
                 permissions |-> catalogs[n].of[r], from |-> n]
           x == [work[p] EXCEPT !.stage = "prepared", !.identity = i, !.role = r, !.grant = g]
<1>1. /\ work[p] \in WorkRecord /\ n \in Published /\ catalogs[n] \in Catalog
      /\ work[p].stage = "viewed" /\ grants[<<i, r>>] \in GrantRecord
  BY PublishedType DEF Inv, TypeOK, ReadIsStill, PrepareGrant
<1>2. /\ g \in GrantRecord /\ g.status = "active" /\ g.from = n
      /\ g.permissions = catalogs[n].of[r]
  <2>1. catalogs[n].of[r] \in SUBSET Permissions /\ n \in 0..MaxCatalogs
    BY <1>1 DEF Catalog, WorkRecord
  <2>2. grants[<<i, r>>].version + 1 \in Nat
    BY <1>1 DEF GrantRecord
  <2> QED
    BY <2>1, <2>2 DEF GrantRecord
<1>3. Become(p, x) /\ UNCHANGED registry /\ Grantable(catalogs[n], r)
  BY DEF PrepareGrant
<1> HIDE DEF g
<1>4. /\ x \in WorkRecord /\ x.stage = "prepared" /\ x.identity = i /\ x.role = r
      /\ x.grant = g /\ x.locks = work[p].locks
  BY <1>1, <1>2 DEF WorkRecord
<1> HIDE DEF x
<1>5. ReadIsStill(x) /\ FollowsChain(x)
  BY <1>4 DEF ReadIsStill, FollowsChain
<1>6. PreparedAsPublished(x)
  BY <1>1, <1>2, <1>3, <1>4 DEF PreparedAsPublished, Grantable
<1>7. Free(p, x.locks \ work[p].locks)
  BY <1>4 DEF Free
<1> QED
  BY <1>3, <1>4, <1>5, <1>6, <1>7, MovingKeepsInv

LEMMA PrepareRevocationKeepsInv ==
    ASSUME Inv, NEW p \in Workers, NEW i \in Identities, NEW r \in Roles,
           PrepareRevocation(p, i, r)
    PROVE  Inv'
<1> DEFINE g == [grants[<<i, r>>] EXCEPT !.status = "revoked", !.version = @ + 1]
           x == [Idle EXCEPT !.stage = "prepared", !.identity = i, !.role = r, !.grant = g]
<1>1. g \in GrantRecord /\ g.status = "revoked"
  <2>1. grants[<<i, r>>] \in GrantRecord
    BY DEF Inv, TypeOK
  <2>2. grants[<<i, r>>].version + 1 \in Nat
    BY <2>1 DEF GrantRecord
  <2> QED
    BY <2>1, <2>2 DEF GrantRecord
<1>2. Become(p, x) /\ UNCHANGED registry
  BY DEF PrepareRevocation
<1> HIDE DEF g
<1>3. /\ x \in WorkRecord /\ x.stage = "prepared" /\ x.identity = i /\ x.role = r
      /\ x.grant = g /\ x.locks = {}
  BY <1>1, IdleType DEF WorkRecord
<1> HIDE DEF x
<1>4. ReadIsStill(x) /\ FollowsChain(x) /\ PreparedAsPublished(x)
  BY <1>1, <1>3 DEF ReadIsStill, FollowsChain, PreparedAsPublished
<1>5. Free(p, x.locks \ work[p].locks)
  BY <1>3 DEF Free
<1> QED
  BY <1>2, <1>3, <1>4, <1>5, MovingKeepsInv

-----------------------------------------------------------------------------
(* What writes *)

\* Nobody else is between its read of the versions and its end.
LEMMA OnePublication ==
    ASSUME Inv, NEW p \in Workers, NEW q \in Workers, q # p,
           work[p].stage = "checked"
    PROVE  work[q].stage \notin {"evolving", "checked"}
<1>1. <<"application">> \in work[p].locks
  BY DEF Inv, ReadIsStill
<1>2. work[q].stage \in {"evolving", "checked"} => <<"application">> \in work[q].locks
  BY DEF Inv, ReadIsStill
<1> QED
  BY <1>1, <1>2, RowsAreRows DEF Inv, Exclusive

LEMMA PublishKeepsInv ==
    ASSUME Inv, NEW p \in Workers, Publish(p) PROVE Inv'
<1> USE DEF Inv
<1>1. PICK v \in 1..MaxCatalogs, c \in Catalog :
         /\ v = work[p].version /\ c = work[p].content
         /\ Coherent(c) /\ IsLatest(v - 1) /\ Evolves(v, c) /\ Interprets(c)
  BY DEF Publish, ReadIsStill, TypeOK, WorkRecord
<1>2. v \notin Published /\ \A w \in Published : w \in 1..MaxCatalogs /\ w <= v - 1
  BY <1>1, PublishedType DEF IsLatest
<1>3. c # None
  OBVIOUS
<1>4. /\ catalogs' = [catalogs EXCEPT ![v] = c]
      /\ grants' = grants /\ administration' = administration
      /\ \A q \in Workers : work'[q] = IF q = p THEN Idle ELSE work[q]
  BY <1>1, Moves DEF Publish, Answer
<1>5. /\ catalogs'[v] = c /\ \A w \in Published : catalogs'[w] = catalogs[w]
      /\ Published' = Published \cup {v}
  BY <1>2, <1>3, <1>4 DEF TypeOK, Published
<1>6. IsLatest(v)'
  BY <1>2, <1>5 DEF IsLatest
<1>7. TypeOK'
  <2>1. work' \in [Workers -> WorkRecord]
    BY IdleType DEF TypeOK, Publish, Answer, Become
  <2>2. catalogs' \in [1..MaxCatalogs -> Catalog \cup {None}]
    BY <1>4 DEF TypeOK
  <2> QED
    BY <1>4, <2>1, <2>2 DEF TypeOK
<1>8. Exclusive'
  <2>1. Free(p, Idle.locks \ work[p].locks)
    BY IdleType DEF Free
  <2> QED
    BY <2>1, MovingKeepsExclusive DEF Publish, Answer
<1>9. ASSUME NEW q \in Workers
      PROVE  ReadIsStill(work[q])' /\ FollowsChain(work[q])' /\ PreparedAsPublished(work[q])'
  <2>1. CASE q = p
    <3>1. work'[q] = Idle
      BY <1>4, <2>1
    <3>2. Idle.stage = "idle"
      BY DEF Idle
    <3> HIDE DEF Inv, Idle
    <3> QED
      BY <3>1, <3>2 DEF ReadIsStill, FollowsChain, PreparedAsPublished
  <2>2. CASE q # p
    <3>1. work'[q] = work[q] /\ work[q].stage \notin {"evolving", "checked"}
      BY <1>4, <2>2, OnePublication DEF Publish
    <3>2. ReadIsStill(work[q])'
      BY <1>5, <3>1 DEF ReadIsStill
    <3>3. FollowsChain(work[q])'
      <4> SUFFICES ASSUME work[q].stage \in {"submitted", "evolving"}, work[q].chained,
                          work[q].version \notin Published
                   PROVE  work[q].version = v
        BY <1>5, <3>1 DEF FollowsChain
      <4>1. IsLatest(work[q].version - 1)
        BY DEF FollowsChain
      <4>2. work[q].version \in Int
        BY DEF TypeOK, WorkRecord
      <4>3. work[q].version - 1 = v - 1
        BY <1>1, <4>1, <4>2, PublishedType, OneLatest
      <4> QED
        BY <4>2, <4>3
    <3>4. PreparedAsPublished(work[q])'
      BY <1>5, <3>1 DEF PreparedAsPublished
    <3> QED
      BY <3>2, <3>3, <3>4
  <2> QED
    BY <2>1, <2>2
<1>10. VersionsStand'
  <2>1. v > 1 => v - 1 \in Published
    BY <1>1 DEF IsLatest
  <2>2. ASSUME NEW w \in Published PROVE Known(catalogs[w]) \subseteq Known(c)
    <3>1. w <= v - 1 /\ v > 1 /\ v - 1 \in Published
      BY <1>2, <2>1
    <3> QED
      BY <1>1, <3>1 DEF VersionsStand, Evolves
  <2> SUFFICES ASSUME NEW u \in Published'
               PROVE  /\ Coherent(catalogs'[u])
                      /\ u > 1 => u - 1 \in Published'
                      /\ \A w \in Published' :
                           w <= u => Known(catalogs'[w]) \subseteq Known(catalogs'[u])
    BY DEF VersionsStand
  <2>3. CASE u = v
    BY <1>1, <1>5, <2>1, <2>2, <2>3
  <2>4. CASE u # v
    <3>1. u \in Published /\ u \in Int /\ ~(v <= u)
      BY <1>2, <1>5, <2>4
    <3> QED
      BY <1>5, <3>1 DEF VersionsStand
  <2> QED
    BY <2>3, <2>4
<1>11. Interpretable'
  <2> SUFFICES ASSUME NEW n \in Published', NEW i \in Identities, NEW r \in Roles,
                      IsLatest(n)', grants[<<i, r>>].status = "active"
               PROVE  /\ catalogs'[n].roles[r] # "none"
                      /\ \A x \in grants[<<i, r>>].permissions :
                           catalogs'[n].permissions[x] # "none"
    BY <1>4 DEF Interpretable
  <2>1. n = v
    BY <1>2, <1>5, <1>6 DEF IsLatest
  <2>2. {r} \cup grants[<<i, r>>].permissions \subseteq Known(c)
    BY <1>1 DEF Interprets
  <2>3. grants[<<i, r>>].permissions \subseteq Permissions
    BY DEF TypeOK, GrantRecord
  <2> QED
    BY <1>5, <2>1, <2>2, <2>3, Defines
<1>12. GrantedAsPublished'
  BY <1>4, <1>5 DEF GrantedAsPublished
<1> QED
  BY <1>7, <1>8, <1>9, <1>10, <1>11, <1>12

LEMMA SaveKeepsInv ==
    ASSUME Inv, NEW p \in Workers, Save(p) PROVE Inv'
<1> USE DEF Inv
<1>1. PICK i \in Identities, r \in Roles, g \in GrantRecord :
         /\ i = work[p].identity /\ r = work[p].role /\ g = work[p].grant
         /\ g.status = "active" => /\ g.from \in Published
                                   /\ catalogs[g.from].roles[r] = "active"
                                   /\ g.permissions = catalogs[g.from].of[r]
  BY DEF Save, PreparedAsPublished
<1>2. /\ grants' = [grants EXCEPT ![<<i, r>>] = g]
      /\ catalogs' = catalogs /\ administration' = administration
      /\ \A q \in Workers : work'[q] = IF q = p THEN Idle ELSE work[q]
  BY <1>1, Moves DEF Save, Answer
<1>3. /\ grants'[<<i, r>>] = g
      /\ \A x \in Identities \X Roles : x # <<i, r>> => grants'[x] = grants[x]
  BY <1>2 DEF TypeOK
<1>4. Published' = Published /\ \A v : IsLatest(v)' <=> IsLatest(v)
  BY <1>2 DEF Published, IsLatest
<1>5. g.status = "active" =>
        /\ \A x \in g.permissions : catalogs[g.from].permissions[x] = "active"
        /\ {r} \cup g.permissions \subseteq Known(catalogs[g.from])
  <2> SUFFICES ASSUME g.status = "active"
               PROVE  /\ \A x \in g.permissions : catalogs[g.from].permissions[x] = "active"
                      /\ {r} \cup g.permissions \subseteq Known(catalogs[g.from])
    OBVIOUS
  <2>1. /\ g.from \in Published /\ catalogs[g.from].roles[r] = "active"
        /\ g.permissions = catalogs[g.from].of[r]
    BY <1>1
  <2>2. catalogs[g.from] \in Catalog /\ Coherent(catalogs[g.from])
    BY <2>1, PublishedType DEF VersionsStand
  <2> HIDE DEF Inv
  <2> QED
    BY <2>1, <2>2, ActiveRoleGivesActive
<1>6. TypeOK'
  <2>1. work' \in [Workers -> WorkRecord]
    BY IdleType DEF TypeOK, Save, Answer, Become
  <2>2. grants' \in [Identities \X Roles -> GrantRecord]
    BY <1>2 DEF TypeOK
  <2> QED
    BY <1>2, <2>1, <2>2 DEF TypeOK
<1>7. Exclusive'
  <2>1. Free(p, Idle.locks \ work[p].locks)
    BY IdleType DEF Free
  <2> QED
    BY <2>1, MovingKeepsExclusive DEF Save, Answer
<1>8. ASSUME NEW q \in Workers
      PROVE  ReadIsStill(work[q])' /\ FollowsChain(work[q])' /\ PreparedAsPublished(work[q])'
  <2>1. CASE q = p
    <3>1. work'[q] = Idle
      BY <1>2, <2>1
    <3>2. Idle.stage = "idle"
      BY DEF Idle
    <3> HIDE DEF Inv, Idle
    <3> QED
      BY <3>1, <3>2 DEF ReadIsStill, FollowsChain, PreparedAsPublished
  <2>2. CASE q # p
    <3>1. work[q].stage # "checked"
      <4> SUFFICES ASSUME work[q].stage = "checked" PROVE FALSE
        OBVIOUS
      <4>1. AssignmentRows \subseteq work[q].locks
        BY DEF ReadIsStill
      <4>2. CASE grants[<<i, r>>].version = 0
        <5>1. <<"assignments">> \notin work[q].locks
          BY <1>1, <2>2, <4>2 DEF Save, Free
        <5> QED
          BY <4>1, <5>1, RowsAreRows
      <4>3. CASE grants[<<i, r>>].version > 0
        <5>1. <<"grant", i, r>> \notin work[q].locks
          BY <1>1, <2>2 DEF Save, Free
        <5>2. <<i, r>> \in {x \in Identities \X Roles : grants[x].version > 0}
          BY <4>3
        <5>3. <<"grant", i, r>> \in AssignmentRows
          BY <5>2 DEF AssignmentRows
        <5> QED
          BY <4>1, <5>1, <5>3
      <4>4. grants[<<i, r>>].version \in Nat
        BY DEF TypeOK, GrantRecord
      <4> QED
        BY <4>2, <4>3, <4>4
    <3>2. work'[q] = work[q]
      BY <1>2, <2>2
    <3>3. ReadIsStill(work[q])'
      BY <1>2, <1>4, <3>1, <3>2 DEF ReadIsStill, Evolves
    <3>4. FollowsChain(work[q])'
      BY <1>4, <3>2 DEF FollowsChain
    <3>5. PreparedAsPublished(work[q])'
      BY <1>2, <1>4, <3>2 DEF PreparedAsPublished
    <3> QED
      BY <3>3, <3>4, <3>5
  <2> QED
    BY <2>1, <2>2
<1>9. VersionsStand'
  BY <1>2, <1>4 DEF VersionsStand
<1>10. Interpretable'
  <2> SUFFICES ASSUME NEW n \in Published, NEW j \in Identities, NEW s \in Roles,
                      IsLatest(n), grants'[<<j, s>>].status = "active"
               PROVE  /\ catalogs[n].roles[s] # "none"
                      /\ \A x \in grants'[<<j, s>>].permissions :
                           catalogs[n].permissions[x] # "none"
    BY <1>2, <1>4 DEF Interpretable
  <2>1. CASE <<j, s>> # <<i, r>>
    BY <1>3, <2>1 DEF Interpretable
  <2>2. CASE <<j, s>> = <<i, r>>
    <3>1. grants'[<<j, s>>] = g /\ s = r
      BY <1>3, <2>2
    <3>2. g.from \in Published /\ g.from <= n
      BY <1>1, <3>1 DEF IsLatest
    <3>3. {r} \cup g.permissions \subseteq Known(catalogs[n])
      BY <1>5, <3>1, <3>2 DEF VersionsStand
    <3>4. g.permissions \subseteq Permissions /\ catalogs[n] \in Catalog
      BY PublishedType DEF GrantRecord
    <3> QED
      BY <3>1, <3>3, <3>4, Defines
  <2> QED
    BY <2>1, <2>2
<1>11. GrantedAsPublished'
  <2>1. ASSUME NEW x \in Identities \X Roles, x # <<i, r>>
        PROVE  grants'[x] = grants[x]
    BY <1>3, <2>1
  <2> QED
    <3>1. ASSUME NEW x \in Identities \X Roles, x # <<i, r>>,
                 grants'[x].status = "active", grants'[x].from > 0
          PROVE  LET n == grants'[x].from IN
                 /\ n \in Published /\ catalogs[n].roles[x[2]] = "active"
                 /\ grants'[x].permissions = catalogs[n].of[x[2]]
                 /\ \A y \in grants'[x].permissions : catalogs[n].permissions[y] = "active"
      <4>1. grants'[x] = grants[x] /\ GrantedAsPublished
        BY <2>1, <3>1
      <4> HIDE DEF Inv
      <4> QED
        BY <3>1, <4>1 DEF GrantedAsPublished
    <3>2. ASSUME grants'[<<i, r>>].status = "active"
          PROVE  LET n == grants'[<<i, r>>].from IN
                 /\ n \in Published /\ catalogs[n].roles[r] = "active"
                 /\ grants'[<<i, r>>].permissions = catalogs[n].of[r]
                 /\ \A y \in grants'[<<i, r>>].permissions : catalogs[n].permissions[y] = "active"
      BY <1>1, <1>3, <1>5, <3>2
    <3> HIDE DEF Inv
    <3>3. <<i, r>>[2] = r
      OBVIOUS
    <3> QED
      BY <1>2, <1>4, <3>1, <3>2, <3>3 DEF GrantedAsPublished
<1> QED
  BY <1>6, <1>7, <1>8, <1>9, <1>10, <1>11

-----------------------------------------------------------------------------

LEMMA StepKeepsInv == Inv /\ [Next]_vars => Inv'
<1> SUFFICES ASSUME Inv, [Next]_vars PROVE Inv'
  OBVIOUS
<1>1. ASSUME NEW p \in Workers, Step(p) PROVE Inv'
  <2>1. ASSUME NEW v \in 1..MaxCatalogs, NEW c \in Offered, Submit(p, v, c) PROVE Inv'
    BY <2>1, SubmitKeepsInv
  <2>2. ASSUME NEW n \in 0..MaxCatalogs, Bootstrap(p, n) \/ View(p, n) PROVE Inv'
    BY <2>2, BootstrapKeepsInv, ViewKeepsInv
  <2>3. CASE LockVersions(p) \/ Check(p) \/ Publish(p) \/ Save(p)
    BY <2>3, LockVersionsKeepsInv, CheckKeepsInv, PublishKeepsInv, SaveKeepsInv
  <2>4. ASSUME NEW i \in Identities, NEW r \in Roles,
               PrepareGrant(p, i, r) \/ PrepareRevocation(p, i, r)
        PROVE  Inv'
    BY <2>4, PrepareGrantKeepsInv, PrepareRevocationKeepsInv
  <2>5. CASE Fail(p)
    BY <2>5, AnsweringKeepsInv DEF Fail
  <2> QED
    BY <1>1, <2>1, <2>2, <2>3, <2>4, <2>5 DEF Step
<1>2. CASE UNCHANGED vars
  <2>1. TypeOK' /\ Exclusive'
    BY <1>2 DEF Inv, vars, TypeOK, Exclusive
  <2>2. Published' = Published /\ \A v : IsLatest(v)' <=> IsLatest(v)
    BY <1>2 DEF vars, Published, IsLatest
  <2>3. \A p \in Workers : ReadIsStill(work[p])'
    BY <1>2, <2>2 DEF Inv, vars, ReadIsStill, Evolves, Interprets, AssignmentRows
  <2>4. \A p \in Workers : FollowsChain(work[p])' /\ PreparedAsPublished(work[p])'
    BY <1>2, <2>2 DEF Inv, vars, FollowsChain, PreparedAsPublished
  <2>5. VersionsStand' /\ Interpretable'
    BY <1>2, <2>2 DEF Inv, vars, VersionsStand, Interpretable
  <2>6. GrantedAsPublished'
    BY <1>2, <2>2 DEF Inv, vars, GrantedAsPublished
  <2> QED
    BY <2>1, <2>3, <2>4, <2>5, <2>6 DEF Inv
<1> QED
  BY <1>1, <1>2 DEF Next

\* Publications and decisions, whatever their order: versions follow each
\* other and lose no identifier, what a publication has read under its locks
\* holds until it ends, and what a decision carries is what a published
\* version gave (the transactions of publishApplicationAccessCatalog and
\* saveAssignment).
THEOREM CatalogInvariant == Spec => []Inv
<1> QED
  BY InitInv, StepKeepsInv, PTL DEF Spec

\* The latest catalogue always defines the role and the permissions of every
\* active assignment, even one prepared from an older version and saved
\* after the newer one had looked at the assignments.
THEOREM GrantsStayInterpretable == Spec => []Interpretable
<1>1. Inv => Interpretable
  BY DEF Inv
<1> QED
  BY <1>1, CatalogInvariant, PTL

\* An active assignment decided from the console gives exactly what an active
\* role gave in the published version its decision names.
THEOREM GrantsAreAsPublished == Spec => []GrantedAsPublished
<1>1. Inv => GrantedAsPublished
  BY DEF Inv
<1> QED
  BY <1>1, CatalogInvariant, PTL

\* As long as only versions of the chain are published, what a bootstrap has
\* submitted is a known version or it follows the latest one, keeps its
\* identifiers and interprets every active assignment: bootstraps that run
\* together all succeed.
THEOREM BootstrapsSucceed == Spec => []BootstrapSucceeds
<1>1. Inv => BootstrapSucceeds
  <2> SUFFICES ASSUME Inv, NEW p \in Workers, NEW v, v = work[p].version,
                      work[p].stage \in {"submitted", "evolving"}, work[p].chained,
                      Published # {}, \A w \in Published : catalogs[w] = Chain[w],
                      v \notin Published
               PROVE  IsLatest(v - 1) /\ Evolves(v, Chain[v]) /\ Interprets(Chain[v])
    BY DEF BootstrapSucceeds
  <2>1. v \in 1..MaxCatalogs /\ IsLatest(v - 1)
    BY DEF Inv, TypeOK, WorkRecord, ReadIsStill, FollowsChain
  <2>2. v - 1 \in Published /\ v - 1 \in 1..(Last - 1)
    BY <2>1, PublishedType DEF IsLatest, Inv, Last
  <2>3. /\ Chain[v] \in Catalog /\ Chain[v - 1] = catalogs[v - 1]
        /\ Known(Chain[v - 1]) \subseteq Known(Chain[v])
    <3>1. Chain \in [1..Last -> Catalog] /\ v \in 1..Last
      BY <2>1, ChainAssumption DEF Last
    <3>2. \A u \in 1..(Last - 1) : Known(Chain[u]) \subseteq Known(Chain[u + 1])
      BY ChainAssumption DEF Completing
    <3>3. (v - 1) + 1 = v
      BY <2>1
    <3> QED
      BY <2>2, <3>1, <3>2, <3>3
  <2>4. Evolves(v, Chain[v])
    BY <2>3 DEF Evolves
  <2>5. Interprets(Chain[v])
    <3> SUFFICES ASSUME NEW i \in Identities, NEW r \in Roles,
                        grants[<<i, r>>].status = "active"
                 PROVE  {r} \cup grants[<<i, r>>].permissions \subseteq Known(catalogs[v - 1])
      BY <2>3 DEF Interprets
    <3>1. /\ catalogs[v - 1].roles[r] # "none"
          /\ \A x \in grants[<<i, r>>].permissions : catalogs[v - 1].permissions[x] # "none"
      BY <2>1, <2>2 DEF Inv, Interpretable
    <3>2. grants[<<i, r>>].permissions \subseteq Permissions /\ catalogs[v - 1] \in Catalog
      BY <2>2, PublishedType DEF Inv, TypeOK, GrantRecord
    <3> QED
      BY <3>1, <3>2, Defines
  <2> QED
    BY <2>1, <2>4, <2>5
<1> QED
  BY <1>1, CatalogInvariant, PTL
=============================================================================
