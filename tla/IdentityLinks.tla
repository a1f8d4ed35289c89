---------------------------- MODULE IdentityLinks ----------------------------
(***************************************************************************)
(* How a person known to an identity provider becomes known to the         *)
(* registry: a first login leaves a temporary request, an operator links   *)
(* its principal - an issuer and a subject - to an identity, or rejects it *)
(* (http.mjs, federated-identity.mjs, mariadb.mjs).                        *)
(*                                                                         *)
(* A worker is one login or one decision.  It reads outside any            *)
(* transaction, then its transaction locks rows one after the other and    *)
(* keeps them locked up to its end, where all it wrote becomes visible.    *)
(***************************************************************************)
EXTENDS Integers

CONSTANTS
    Identities,
    Principals,      \* pairs of an issuer and a subject
    None,
    Requests,        \* request identifiers (randomUUID): each is used once
    Workers,
    Ttl,             \* LINK_REQUEST_TTL_MS
    MaxTime          \* bound: last instant of the clock

ASSUME LinksAssumption ==
    /\ None \notin Identities \cup Principals \cup Requests
    /\ Ttl \in Nat \ {0} /\ MaxTime \in Nat

VARIABLES
    clock,
    status,          \* identities.status
    requests,        \* external_identity_link_requests
    links,           \* external_identities: the identity of each principal
    work             \* what each login or decision holds in memory

vars == <<clock, status, requests, links, work>>

RequestRecord ==
    [status: {"absent", "pending", "approved", "rejected"}, principal: Principals \cup {None},
     from: Nat, until: Nat, target: Identities \cup {None}]

NoRequest == [status |-> "absent", principal |-> None, from |-> 0, until |-> 0, target |-> None]

Row == {<<"request", r>> : r \in Requests} \cup {<<"identity", i>> : i \in Identities}
          \cup {<<"link", x>> : x \in Principals} \cup {<<"links">>}
          \cup {<<"range", x>> : x \in Principals}

WorkRecord ==
    [stage: {"idle", "unlinked", "asking", "scanned", "deciding", "locked", "linking"},
     principal: Principals \cup {None}, at: Nat,
     request: Requests \cup {None}, decision: {"approved", "rejected"},
     target: Identities \cup {None}, locks: SUBSET Row]

Idle == [stage |-> "idle", principal |-> None, at |-> 0, request |-> None,
         decision |-> "rejected", target |-> None, locks |-> {}]

TypeOK ==
    /\ clock \in Nat
    /\ status \in [Identities -> {"active", "suspended", "disabled"}]
    /\ requests \in [Requests -> RequestRecord]
    /\ links \in [Principals -> Identities \cup {None}]
    /\ work \in [Workers -> WorkRecord]

Init ==
    /\ clock = 0
    /\ status = [i \in Identities |-> "active"]
    /\ requests = [r \in Requests |-> NoRequest]
    /\ links = [x \in Principals |-> None]
    /\ work = [p \in Workers |-> Idle]

-----------------------------------------------------------------------------
(* Helpers *)

registry == <<clock, status, requests, links>>

Become(p, x) == work' = [work EXCEPT ![p] = x]
Answer(p) == Become(p, Idle)

\* None else has locked any of these rows.
Free(p, rows) == \A q \in Workers \ {p} : work[q].locks \cap rows = {}

\* isActiveLinkRequest, as findActiveLinkRequest and saveLinkRequest ask for it.
ActiveOf(x, t) ==
    {r \in Requests : /\ requests[r].principal = x
                      /\ requests[r].status = "pending" /\ requests[r].until > t}

\* createLinkRequest
NewRequest(x, t) ==
    [NoRequest EXCEPT !.status = "pending", !.principal = x, !.from = t, !.until = t + Ttl]

-----------------------------------------------------------------------------
(* The first login of a principal *)

\* The provider has proved the principal; findExternalIdentity knows no link.
Arrive(p, x) ==
    /\ work[p].stage = "idle"
    /\ links[x] = None
    /\ Become(p, [Idle EXCEPT !.stage = "unlinked", !.principal = x])
    /\ UNCHANGED registry

\* findActiveLinkRequest: a request that is still active is used again.
Look(p) ==
    /\ work[p].stage = "unlinked"
    /\ IF ActiveOf(work[p].principal, clock) = {}
          THEN Become(p, [work[p] EXCEPT !.stage = "asking", !.at = clock])
          ELSE Answer(p)
    /\ UNCHANGED registry

\* Wrong variant of Scan: nothing is locked.
ScanUnlocked(p) ==
    /\ work[p].stage = "asking"
    /\ links[work[p].principal] = None
    /\ ActiveOf(work[p].principal, work[p].at) = {}
    /\ Become(p, [work[p] EXCEPT !.stage = "scanned"])
    /\ UNCHANGED registry

\* saveLinkRequest reads again, FOR UPDATE, that the principal has no link and
\* no active request.  No index leads to a principal among the links: the
\* whole table is locked.  Two transactions may lock the same range of either
\* table: each one then waits for the other to insert, and one of them fails.
Scan(p) ==
    LET x == work[p].principal
        linked == {<<"link", y>> : y \in {y \in Principals : links[y] # None}} IN
    /\ work[p].stage = "asking"
    /\ Free(p, linked)
    /\ links[x] = None
    /\ ActiveOf(x, work[p].at) = {}
    /\ Become(p, [work[p] EXCEPT !.stage = "scanned",
                                 !.locks = linked \cup {<<"links">>, <<"range", x>>}])
    /\ UNCHANGED registry

\* The INSERT of the request, its audit, the commit.
Insert(p, r) ==
    LET x == work[p].principal IN
    /\ work[p].stage = "scanned"
    /\ requests[r].status = "absent"
    /\ Free(p, {<<"range", x>>})
    /\ requests' = [requests EXCEPT ![r] = NewRequest(x, work[p].at)]
    /\ Answer(p)
    /\ UNCHANGED <<clock, status, links>>

-----------------------------------------------------------------------------
(* The decision *)

\* An operator decides about a request the registry knows; the instant of an
\* approval is read here, before its transaction.
Decide(p, r, decision, i) ==
    /\ work[p].stage = "idle"
    /\ decision = "approved" <=> i # None
    /\ requests[r].status # "absent"
    /\ Become(p, [Idle EXCEPT !.stage = "deciding", !.at = clock, !.request = r,
                              !.decision = decision, !.target = i])
    /\ UNCHANGED registry

\* Wrong variant of Pending: any request of the registry will do.
Known(r) == requests[r].status # "absent"

Pending(r) == requests[r].status = "pending"

\* The request, FOR UPDATE: pending, and to approve it not expired.
LockRequest(p) ==
    LET r == work[p].request IN
    /\ work[p].stage = "deciding"
    /\ Free(p, {<<"request", r>>})
    /\ Pending(r)
    /\ work[p].decision = "approved" => work[p].at < requests[r].until
    /\ Become(p, [work[p] EXCEPT !.stage = "locked", !.locks = {<<"request", r>>}])
    /\ UNCHANGED registry

\* Wrong variant of LockIdentity: the identity is read without a lock.
ReadIdentity(p) ==
    /\ work[p].stage = "locked" /\ work[p].decision = "approved"
    /\ status[work[p].target] = "active"
    /\ Become(p, [work[p] EXCEPT !.stage = "linking"])
    /\ UNCHANGED registry

\* The identity, FOR UPDATE, is active.
LockIdentity(p) ==
    LET i == work[p].target IN
    /\ work[p].stage = "locked" /\ work[p].decision = "approved"
    /\ Free(p, {<<"identity", i>>})
    /\ status[i] = "active"
    /\ Become(p, [work[p] EXCEPT !.stage = "linking", !.locks = @ \cup {<<"identity", i>>}])
    /\ UNCHANGED registry

\* Wrong variant of Linkable: the principal is not unique.
LinkableAgain(p, x) == Free(p, {<<"links">>, <<"link", x>>})

\* An INSERT into the links waits for those who have locked the table, and a
\* principal is there once (principal_hash).
Linkable(p, x) == links[x] = None /\ Free(p, {<<"links">>})

\* approveLinkRequest: the link, the request, the audit, the commit.
Approve(p) ==
    LET r == work[p].request
        x == requests[r].principal IN
    /\ work[p].stage = "linking"
    /\ Linkable(p, x)
    /\ links' = [links EXCEPT ![x] = work[p].target]
    /\ requests' = [requests EXCEPT ![r].status = "approved", ![r].target = work[p].target]
    /\ Answer(p)
    /\ UNCHANGED <<clock, status>>

\* rejectLinkRequest
Reject(p) ==
    /\ work[p].stage = "locked" /\ work[p].decision = "rejected"
    /\ requests' = [requests EXCEPT ![work[p].request].status = "rejected"]
    /\ Answer(p)
    /\ UNCHANGED <<clock, status, links>>

\* A refusal, an error, a deadlock, an unavailable database or a crash: the
\* transaction is undone.
Fail(p) ==
    /\ work[p].stage # "idle"
    /\ Answer(p)
    /\ UNCHANGED registry

-----------------------------------------------------------------------------

Tick ==
    /\ clock < MaxTime
    /\ clock' = clock + 1
    /\ UNCHANGED <<status, requests, links, work>>

\* Identities are suspended, reactivated and disabled (IdentitySessions).
SetStatus(i, new) ==
    /\ <<status[i], new>> \in {<<"active", "suspended">>, <<"suspended", "active">>,
                               <<"active", "disabled">>, <<"suspended", "disabled">>}
    /\ \A q \in Workers : <<"identity", i>> \notin work[q].locks
    /\ status' = [status EXCEPT ![i] = new]
    /\ UNCHANGED <<clock, requests, links, work>>

Step(p) ==
    \/ \E x \in Principals : Arrive(p, x)
    \/ Look(p)
    \/ Scan(p)
    \/ \E r \in Requests : Insert(p, r)
    \/ \E r \in Requests, i \in Identities \cup {None}, d \in {"approved", "rejected"} : Decide(p, r, d, i)
    \/ LockRequest(p)
    \/ LockIdentity(p)
    \/ Approve(p)
    \/ Reject(p)
    \/ Fail(p)

Next ==
    \/ Tick
    \/ \E i \in Identities, new \in {"active", "suspended", "disabled"} : SetStatus(i, new)
    \/ \E p \in Workers : Step(p)

Spec == Init /\ [][Next]_vars

-----------------------------------------------------------------------------
(* What the registry ensures *)

Of(x, s) == {r \in Requests : requests[r].principal = x /\ requests[r].status = s}

\* A principal never has two active requests, whatever the instant: the
\* windows of its pending requests are disjoint, although two logins may look
\* for an active request, find none and save theirs at the same time, and
\* although the instant of each was read before its transaction.
OneActiveRequest ==
    \A x \in Principals : \A r, s \in Of(x, "pending") :
        r # s => requests[r].until <= requests[s].from \/ requests[s].until <= requests[r].from

\* A principal is linked by the approval of one request, to the identity this
\* approval names: an approval that read its instant before the request
\* expired may commit when a second request of the principal has been
\* approved, and then it must fail as a whole.
LinkedByOneApproval ==
    \A x \in Principals :
        LET approved == Of(x, "approved") IN
        /\ links[x] = None <=> approved = {}
        /\ \A r, s \in approved : r = s
        /\ \A r \in approved : requests[r].target = links[x]

\* Two operators may decide about one request while the identity is suspended
\* or disabled: one decision counts and nothing changes it afterwards, and a
\* link, which nothing changes either, is made to an identity that is active
\* when the approval takes effect.
DecisionsStand ==
    [][/\ \A r \in Requests :
             requests[r].status \in {"approved", "rejected"} => requests'[r] = requests[r]
       /\ \A x \in Principals :
             links'[x] # links[x] => links[x] = None /\ status[links'[x]] = "active"]_vars

-----------------------------------------------------------------------------
(* Why it does *)

\* Rows are locked by one worker; only ranges are shared.
Exclusive ==
    \A p, q \in Workers : p # q =>
        \A row \in work[p].locks \cap work[q].locks : row[1] \in {"links", "range"}

\* A login is about a principal, a decision about a request the registry
\* knows; an approval names an identity.
IsAbout(x) ==
    /\ x.stage \in {"unlinked", "asking", "scanned"} => x.principal \in Principals
    /\ x.stage \in {"deciding", "locked", "linking"} =>
         /\ x.request \in Requests
         /\ x.decision = "approved" => x.target \in Identities
    /\ x.stage = "linking" => x.decision = "approved"

\* What the transaction has read under its locks is still so.
ReadIsStill(x) ==
    /\ x.stage # "idle" => x.at <= clock
    /\ x.stage = "scanned" =>
         /\ links[x.principal] = None
         /\ ActiveOf(x.principal, x.at) = {}
         /\ {<<"links">>, <<"range", x.principal>>} \subseteq x.locks
    /\ x.stage \in {"locked", "linking"} =>
         /\ requests[x.request].status = "pending"
         /\ <<"request", x.request>> \in x.locks
    /\ x.stage = "linking" =>
         /\ status[x.target] = "active"
         /\ <<"identity", x.target>> \in x.locks

\* Every request has a principal and a window of the same length.
RequestsLast ==
    \A r \in Requests : requests[r].status # "absent" =>
       requests[r].principal \in Principals /\ requests[r].until = requests[r].from + Ttl

\* The inductive invariant: what each transaction holds, and what it has made.
Inv ==
    /\ TypeOK
    /\ Exclusive
    /\ \A p \in Workers : IsAbout(work[p]) /\ ReadIsStill(work[p])
    /\ RequestsLast
    /\ OneActiveRequest
    /\ LinkedByOneApproval
=============================================================================
