--------------------------- MODULE AccessRequests ---------------------------
(***************************************************************************)
(* Requests for access: the public deposit, which answers with a pending   *)
(* request for the same applications instead of making a second one, and   *)
(* the decision of each line by an operator, who refuses it or attaches it *)
(* to an assignment of an identity he chose.                               *)
(*                                                                         *)
(* Each operation reads first, without locks, and then runs a transaction  *)
(* that takes row locks one after the other (SELECT ... FOR UPDATE) and     *)
(* keeps them until it ends. What it writes is seen by the others when it   *)
(* commits. A wait may turn into a deadlock, which the database breaks by  *)
(* undoing a transaction: nothing retries it.                              *)
(***************************************************************************)
EXTENDS Integers

CONSTANTS
    Identities,
    None,            \* no identity, address, request or application
    Applications,    \* the applications that may be asked for
    Emails,          \* normalised addresses of the applicants
    Requests,        \* identifiers of requests (random UUIDs)
    Workers,         \* HTTP requests in flight
    Gaps,            \* between the identifiers of the assignments: where a new one falls
    Elsewhere,       \* bound: the assignments, and their holders, also decided on apart from requests
    MaxVersion       \* bound: versions of one assignment

ASSUME AccessAssumption ==
    /\ None \notin Identities \cup Emails \cup Requests \cup Applications \cup Gaps
    /\ MaxVersion \in Nat

VARIABLES
    status,          \* identities.status
    grants,          \* access_assignments, one role of each application
    requests,        \* access_requests
    lines,           \* access_request_lines
    work             \* what each worker holds: memory and row locks

vars == <<status, grants, requests, lines, work>>

LineStatus == {"pending", "approved", "refused"}

LineRecord == [status: LineStatus \cup {"none"}, target: Identities \cup {None}]
RequestRecord ==
    [status: {"absent", "pending", "approved", "partially_approved", "refused"},
     email: Emails \cup {None}]
GrantRecord == [status: {"none", "active", "revoked"}, version: Nat]

\* The rows a transaction may lock. The range of pending requests of an address
\* and the gap where an identifier is missing keep the others from inserting
\* but not from locking; a share of an identity, which a foreign key takes,
\* keeps them from locking the identity but not from sharing it.
Row ==
    {<<"line", r, a>> : r \in Requests, a \in Applications}
       \cup {<<"request", r>> : r \in Requests}
       \cup {<<"identity", i>> : i \in Identities}
       \cup {<<"grant", i, a>> : i \in Identities, a \in Applications}
       \cup {<<"share", i>> : i \in Identities} \cup {<<"gap", g>> : g \in Gaps}
       \cup {<<"range", e>> : e \in Emails} \cup {<<"audit head">>}

\* What a decision does next: lock its line, its target, save the assignment,
\* update the line, count the lines of the request, commit.
Deciding == {"line", "target", "decision", "decided", "counted"}
Stage == {"idle", "submitted", "scanned", "read", "ready"} \cup Deciding

WorkRecord ==
    [stage: Stage, email: Emails \cup {None}, asked: SUBSET Applications,
     request: Requests \cup {None}, application: Applications \cup {None},
     decision: {"approved", "refused"}, target: Identities \cup {None},
     decider: Identities \cup {None},
     gap: Gaps \cup {None},    \* of an assignment that has not been there
     creates: BOOLEAN,     \* the approval saves an assignment of its own
     version: Nat,         \* version of the assignment when it was prepared
     seen: [Applications -> LineStatus \cup {"none"}],
     locks: SUBSET Row]

NoLine == [status |-> "none", target |-> None]
NoLines == [a \in Applications |-> NoLine]
NoneSeen == [a \in Applications |-> "none"]

Idle == [stage |-> "idle", email |-> None, asked |-> {}, request |-> None,
         application |-> None, decision |-> "refused", target |-> None,
         decider |-> None, gap |-> None, creates |-> FALSE, version |-> 0, seen |-> NoneSeen, locks |-> {}]

\* A decided line says what the schema wants of it.
TypeOK ==
    /\ status \in [Identities -> {"active", "suspended", "disabled"}]
    /\ grants \in [Identities -> [Applications -> GrantRecord]]
    /\ requests \in [Requests -> RequestRecord]
    /\ lines \in [Requests -> [Applications -> LineRecord]]
    /\ work \in [Workers -> WorkRecord]
    /\ \A r \in Requests, a \in Applications :
          lines[r][a].status = "approved" <=> lines[r][a].target # None

Init ==
    /\ status = [i \in Identities |-> "active"]
    /\ grants = [i \in Identities |-> [a \in Applications |-> [status |-> "none", version |-> 0]]]
    /\ requests = [r \in Requests |-> [status |-> "absent", email |-> None]]
    /\ lines = [r \in Requests |-> NoLines]
    /\ work = [p \in Workers |-> Idle]

-----------------------------------------------------------------------------
(* Helpers *)

Become(p, x) == work' = [work EXCEPT ![p] = x]
Answer(p) == Become(p, Idle)

\* None else has locked any of these rows.
Free(p, rows) == \A q \in Workers \ {p} : work[q].locks \cap rows = {}

LineRow(p) == <<"line", work[p].request, work[p].application>>

\* Wrong variant of TargetRows: the audit comes first, whatever is decided.
TargetRowsAndHead(p) ==
    LET i == work[p].target IN
    {<<"identity", i>>, <<"grant", i, work[p].application>>, <<"audit head">>}

\* The identity and the assignment of an approval.
TargetRows(p) ==
    LET i == work[p].target IN
    {<<"identity", i>>, <<"grant", i, work[p].application>>}

\* What the next step of a decision waits for, when another has it: the INSERT
\* of an assignment waits for the gap and its audit for the head of the chain;
\* the UPDATE of the line waits for the identity of its decider, for the
\* foreign key of decided_by.
Wanted(p) ==
    CASE work[p].stage = "ready" -> {LineRow(p)}
      [] work[p].stage = "line" -> TargetRows(p) \cup {<<"share", work[p].target>>}
      [] work[p].stage = "target" -> {<<"gap", work[p].gap>>, <<"audit head">>}
      [] work[p].stage = "decision" -> {<<"identity", work[p].decider>>}
      [] work[p].stage = "decided" -> {<<"request", work[p].request>>}
      [] work[p].stage = "counted" -> {<<"audit head">>}
      [] OTHER -> {}

\* Go on with these rows locked, once no other has what is wanted.
Lock(p, rows, x) ==
    /\ Free(p, Wanted(p))
    /\ Become(p, [x EXCEPT !.locks = @ \cup rows])

AskedIn(r) == {a \in Applications : lines[r][a].status # "none"}
PendingOf(e) == {r \in Requests : requests[r].status = "pending" /\ requests[r].email = e}
Twins(e, asked) == {r \in PendingOf(e) : AskedIn(r) = asked}

\* The statuses of the lines of r.
Statuses(r) == [a \in Applications |-> lines[r][a].status]

\* #refreshAccessRequestState
Summary(seen) ==
    LET present == {seen[a] : a \in Applications} \ {"none"} IN
    CASE "pending" \in present -> "pending"
      [] present = {"approved"} -> "approved"
      [] present = {"refused"} -> "refused"
      [] OTHER -> "partially_approved"

-----------------------------------------------------------------------------
(* The deposit of a request *)

Submit(p, e, asked) ==
    /\ work[p].stage = "idle"
    /\ asked # {}
    /\ Become(p, [Idle EXCEPT !.stage = "submitted", !.email = e, !.asked = asked])
    /\ UNCHANGED <<status, grants, requests, lines>>

\* Wrong variant of Scan: the pending requests are read without locks.
ScanUnlocked(p) ==
    /\ work[p].stage = "submitted"
    /\ IF Twins(work[p].email, work[p].asked) = {}
          THEN Become(p, [work[p] EXCEPT !.stage = "scanned"])
          ELSE Answer(p)
    /\ UNCHANGED <<status, grants, requests, lines>>

\* The pending requests of the address and their lines, FOR UPDATE; a twin is
\* the answer. Two transactions may lock the same range: each one then waits
\* for the other to insert, and one of them fails.
Scan(p) ==
    LET e == work[p].email
        rows == {<<"request", r>> : r \in PendingOf(e)}
                   \cup {<<"line", r, a>> : r \in PendingOf(e), a \in Applications} IN
    /\ work[p].stage = "submitted"
    /\ Free(p, rows)
    /\ IF Twins(e, work[p].asked) = {}
          THEN Become(p, [work[p] EXCEPT !.stage = "scanned", !.locks = rows \cup {<<"range", e>>}])
          ELSE Answer(p)
    /\ UNCHANGED <<status, grants, requests, lines>>

\* INSERT of the request and of its lines, audit, commit.
Insert(p, r) ==
    /\ work[p].stage = "scanned"
    /\ requests[r].status = "absent"
    /\ Free(p, {<<"range", work[p].email>>, <<"audit head">>})
    /\ requests' = [requests EXCEPT ![r] = [status |-> "pending", email |-> work[p].email]]
    /\ lines' = [lines EXCEPT ![r] = [a \in Applications |->
                    IF a \in work[p].asked THEN [NoLine EXCEPT !.status = "pending"] ELSE NoLine]]
    /\ Answer(p)
    /\ UNCHANGED <<status, grants>>

-----------------------------------------------------------------------------
(* The decision of a line *)

\* getAccessRequestLine, for an operator who was active when he was let in.
ReadLine(p, d, r, a, decision) ==
    /\ work[p].stage = "idle"
    /\ status[d] = "active"
    /\ lines[r][a].status = "pending"
    /\ Become(p, [Idle EXCEPT !.request = r, !.application = a, !.decision = decision, !.decider = d,
                              !.stage = IF decision = "approved" THEN "read" ELSE "ready"])
    /\ UNCHANGED <<status, grants, requests, lines>>

\* prepareAccessAssignment
Prepare(p, i) ==
    LET g == grants[i][work[p].application] IN
    /\ work[p].stage = "read"
    /\ status[i] = "active"
    /\ Become(p, [work[p] EXCEPT !.stage = "ready", !.target = i, !.version = g.version,
                                 !.creates = g.status # "active"])
    /\ UNCHANGED <<status, grants, requests, lines>>

\* Wrong variant of LockLine: the status of the line is not read again.
LockLineUnchecked(p) ==
    /\ work[p].stage = "ready"
    /\ Lock(p, {LineRow(p)}, [work[p] EXCEPT !.stage = IF work[p].decision = "approved"
                                                          THEN "line" ELSE "decision"])
    /\ UNCHANGED <<status, grants, requests, lines>>

\* The line, FOR UPDATE, is still pending (and so at its first version).
LockLine(p) ==
    /\ work[p].stage = "ready"
    /\ lines[work[p].request][work[p].application].status = "pending"
    /\ Lock(p, {LineRow(p)}, [work[p] EXCEPT !.stage = IF work[p].decision = "approved"
                                                          THEN "line" ELSE "decision"])
    /\ UNCHANGED <<status, grants, requests, lines>>

\* An assignment that is created is saved and audited before the line is
\* updated; one that has not been there has a gap instead of a row.
AfterTarget(p, g) ==
    [work[p] EXCEPT !.stage = IF work[p].creates THEN "target" ELSE "decision", !.gap = g]
NewIn(p, g) == g # None <=> work[p].creates /\ work[p].version = 0
GapRow(g) == IF g = None THEN {} ELSE {<<"gap", g>>}

\* Wrong variant of LockTarget: an assignment that exists is not read again.
LockTargetUnchecked(p, g) ==
    LET i == work[p].target  a == work[p].application IN
    /\ work[p].stage = "line"
    /\ status[i] = "active"
    /\ work[p].creates => grants[i][a].version = work[p].version
    /\ NewIn(p, g)
    /\ Lock(p, {<<"identity", i>>} \cup GapRow(g)
                  \cup (IF work[p].creates THEN {<<"grant", i, a>>} ELSE {}), AfterTarget(p, g))
    /\ UNCHANGED <<status, grants, requests, lines>>

\* The identity is active; the assignment to create has not moved, or the
\* existing one is in force.
LockTarget(p, g) ==
    LET grant == grants[work[p].target][work[p].application] IN
    /\ work[p].stage = "line"
    /\ status[work[p].target] = "active"
    /\ IF work[p].creates THEN grant.version = work[p].version ELSE grant.status = "active"
    /\ NewIn(p, g)
    /\ Lock(p, TargetRows(p) \cup GapRow(g), AfterTarget(p, g))
    /\ UNCHANGED <<status, grants, requests, lines>>

\* The INSERT of the assignment, or its update, and the audit of the grant.
SaveGrant(p) ==
    /\ work[p].stage = "target"
    /\ Lock(p, {<<"audit head">>}, [work[p] EXCEPT !.stage = "decision"])
    /\ UNCHANGED <<status, grants, requests, lines>>

\* The UPDATE of the line, which names its decider.
MarkLine(p) ==
    /\ work[p].stage = "decision"
    /\ Lock(p, {<<"share", work[p].decider>>}, [work[p] EXCEPT !.stage = "decided"])
    /\ UNCHANGED <<status, grants, requests, lines>>

\* The statuses of the lines as the transaction sees them: its own decision
\* and what the others have committed.
Seen(p) == [Statuses(work[p].request) EXCEPT ![work[p].application] = work[p].decision]

\* Wrong variant of Count: the request is not locked before its lines are counted.
CountUnlocked(p) ==
    /\ work[p].stage = "decided"
    /\ Become(p, [work[p] EXCEPT !.stage = "counted", !.seen = Seen(p)])
    /\ UNCHANGED <<status, grants, requests, lines>>

\* #refreshAccessRequestState: the request FOR UPDATE, then its lines counted
\* by the first plain read of the transaction, which sees every commit up to then.
Count(p) ==
    /\ work[p].stage = "decided"
    /\ Lock(p, {<<"request", work[p].request>>},
            [work[p] EXCEPT !.stage = "counted", !.seen = Seen(p)])
    /\ UNCHANGED <<status, grants, requests, lines>>

\* Wrong variant of Decided: the target of an approval is not written.
DecidedWithoutTarget(p) == [status |-> work[p].decision, target |-> None]

\* What the UPDATE of the line writes.
Decided(p) == [status |-> work[p].decision, target |-> work[p].target]

\* The audit of the decision and the commit of everything the transaction wrote.
Commit(p) ==
    LET r == work[p].request
        a == work[p].application IN
    /\ work[p].stage = "counted"
    /\ Free(p, Wanted(p))
    /\ lines' = [lines EXCEPT ![r][a] = Decided(p)]
    /\ requests' = [requests EXCEPT ![r].status = Summary(work[p].seen)]
    /\ grants' = IF work[p].creates
                    THEN [grants EXCEPT ![work[p].target][a] =
                             [status |-> "active", version |-> work[p].version + 1]]
                    ELSE grants
    /\ Answer(p)
    /\ UNCHANGED status

\* A refusal, an error, a deadlock, an unavailable database or a crash: the
\* transaction is undone.
Fail(p) ==
    /\ work[p].stage # "idle"
    /\ Answer(p)
    /\ UNCHANGED <<status, grants, requests, lines>>

-----------------------------------------------------------------------------
(* The rest of the registry *)

Unlocked(rows) == \A q \in Workers : work[q].locks \cap rows = {}

\* Identities are suspended, reactivated and disabled, as in IdentitySessions.
SetStatus(i, new) ==
    /\ <<status[i], new>> \in {<<"active", "suspended">>, <<"suspended", "active">>}
    /\ Unlocked({<<"identity", i>>, <<"share", i>>, <<"audit head">>})
    /\ status' = [status EXCEPT ![i] = new]
    /\ UNCHANGED <<grants, requests, lines, work>>

\* A disablement revokes what is in force.
Disable(i) ==
    /\ status[i] # "disabled"
    /\ Unlocked({<<"identity", i>>, <<"share", i>>, <<"audit head">>} \cup {<<"grant", i, a>> : a \in Applications})
    /\ \A a \in Applications : grants[i][a].version < MaxVersion
    /\ status' = [status EXCEPT ![i] = "disabled"]
    /\ grants' = [grants EXCEPT ![i] = [a \in Applications |->
                     IF grants[i][a].status = "active"
                        THEN [status |-> "revoked", version |-> grants[i][a].version + 1]
                        ELSE grants[i][a]]]
    /\ UNCHANGED <<requests, lines, work>>

\* grantAccessAssignment or revokeAccessAssignment: a decision on the
\* assignment itself, under its version. The identity was active when the
\* grant was prepared; nothing reads it again when it is saved. The INSERT of
\* an assignment that has not been there waits for its gap and, for the foreign
\* key of its subject, for the identity.
DecideGrant(i, a, new) ==
    /\ grants[i][a].version < MaxVersion
    /\ new = "active" <=> grants[i][a].status # "active"
    /\ Unlocked({<<"grant", i, a>>, <<"audit head">>})
    /\ grants[i][a].version = 0 =>
          Unlocked({<<"identity", i>>}) /\ \E g \in Gaps : Unlocked({<<"gap", g>>})
    /\ grants' = [grants EXCEPT ![i][a] = [status |-> new, version |-> grants[i][a].version + 1]]
    /\ UNCHANGED <<status, requests, lines, work>>

-----------------------------------------------------------------------------

Step(p) ==
    \/ \E e \in Emails, asked \in SUBSET Applications : Submit(p, e, asked)
    \/ Scan(p)
    \/ \E r \in Requests : Insert(p, r)
    \/ \E d \in Identities, r \in Requests, a \in Applications, decision \in {"approved", "refused"} :
          ReadLine(p, d, r, a, decision)
    \/ \E i \in Identities : Prepare(p, i)
    \/ LockLine(p)
    \/ \E g \in Gaps \cup {None} : LockTarget(p, g)
    \/ SaveGrant(p)
    \/ MarkLine(p)
    \/ Count(p)
    \/ Commit(p)
    \/ Fail(p)

Environment ==
    \E i \in Identities, a \in Applications :
       /\ <<i, a>> \in Elsewhere
       /\ \/ \E new \in {"active", "suspended"} : SetStatus(i, new)
          \/ Disable(i)
          \/ \E new \in {"active", "revoked"} : DecideGrant(i, a, new)

Next == Environment \/ \E p \in Workers : Step(p)

Spec == Init /\ [][Next]_vars

-----------------------------------------------------------------------------
(* What the requests promise *)

\* The global status of a request is that of its lines, although two of them
\* may be decided at the same time by two operators (LOT-62).
StatusIsSummary ==
    \A r \in Requests : requests[r].status # "absent" =>
       requests[r].status = Summary(Statuses(r))

\* Depositing a request twice, even at the same time, makes one of it: two
\* pending requests of an address never ask for the same applications.
NoTwins ==
    \A r, u \in Requests : r # u /\ {r, u} \subseteq PendingOf(requests[r].email) =>
       AskedIn(r) # AskedIn(u)

\* A line is decided once, by the approval or by the refusal, and its target
\* does not change.
DecidedOnce ==
    [][\A r \in Requests, a \in Applications :
         lines[r][a].status \in {"approved", "refused"} => lines'[r][a] = lines[r][a]]_vars

\* A line is approved in the very step that leaves its target active, with an
\* assignment in force (LOT-62: the assignment, its audit and the decision
\* are one transaction): the one that is there, or the next decision after it,
\* whatever was granted or withdrawn since the approval was prepared.
ApprovedWithGrant ==
    [][\A r \in Requests, a \in Applications :
         lines[r][a].status # "approved" /\ lines'[r][a].status = "approved" =>
            LET i == lines'[r][a].target IN
            /\ status'[i] = "active" /\ grants'[i][a].status = "active"
            /\ \/ grants'[i][a] = grants[i][a]
               \/ /\ grants[i][a].status # "active"
                  /\ grants'[i][a].version = grants[i][a].version + 1]_vars

WaitsFor(p, q) == Wanted(p) \cap work[q].locks # {}

\* One gives a right to the other's decider and, with the head of the audit or
\* by deciding for the other's target, keeps it from ending.
Crosses(p, q) ==
    /\ work[q].target = work[p].decider
    /\ work[p].creates \/ work[p].target = work[q].decider

\* Two decisions wait for each other, so that the database undoes one of them,
\* in three cases only: they are on one request and one of them - not both -
\* gives a right; both create an assignment, with identifiers that fall in one
\* gap; or one of them approves for the other's decider. Two refusals never do.
MutualWaitsAreKnown ==
    \A p, q \in Workers :
       p # q /\ WaitsFor(p, q) /\ WaitsFor(q, p) =>
          \/ work[p].request = work[q].request /\ work[p].creates # work[q].creates
          \/ work[p].gap # None /\ work[p].gap = work[q].gap
          \/ Crosses(p, q) \/ Crosses(q, p)

-----------------------------------------------------------------------------
(* Why they keep it: the inductive invariant *)

\* The locks that two transactions may both have.
Shared ==
    {<<"range", e>> : e \in Emails} \cup {<<"gap", g>> : g \in Gaps}
       \cup {<<"share", i>> : i \in Identities}

Exclusive == \A p, q \in Workers : p # q => work[p].locks \cap work[q].locks \subseteq Shared

\* A deposit under way has asked for something; once it has scanned, it has
\* found no twin and keeps the others from inserting one.
DepositsAreProper ==
    \A p \in Workers :
       /\ work[p].stage \in {"submitted", "scanned"} => work[p].email \in Emails /\ work[p].asked # {}
       /\ work[p].stage = "scanned" =>
             /\ <<"range", work[p].email>> \in work[p].locks
             /\ Twins(work[p].email, work[p].asked) = {}

\* A decision under way is about a line, pending as long as it is locked; once
\* it has counted, its count is that of the lines it will leave.
DecisionsAreProper ==
    \A p \in Workers :
       /\ work[p].stage \in {"read", "ready"} \cup Deciding =>
             /\ work[p].request \in Requests /\ work[p].application \in Applications
             /\ work[p].decider \in Identities
             /\ lines[work[p].request][work[p].application].status # "none"
             /\ work[p].stage \in {"read", "line"} => work[p].decision = "approved"
             /\ work[p].stage # "read" => (work[p].target # None <=> work[p].decision = "approved")
       /\ work[p].stage \in Deciding =>
             /\ LineRow(p) \in work[p].locks
             /\ lines[work[p].request][work[p].application].status = "pending"
       /\ work[p].stage = "counted" =>
             /\ <<"request", work[p].request>> \in work[p].locks
             /\ work[p].seen = Seen(p)

\* A request that has not been made has no lines.
LinesAreProper ==
    \A r \in Requests, a \in Applications :
       requests[r].status = "absent" => lines[r][a].status = "none"

\* What a transaction that decides has locked so far, and nothing else.
HoldsItsRows ==
    \A p \in Workers :
       LET x == work[p]
           target == IF x.decision = "approved"
                        THEN {LineRow(p)} \cup TargetRows(p) \cup GapRow(x.gap) ELSE {LineRow(p)}
           saved == target \cup (IF x.creates THEN {<<"audit head">>} ELSE {})
           marked == saved \cup {<<"share", x.decider>>} IN
       /\ x.stage \in {"idle", "submitted", "read", "ready"} => x.locks = {}
       /\ x.stage = "line" => x.locks = {LineRow(p)}
       /\ x.stage = "target" => x.locks = target /\ x.creates
       /\ x.stage = "decision" => x.locks = saved
       /\ x.stage = "decided" => x.locks = marked
       /\ x.stage = "counted" => x.locks = marked \cup {<<"request", x.request>>}
       /\ x.creates => x.decision = "approved"
       /\ x.gap # None => x.creates /\ x.stage \in Deciding \ {"line"}

\* An assignment to create has not been in force under the version that was
\* prepared; once its row is locked, what the approval relies on stands.
TargetsStand ==
    \A p \in Workers :
       LET x == work[p]
           g == grants[x.target][x.application] IN
       x.decision = "approved" =>
          /\ x.stage \in {"ready"} \cup Deciding /\ x.creates =>
                x.version <= g.version /\ (g.version = x.version => g.status # "active")
          /\ x.stage \in Deciding \ {"line"} =>
                /\ status[x.target] = "active"
                /\ IF x.creates THEN g.version = x.version ELSE g.status = "active"

\* The inductive invariant of the requests.
Inv ==
    /\ TypeOK /\ Exclusive /\ DepositsAreProper /\ DecisionsAreProper /\ LinesAreProper
    /\ StatusIsSummary /\ NoTwins

=============================================================================
