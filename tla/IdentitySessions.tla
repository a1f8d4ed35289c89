-------------------------- MODULE IdentitySessions --------------------------
(***************************************************************************)
(* The session registry and the life cycle of identities.                  *)
(*                                                                         *)
(* A worker is one HTTP request in flight.  Requests share nothing but the *)
(* MariaDB registry: each one reads rows outside any transaction, decides, *)
(* and submits one transaction that re-checks some of what it has read     *)
(* under row locks.  Every action below is one such read or one such       *)
(* transaction; between two actions of a request any other request may     *)
(* run, and the clock may advance.                                         *)
(*                                                                         *)
(*   gate     : administrationSessionAuthority.assess / sessionAuthority.  *)
(*              assess on the session the cookie designates                *)
(*   authorize: decideAccess on the operator                               *)
(*   select   : the reads from which the request computes its transaction  *)
(*   commit   : the repository transaction                                 *)
(***************************************************************************)
EXTENDS SessionRecords, FiniteSets

CONSTANTS
    Sessions,        \* session identifiers (randomUUID): each is used once
    NoSid,           \* "no session designated"
    Workers,         \* requests in flight
    AppRoles,        \* roles of the applications (granted from the console)
    Kinds,           \* the requests that arrive in this instance
    Enrolled,        \* sessions opened before the behaviour starts: [S -> Identities]
    Granted,         \* assignments active at the start: SUBSET (Identities \X Role)
    MaxTime,         \* bound: last instant of the clock
    MaxLag,          \* bound: delay between reading the process clock and the registry
    MaxVersion       \* bound: decisions on one assignment

AdminRoles == {"suspend", "reactivate", "disable", "revoke_sessions", "decide_access"}
Role == AdminRoles \cup AppRoles
IdentityStatus == {"active", "suspended", "disabled"}

\* Requests that need no live session, that act on the caller's own
\* sessions, and that need an Administration permission.
OpenKinds == {"login", "logout"}
PersonalKinds == {"access", "revoke_one", "revoke_others"}
OperatorKinds == {"revoke_session", "suspend", "reactivate", "disable", "grant", "withdraw"}
AllKinds == OpenKinds \cup PersonalKinds \cup OperatorKinds

ASSUME InstanceAssumption ==
    /\ Kinds \subseteq AllKinds
    /\ NoSid \notin Sessions
    /\ AppRoles \cap AdminRoles = {}
    /\ DOMAIN Enrolled \subseteq Sessions
    /\ \A s \in DOMAIN Enrolled : Enrolled[s] \in Identities
    /\ Granted \subseteq Identities \X Role
    /\ MaxTime \in Nat /\ MaxLag \in Nat /\ MaxVersion \in Nat

VARIABLES
    clock,           \* real time
    status,          \* identities.status
    sessions,        \* application_sessions
    grants,          \* access_assignments, one per identity and role
    req              \* what each request holds in memory

vars == <<clock, status, sessions, grants, req>>

GrantRecord == [held: {"none", "active", "revoked"}, version: Nat]

Stage == {"idle", "touching", "retouching", "expiring", "passed",
          "authorized", "selected", "done", "allowed"}
Finished == {"idle", "done", "allowed"}

Request ==
    [kind: AllKinds \cup {"none"}, stage: Stage, actor: Owner,
     current: Sessions \cup {NoSid}, target: Owner, role: Role \cup {"none"},
     expected: IdentityStatus, at: Nat,
     seen: [Sessions -> Nat],        \* version read of each session to write, else 0
     seenGrants: [Role -> Nat],      \* version read of each assignment to write, else 0
     confirmed: SUBSET Sessions]     \* sessions the answer says are closed

NoneSeen == [s \in Sessions |-> 0]
NoGrantsSeen == [r \in Role |-> 0]

IdleRequest ==
    [kind |-> "none", stage |-> "idle", actor |-> Nobody, current |-> NoSid,
     target |-> Nobody, role |-> "none", expected |-> "active", at |-> 0,
     seen |-> NoneSeen, seenGrants |-> NoGrantsSeen, confirmed |-> {}]

TypeOK ==
    /\ clock \in Nat
    /\ status \in [Identities -> IdentityStatus]
    /\ sessions \in [Sessions -> SessionRecord]
    /\ grants \in [Identities -> [Role -> GrantRecord]]
    /\ req \in [Workers -> Request]

Init ==
    /\ clock = 0
    /\ status = [i \in Identities |-> "active"]
    /\ sessions = [s \in Sessions |->
                     IF s \in DOMAIN Enrolled THEN NewSession(Enrolled[s], 0) ELSE NoSession]
    /\ grants = [i \in Identities |-> [r \in Role |->
                     IF <<i, r>> \in Granted THEN [held |-> "active", version |-> 1]
                                             ELSE [held |-> "none", version |-> 0]]]
    /\ req = [p \in Workers |-> IdleRequest]

-----------------------------------------------------------------------------
(* Helpers *)

\* A clock reading a handler may hold when its registry read is executed.
Readings == {t \in 0..clock : clock - t <= MaxLag}

OwnedBy(i) == {s \in Sessions : Exists(sessions[s]) /\ sessions[s].owner = i}

\* The versions of the sessions in S, as the request remembers them.
VersionsOf(S) == [s \in Sessions |-> IF s \in S THEN sessions[s].version ELSE 0]
GrantVersionsOf(i, R) == [r \in Role |-> IF r \in R THEN grants[i][r].version ELSE 0]

Targets(p) == {s \in Sessions : req[p].seen[s] > 0}
GrantTargets(p) == {r \in Role : req[p].seenGrants[r] > 0}

\* Wrong variant of ActiveSessionsOf: the owner is not looked at.
ActiveSessionsOfAnyone(i, t) ==
    {s \in Sessions : i \in Identities /\ Exists(sessions[s]) /\ ActiveAt(sessions[s], t)}

ActiveSessionsOf(i, t) == {s \in OwnedBy(i) : ActiveAt(sessions[s], t)}
ActiveGrantsOf(i) == {r \in Role : grants[i][r].held = "active"}

\* decideAccess for a permission carried by one role
MayAct(i, r) == status[i] = "active" /\ grants[i][r].held = "active"

PermissionFor(kind) ==
    CASE kind = "revoke_session" -> "revoke_sessions"
      [] kind \in {"grant", "withdraw"} -> "decide_access"
      [] OTHER -> kind

InFlight(p, stage, kinds) == req[p].stage = stage /\ req[p].kind \in kinds

\* Request p now holds x in memory.
Become(p, x) == req' = [req EXCEPT ![p] = x]

\* The session gate admits request p, which forgets what the gate has read.
Admit(p) == Become(p, [req[p] EXCEPT !.stage = "passed", !.at = 0, !.seen = NoneSeen])

\* The answers of request p.  The memory of a request disappears with its
\* answer; a confirmation is remembered for what it says.
Refuse(p) == Become(p, IdleRequest)
Allow(p)  == Become(p, [IdleRequest EXCEPT !.stage = "allowed"])
Confirm(p) == Become(p, [IdleRequest EXCEPT !.stage = "done", !.confirmed = Targets(p)])

\* Wrong variants of Unchanged: no version check; no check at all.
StillOpen(p) == \A s \in Targets(p) : sessions[s].state = "open"
Unguarded(p) == p \in Workers

\* Row by row check of what a request has read, under FOR UPDATE.
Unchanged(p) ==
    \A s \in Targets(p) : sessions[s].state = "open" /\ sessions[s].version = req[p].seen[s]

\* Wrong variant of Closures: only one of several sessions is closed.
PartialClosures(p) ==
    LET first == CHOOSE s \in Targets(p) : TRUE IN
    [sessions EXCEPT ![first] = ClosedAs(@, "revoked")]

\* The closures computed from the records read: each row gets the successor
\* of the version the request has seen.
Closures(p) ==
    [s \in Sessions |->
       IF s \in Targets(p)
         THEN [ClosedAs(sessions[s], "revoked") EXCEPT !.version = req[p].seen[s] + 1]
         ELSE sessions[s]]

-----------------------------------------------------------------------------
(* Time, and requests that end without an effect *)

Tick ==
    /\ clock < MaxTime
    /\ clock' = clock + 1
    /\ UNCHANGED <<status, sessions, grants, req>>

\* Every early return, validation error, stale version, unavailable registry
\* or process crash: the open transaction, if any, is rolled back.
Fail(p) ==
    /\ req[p].stage \notin Finished
    /\ Refuse(p)
    /\ UNCHANGED <<clock, status, sessions, grants>>

-----------------------------------------------------------------------------
(* Opening a session *)

\* The proof of identity has been accepted and the identity read is active
\* (authorization code, email link, OIDC callback, portal bridge).
Login(p, i) ==
    /\ req[p].stage \in Finished
    /\ "login" \in Kinds
    /\ status[i] = "active"
    /\ Become(p, [IdleRequest EXCEPT !.kind = "login", !.stage = "selected",
                                     !.actor = i, !.at = clock])
    /\ UNCHANGED <<clock, status, sessions, grants>>

\* saveApplicationSession: an INSERT, which reads no other row.
Insert(p, s, t) ==
    /\ InFlight(p, "selected", {"login"})
    /\ sessions[s].state = "absent"
    /\ t \in Readings /\ t >= req[p].at
    /\ sessions' = [sessions EXCEPT ![s] = NewSession(req[p].actor, t)]
    /\ Confirm(p)
    /\ UNCHANGED <<clock, status, grants>>

-----------------------------------------------------------------------------
(* The session gate: assess *)

GateStage(r, i, t) ==
    LET verdict == Assess(r, i, t) IN
    CASE verdict = "session_active" /\ ~TouchDue(r, t) -> "passed"
      [] verdict = "session_active" /\ TouchDue(r, t)  -> "touching"
      [] verdict \in ExpiryVerdicts                    -> "expiring"
      [] OTHER                                         -> "idle"

\* A request of identity i arrives with the cookie of session s.  The clock
\* is read first, the record next; assess answers or goes on to a write.
Gate(p, k, i, s, t) ==
    LET stage == GateStage(sessions[s], i, t)
        reading == stage \in {"touching", "expiring"} IN
    /\ req[p].stage \in Finished
    /\ k \in Kinds \ OpenKinds
    /\ s \in OwnedBy(i)
    /\ t \in Readings
    /\ Become(p, IF stage = "idle" THEN IdleRequest
                  ELSE [IdleRequest EXCEPT
                          !.kind = k, !.stage = stage, !.actor = i, !.current = s,
                          !.at = IF reading THEN t ELSE 0,
                          !.seen = IF reading THEN VersionsOf({s}) ELSE NoneSeen])
    /\ UNCHANGED <<clock, status, sessions, grants>>

\* repository.touchApplicationSession
Touch(p) ==
    LET s == req[p].current IN
    /\ req[p].stage = "touching"
    /\ Unchanged(p)
    /\ sessions[s].lastSeen < req[p].at
    /\ sessions' = [sessions EXCEPT ![s] =
                      [Touched(sessions[s], req[p].at) EXCEPT !.version = req[p].seen[s] + 1]]
    /\ Admit(p)
    /\ UNCHANGED <<clock, status, grants>>

\* The touch lost a race or its transaction failed.
TouchFails(p) ==
    /\ req[p].stage = "touching"
    /\ Become(p, [req[p] EXCEPT !.stage = "retouching", !.seen = NoneSeen])
    /\ UNCHANGED <<clock, status, sessions, grants>>

\* Wrong variant of Recheck: the first verdict stands.
FirstVerdictStands(p) ==
    /\ req[p].stage = "retouching"
    /\ Admit(p)
    /\ UNCHANGED <<clock, status, sessions, grants>>

\* After a failed touch the record is read and assessed again, still at the
\* time the request observed first.
Recheck(p) ==
    /\ req[p].stage = "retouching"
    /\ Assess(sessions[req[p].current], req[p].actor, req[p].at) = "session_active"
    /\ Admit(p)
    /\ UNCHANGED <<clock, status, sessions, grants>>

\* closeExpired: the denial is recorded.  When the version has moved the
\* answer is a denial or an error, never an admission (Fail).
Expire(p) ==
    LET s == req[p].current IN
    /\ req[p].stage = "expiring"
    /\ Unchanged(p)
    /\ sessions' = [sessions EXCEPT ![s] =
                      [ClosedAs(sessions[s], "expired") EXCEPT !.version = req[p].seen[s] + 1]]
    /\ Refuse(p)
    /\ UNCHANGED <<clock, status, grants>>

-----------------------------------------------------------------------------
(* An application asks for a decision: session first, right next *)

Decide(p, r) ==
    /\ InFlight(p, "passed", {"access"})
    /\ r \in AppRoles
    /\ IF MayAct(req[p].actor, r) THEN Allow(p) ELSE Refuse(p)
    /\ UNCHANGED <<clock, status, sessions, grants>>

-----------------------------------------------------------------------------
(* Closing sessions *)

\* revokeForApplication and revokeCurrent: no gate, no look at the deadlines.
Logout(p, i, s) ==
    /\ req[p].stage \in Finished
    /\ "logout" \in Kinds
    /\ s \in OwnedBy(i)
    /\ Become(p, IF Closed(sessions[s])
                    THEN [IdleRequest EXCEPT !.stage = "done", !.confirmed = {s}]
                    ELSE [IdleRequest EXCEPT !.kind = "logout", !.stage = "selected",
                                             !.seen = VersionsOf({s})])
    /\ UNCHANGED <<clock, status, sessions, grants>>

Select(p, S) ==
    /\ Become(p, [req[p] EXCEPT !.stage = "selected", !.at = 0, !.seen = VersionsOf(S)])
    /\ UNCHANGED <<clock, status, sessions, grants>>

\* createPersonalSessionManagement.revokeOne
SelectOne(p, s) ==
    /\ InFlight(p, "passed", {"revoke_one"})
    /\ s # req[p].current
    /\ s \in ActiveSessionsOf(req[p].actor, clock)
    /\ Select(p, {s})

\* createPersonalSessionManagement.revokeAllOthers
SelectOthers(p, t) ==
    LET i == req[p].actor
        others == ActiveSessionsOf(i, t) \ {req[p].current} IN
    /\ InFlight(p, "passed", {"revoke_others"})
    /\ t \in Readings
    /\ req[p].current \in ActiveSessionsOf(i, t)
    /\ IF others = {} THEN Confirm(p) /\ UNCHANGED <<clock, status, sessions, grants>>
                      ELSE Select(p, others)

\* assertOperator of the three administrations; observedAt is read first.
Authorize(p) ==
    /\ InFlight(p, "passed", OperatorKinds)
    /\ MayAct(req[p].actor, PermissionFor(req[p].kind))
    /\ Become(p, [req[p] EXCEPT !.stage = "authorized", !.at = clock])
    /\ UNCHANGED <<clock, status, sessions, grants>>

\* createOperatorSessionManagement.revokeOne
SelectSession(p, s) ==
    /\ InFlight(p, "authorized", {"revoke_session"})
    /\ s # req[p].current
    /\ Exists(sessions[s]) /\ ActiveAt(sessions[s], req[p].at)
    /\ Select(p, {s})

\* repository.revokeApplicationSessions: all rows or none.
CloseSessions(p) ==
    /\ InFlight(p, "selected", {"logout", "revoke_one", "revoke_others", "revoke_session"})
    /\ Unchanged(p)
    /\ sessions' = Closures(p)
    /\ Confirm(p)
    /\ UNCHANGED <<clock, status, grants>>

-----------------------------------------------------------------------------
(* The life cycle of an identity *)

SelectIdentity(p, i, S, R) ==
    /\ Become(p, [req[p] EXCEPT !.stage = "selected", !.target = i, !.expected = status[i],
                                !.seen = VersionsOf(S), !.seenGrants = GrantVersionsOf(i, R)])
    /\ UNCHANGED <<clock, status, sessions, grants>>

SelectSuspension(p, i) ==
    /\ InFlight(p, "authorized", {"suspend"})
    /\ i # req[p].actor
    /\ status[i] = "active"
    /\ SelectIdentity(p, i, ActiveSessionsOf(i, req[p].at), {})

SelectReactivation(p, i) ==
    /\ InFlight(p, "authorized", {"reactivate"})
    /\ status[i] = "suspended"
    /\ SelectIdentity(p, i, {}, {})

SelectDisablement(p, i) ==
    /\ InFlight(p, "authorized", {"disable"})
    /\ i # req[p].actor
    /\ status[i] \in {"active", "suspended"}
    /\ "disable" \notin ActiveGrantsOf(i)
    /\ SelectIdentity(p, i, ActiveSessionsOf(i, req[p].at), ActiveGrantsOf(i))

\* Wrong variants of the checks below: sessions that appeared since the request
\* read are not looked for; the sessions of a suspended identity are not looked at.
SelectedSessionsUnchanged(p) == Unchanged(p)
SessionsNotReread(i, t) == i \in Identities /\ t \in Nat

\* The identity, read again under lock, is still what the request has read.
StatusUnchanged(p) == status[req[p].target] = req[p].expected

\* The sessions active at the decision time, read again under lock, are
\* exactly those the request closes, each at the version it has read.
SessionSetUnchanged(p) ==
    /\ ActiveSessionsOf(req[p].target, req[p].at) = Targets(p)
    /\ Unchanged(p)

\* The same for the active assignments of the identity.
GrantSetUnchanged(p) ==
    LET i == req[p].target IN
    /\ ActiveGrantsOf(i) = GrantTargets(p)
    /\ \A r \in GrantTargets(p) : grants[i][r].version = req[p].seenGrants[r]

\* No session of i survives at t: what a reactivation requires.
NoneActive(i, t) == ActiveSessionsOf(i, t) = {}

\* repository.suspendIdentityAndRevokeSessions
Suspend(p) ==
    /\ InFlight(p, "selected", {"suspend"})
    /\ StatusUnchanged(p)
    /\ SessionSetUnchanged(p)
    /\ status' = [status EXCEPT ![req[p].target] = "suspended"]
    /\ sessions' = Closures(p)
    /\ Confirm(p)
    /\ UNCHANGED <<clock, grants>>

\* repository.reactivateIdentity
Reactivate(p) ==
    /\ InFlight(p, "selected", {"reactivate"})
    /\ StatusUnchanged(p)
    /\ NoneActive(req[p].target, req[p].at)
    /\ status' = [status EXCEPT ![req[p].target] = "active"]
    /\ Confirm(p)
    /\ UNCHANGED <<clock, sessions, grants>>

\* repository.disableIdentityAndRevokeAccess
Disable(p) ==
    LET i == req[p].target IN
    /\ InFlight(p, "selected", {"disable"})
    /\ StatusUnchanged(p)
    /\ SessionSetUnchanged(p)
    /\ GrantSetUnchanged(p)
    /\ status' = [status EXCEPT ![i] = "disabled"]
    /\ sessions' = Closures(p)
    /\ grants' = [grants EXCEPT ![i] = [r \in Role |->
                    IF r \in GrantTargets(p)
                      THEN [held |-> "revoked", version |-> req[p].seenGrants[r] + 1]
                      ELSE grants[i][r]]]
    /\ Confirm(p)
    /\ UNCHANGED clock

-----------------------------------------------------------------------------
(* Assignments decided from the console *)

SelectAssignment(p, i, r) ==
    /\ Become(p, [req[p] EXCEPT !.stage = "selected", !.target = i, !.role = r,
                                !.seenGrants = GrantVersionsOf(i, {r})])
    /\ UNCHANGED <<clock, status, sessions, grants>>

\* prepareAccessAssignment: Administration roles are not granted this way.
SelectGrant(p, i, r) ==
    /\ InFlight(p, "authorized", {"grant"})
    /\ r \in AppRoles
    /\ status[i] = "active"
    /\ grants[i][r].held # "active"
    /\ SelectAssignment(p, i, r)

\* revokeAccessAssignment: the deciding authority itself is out of its reach.
SelectWithdrawal(p, i, r) ==
    /\ InFlight(p, "authorized", {"withdraw"})
    /\ r # "decide_access"
    /\ grants[i][r].held = "active"
    /\ SelectAssignment(p, i, r)

\* The version an assignment is saved under follows the one in the registry.
GrantVersionFollows(p, i, r) == grants[i][r].version = req[p].seenGrants[r]

\* repository.saveAssignment: the version is checked, the identity is not.
SaveAssignment(p) ==
    LET i == req[p].target
        r == req[p].role IN
    /\ InFlight(p, "selected", {"grant", "withdraw"})
    /\ GrantVersionFollows(p, i, r)
    /\ req[p].seenGrants[r] < MaxVersion
    /\ grants' = [grants EXCEPT ![i][r] =
                    [held |-> IF req[p].kind = "grant" THEN "active" ELSE "revoked",
                     version |-> req[p].seenGrants[r] + 1]]
    /\ Confirm(p)
    /\ UNCHANGED <<clock, status, sessions>>

-----------------------------------------------------------------------------

SessionStep(p) ==
    \/ \E i \in Identities : Login(p, i)
    \/ \E s \in Sessions, t \in Readings : Insert(p, s, t)
    \/ \E k \in Kinds, i \in Identities, s \in Sessions, t \in Readings : Gate(p, k, i, s, t)
    \/ Touch(p)
    \/ TouchFails(p)
    \/ Recheck(p)
    \/ Expire(p)
    \/ \E r \in AppRoles : Decide(p, r)
    \/ \E i \in Identities, s \in Sessions : Logout(p, i, s)
    \/ \E s \in Sessions : SelectOne(p, s)
    \/ \E t \in Readings : SelectOthers(p, t)
    \/ \E s \in Sessions : SelectSession(p, s)
    \/ CloseSessions(p)

LifecycleStep(p) ==
    \/ Authorize(p)
    \/ \E i \in Identities : SelectSuspension(p, i)
    \/ \E i \in Identities : SelectReactivation(p, i)
    \/ \E i \in Identities : SelectDisablement(p, i)
    \/ Suspend(p)
    \/ Reactivate(p)
    \/ Disable(p)
    \/ \E i \in Identities, r \in AppRoles : SelectGrant(p, i, r)
    \/ \E i \in Identities, r \in Role : SelectWithdrawal(p, i, r)
    \/ SaveAssignment(p)

Next ==
    \/ Tick
    \/ \E p \in Workers : Fail(p) \/ SessionStep(p) \/ LifecycleStep(p)

Spec == Init /\ [][Next]_vars

-----------------------------------------------------------------------------
(* What the registry promises *)

\* Every session of the registry has a window that only its own touches
\* move: idle expiry follows the last consolidated activity and never goes
\* past the absolute expiry (touchApplicationSession and the two assertions
\* the repository makes on every write).
ActivityWindow ==
    \A s \in Sessions : Exists(sessions[s]) =>
        LET r == sessions[s] IN
        /\ r.owner \in Identities /\ r.version >= 1
        /\ r.lastSeen < r.idle /\ r.idle <= r.absolute
        /\ r.idle = Earlier(r.lastSeen + IdleTtl, r.absolute)

\* A confirmation is never fictitious: once a logout, a personal closing, an
\* operator's closing, a suspension or a disablement has been answered as
\* done, every session it read as one to close is closed in the registry.
ConfirmedClosure ==
    \A p \in Workers : \A s \in req[p].confirmed : Closed(sessions[s])

\* A closed session is never touched, reopened or closed a second time, by
\* whichever of the requests in flight had read it while it was open.
ClosedForever ==
    [][\A s \in Sessions : Closed(sessions[s]) => sessions'[s] = sessions[s]]_vars

\* Concurrent writers of one session never overwrite each other: a write
\* moves the version by exactly one, keeps the owner and the absolute expiry,
\* and is either an activity that goes forward or a closing that leaves the
\* activity as it was.
NoLostUpdate ==
    [][\A s \in Sessions :
         LET old == sessions[s]
             new == sessions'[s] IN
         Exists(old) /\ new # old =>
           /\ new.version = old.version + 1
           /\ new.owner = old.owner /\ new.absolute = old.absolute
           /\ \/ new.state = "open" /\ new.lastSeen > old.lastSeen /\ new.idle >= old.idle
              \/ Closed(new) /\ new.lastSeen = old.lastSeen /\ new.idle = old.idle]_vars

\* The session gate admits a request only while its session is unrevoked,
\* although the verdict rests on a record read earlier and the touch that
\* follows may lose a race.
PassImpliesOpen ==
    [][\A p \in Workers :
         req'[p].stage = "passed" /\ req[p].stage # "passed" =>
           sessions[req'[p].current].state = "open"]_vars

\* A suspension or a disablement takes effect together with the closing of
\* every session of the identity that is active at that moment, those opened
\* or touched after the operator's reads included.
ExitClosesAllSessions ==
    [][\A i \in Identities :
         status'[i] # status[i] /\ status'[i] \in {"suspended", "disabled"} =>
           \A s \in Sessions : sessions'[s].owner = i => ~ActiveAt(sessions'[s], clock)]_vars

\* A lapsed session is not artificially closed by a suspension or a
\* disablement: whatever these close was active when the operator decided.
ExitClosesOnlyActive ==
    [][\A p \in Workers, s \in Sessions :
         /\ req[p].kind \in {"suspend", "disable"} /\ req[p].stage = "selected"
         /\ sessions'[s] # sessions[s] /\ req'[p].stage = "done"
         => sessions[s].owner = req[p].target /\ sessions[s].idle > req[p].at]_vars

\* A disablement leaves the identity without any active assignment, those
\* granted after the operator's reads included.
DisablementLeavesNoGrant ==
    [][\A i \in Identities :
         status'[i] = "disabled" /\ status[i] # "disabled" =>
           \A r \in Role : grants'[i][r].held # "active"]_vars

\* A reactivation gives back a status and nothing else: no session of the
\* identity is active when it takes effect, not even one opened by a login
\* that was in flight during the suspension.
ReactivationRestoresNothing ==
    [][\A i \in Identities :
         status[i] = "suspended" /\ status'[i] = "active" =>
           /\ \A s \in Sessions : sessions[s].owner = i => ~ActiveAt(sessions[s], clock)
           /\ UNCHANGED <<sessions, grants>>]_vars

\* The life cycle only goes active <-> suspended and into disabled, which is
\* final, whatever the requests in flight have read before the last step.
LifecycleOrder ==
    [][\A i \in Identities :
         status'[i] # status[i] =>
           <<status[i], status'[i]>> \in {<<"active", "suspended">>, <<"suspended", "active">>,
                                          <<"active", "disabled">>, <<"suspended", "disabled">>}]_vars

\* Concurrent decisions on one assignment never overwrite each other: each
\* write follows the version it replaces.
NoLostDecision ==
    [][\A i \in Identities, r \in Role :
         grants'[i][r] # grants[i][r] => grants'[i][r].version = grants[i][r].version + 1]_vars

-----------------------------------------------------------------------------
(* What the documents say of the registry, and the code does not ensure *)

\* docs/LOT-56: there is no interval in which an identity is disabled and
\* keeps an active session or an active assignment (the INSERT of a login in
\* flight reads no identity; neither does saveAssignment).
DisabledKeepsNothing ==
    \A i \in Identities : status[i] = "disabled" =>
        ActiveSessionsOf(i, clock) = {} /\ ActiveGrantsOf(i) = {}

-----------------------------------------------------------------------------
(* Why the promises hold *)

\* A request that has read the record of its session and goes on to write it
\* knows a version the registry has reached; while the registry still has
\* that version, the record is the one that was read.
ReadingIsVersioned(p) ==
    LET s == req[p].current IN
    req[p].stage \in {"touching", "expiring"} =>
        /\ s \in Sessions /\ Exists(sessions[s])
        /\ req[p].seen[s] >= 1 /\ req[p].seen[s] <= sessions[s].version
        /\ req[p].stage = "touching" /\ sessions[s].version = req[p].seen[s]
             => req[p].at < sessions[s].idle

\* A request whose touch has failed still knows its session.
KnowsItsSession(p) == req[p].stage = "retouching" => req[p].current \in Sessions

\* Only a request about to write sessions remembers versions.
OnlyWritersRemember(p) ==
    \/ req[p].stage \in {"touching", "expiring"}
    \/ InFlight(p, "selected", {"logout", "revoke_one", "revoke_others", "revoke_session",
                                "suspend", "disable"})
    \/ Targets(p) = {}

\* A login about to insert its session has an identity of the registry as its
\* actor; a decision has one as its target.
NamesPeople(p) ==
    /\ InFlight(p, "selected", {"login"}) => req[p].actor \in Identities
    /\ InFlight(p, "selected", {"suspend", "reactivate", "disable", "grant", "withdraw"}) =>
         req[p].target \in Identities
    /\ InFlight(p, "selected", {"grant", "withdraw"}) => req[p].role \in Role

\* A decision about to be committed expects the status it may start from.
ExpectsItsStart(p) ==
    /\ InFlight(p, "selected", {"suspend"}) => req[p].expected = "active"
    /\ InFlight(p, "selected", {"reactivate"}) => req[p].expected = "suspended"
    /\ InFlight(p, "selected", {"disable"}) => req[p].expected \in {"active", "suspended"}

NoDateFromTheFuture(p) == req[p].at <= clock

ConfirmsOnlyClosed(p) == \A s \in req[p].confirmed : Closed(sessions[s])

RequestInv(p) ==
    /\ ReadingIsVersioned(p) /\ KnowsItsSession(p) /\ OnlyWritersRemember(p) /\ NamesPeople(p)
    /\ ExpectsItsStart(p) /\ NoDateFromTheFuture(p) /\ ConfirmsOnlyClosed(p)

Inv == TypeOK /\ ActivityWindow /\ \A p \in Workers : RequestInv(p)
=============================================================================
