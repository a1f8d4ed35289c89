----------------------- MODULE IdentitySessionsProofs -----------------------
(***************************************************************************)
(* Proofs about IdentitySessions for every value of its constants, and the  *)
(* proof that it implements AccessLifecycle.                               *)
(***************************************************************************)
EXTENDS LifecycleRefinement, TLAPS

USE LifetimeAssumption, NobodyAssumption, InstanceAssumption DEF LifetimeAssumption, NobodyAssumption, InstanceAssumption

-----------------------------------------------------------------------------
(* Types *)

\* What the helpers of the model return.
LEMMA HelperTypes ==
    ASSUME TypeOK
    PROVE  /\ IdleRequest \in Request
           /\ NoneSeen \in [Sessions -> Nat] /\ NoGrantsSeen \in [Role -> Nat]
           /\ \A S : VersionsOf(S) \in [Sessions -> Nat]
           /\ \A i \in Identities : \A R : GrantVersionsOf(i, R) \in [Role -> Nat]
           /\ \A p : Targets(p) \subseteq Sessions
           /\ \A t \in Readings : t \in Nat
BY DEF TypeOK, IdleRequest, Request, NoneSeen, NoGrantsSeen, VersionsOf, GrantVersionsOf,
       Targets, Readings, SessionRecord, GrantRecord, AllKinds, OpenKinds, PersonalKinds,
       OperatorKinds, Stage, Owner, IdentityStatus

\* What the functions on session records return.
LEMMA RecordTypes ==
    /\ \A i \in Identities : \A t \in Nat : NewSession(i, t) \in SessionRecord
    /\ \A r \in SessionRecord : \A t, v \in Nat :
          [Touched(r, t) EXCEPT !.version = v] \in SessionRecord
    /\ \A r \in SessionRecord : \A how \in {"revoked", "expired"} : \A v \in Nat :
          [ClosedAs(r, how) EXCEPT !.version = v] \in SessionRecord
<1>1. ASSUME NEW i \in Identities, NEW t \in Nat
      PROVE  NewSession(i, t) \in SessionRecord
  BY DEF NewSession, SessionRecord, Owner, SessionState
<1>2. ASSUME NEW r \in SessionRecord, NEW t \in Nat, NEW v \in Nat
      PROVE  [Touched(r, t) EXCEPT !.version = v] \in SessionRecord
  <2>1. Earlier(t + IdleTtl, r.absolute) \in Nat
    BY DEF SessionRecord, Earlier
  <2> QED
    BY <2>1 DEF Touched, SessionRecord
<1>3. ASSUME NEW r \in SessionRecord, NEW how \in {"revoked", "expired"}, NEW v \in Nat
      PROVE  [ClosedAs(r, how) EXCEPT !.version = v] \in SessionRecord
  BY DEF ClosedAs, SessionRecord, SessionState
<1> QED
  BY <1>1, <1>2, <1>3

LEMMA InitTypes == Init => TypeOK
<1> SUFFICES ASSUME Init PROVE TypeOK
  OBVIOUS
<1>1. clock \in Nat /\ status \in [Identities -> IdentityStatus]
  BY DEF Init, IdentityStatus
<1>2. sessions \in [Sessions -> SessionRecord]
  BY RecordTypes DEF Init, NoSession, SessionRecord, Owner, SessionState
<1>3. grants \in [Identities -> [Role -> GrantRecord]]
  BY DEF Init, GrantRecord
<1>4. IdleRequest \in Request
  BY DEF IdleRequest, Request, NoneSeen, NoGrantsSeen, AllKinds, OpenKinds, PersonalKinds,
         OperatorKinds, Stage, Owner, IdentityStatus
<1>5. req \in [Workers -> Request]
  BY <1>4 DEF Init
<1> QED
  BY <1>1, <1>2, <1>3, <1>5 DEF TypeOK


\* An action that only moves one request to another request keeps the types.
LEMMA RequestStepTypes ==
    ASSUME TypeOK, NEW p \in Workers, NEW x \in Request, Become(p, x),
           UNCHANGED <<clock, status, sessions, grants>>
    PROVE  TypeOK'
BY DEF TypeOK, Become

\* So does an action that also writes one session, or closes several.
LEMMA SessionStepTypes ==
    ASSUME TypeOK, NEW p \in Workers, NEW x \in Request, Become(p, x),
           sessions' \in [Sessions -> SessionRecord], UNCHANGED <<clock, status, grants>>
    PROVE  TypeOK'
BY DEF TypeOK, Become

LEMMA ClosuresTypes ==
    ASSUME TypeOK, NEW p \in Workers
    PROVE  Closures(p) \in [Sessions -> SessionRecord]
<1>1. ASSUME NEW s \in Sessions
      PROVE  [ClosedAs(sessions[s], "revoked") EXCEPT !.version = req[p].seen[s] + 1] \in SessionRecord
  <2>1. req[p].seen[s] + 1 \in Nat
    BY DEF TypeOK, Request
  <2>2. sessions[s] \in SessionRecord
    BY DEF TypeOK
  <2> QED
    BY <2>1, <2>2, RecordTypes
<1> QED
  BY <1>1 DEF Closures, TypeOK

\* The requests that the selections leave in memory are requests.
LEMMA SelectedTypes ==
    ASSUME TypeOK, NEW p \in Workers
    PROVE  /\ \A S : [req[p] EXCEPT !.stage = "selected", !.at = 0, !.seen = VersionsOf(S)] \in Request
           /\ \A i \in Identities : \A S, R :
                 [req[p] EXCEPT !.stage = "selected", !.target = i, !.expected = status[i],
                                !.seen = VersionsOf(S), !.seenGrants = GrantVersionsOf(i, R)] \in Request
           /\ \A i \in Identities, r \in Role :
                 [req[p] EXCEPT !.stage = "selected", !.target = i, !.role = r,
                                !.seenGrants = GrantVersionsOf(i, {r})] \in Request
<1>1. /\ \A S : VersionsOf(S) \in [Sessions -> Nat]
      /\ \A i \in Identities : \A R : GrantVersionsOf(i, R) \in [Role -> Nat]
  BY HelperTypes
<1>2. req[p] \in Request /\ \A i \in Identities : status[i] \in IdentityStatus
  BY DEF TypeOK
<1> HIDE DEF TypeOK
<1>3. ASSUME NEW S
      PROVE  [req[p] EXCEPT !.stage = "selected", !.at = 0, !.seen = VersionsOf(S)] \in Request
  BY <1>1, <1>2 DEF Request, Stage
<1>4. ASSUME NEW i \in Identities, NEW S, NEW R
      PROVE  [req[p] EXCEPT !.stage = "selected", !.target = i, !.expected = status[i],
                            !.seen = VersionsOf(S), !.seenGrants = GrantVersionsOf(i, R)] \in Request
  BY <1>1, <1>2 DEF Request, Stage, Owner
<1>5. ASSUME NEW i \in Identities, NEW r \in Role
      PROVE  [req[p] EXCEPT !.stage = "selected", !.target = i, !.role = r,
                            !.seenGrants = GrantVersionsOf(i, {r})] \in Request
  BY <1>1, <1>2 DEF Request, Stage, Owner
<1> QED
  BY <1>3, <1>4, <1>5

\* One step of the system keeps the types.
LEMMA NextTypes == TypeOK /\ [Next]_vars => TypeOK'
<1> SUFFICES ASSUME TypeOK, [Next]_vars PROVE TypeOK'
  OBVIOUS
<1>h. /\ IdleRequest \in Request
      /\ NoneSeen \in [Sessions -> Nat] /\ NoGrantsSeen \in [Role -> Nat]
      /\ \A S : VersionsOf(S) \in [Sessions -> Nat]
      /\ \A p : Targets(p) \subseteq Sessions
      /\ \A t \in Readings : t \in Nat
  BY HelperTypes
<1>r. \A p \in Workers : req[p] \in Request
  BY DEF TypeOK
<1>a. /\ [IdleRequest EXCEPT !.stage = "allowed"] \in Request
      /\ \A p : [IdleRequest EXCEPT !.stage = "done", !.confirmed = Targets(p)] \in Request
  BY <1>h DEF Request, Stage
<1>b. \A p \in Workers :
         /\ [req[p] EXCEPT !.stage = "passed", !.at = 0, !.seen = NoneSeen] \in Request
         /\ [req[p] EXCEPT !.stage = "retouching", !.seen = NoneSeen] \in Request
         /\ [req[p] EXCEPT !.stage = "authorized", !.at = clock] \in Request
  <2>1. clock \in Nat
    BY DEF TypeOK
  <2> SUFFICES ASSUME NEW p \in Workers
               PROVE  /\ [req[p] EXCEPT !.stage = "passed", !.at = 0, !.seen = NoneSeen] \in Request
                      /\ [req[p] EXCEPT !.stage = "retouching", !.seen = NoneSeen] \in Request
                      /\ [req[p] EXCEPT !.stage = "authorized", !.at = clock] \in Request
    OBVIOUS
  <2>2. req[p] \in Request
    BY <1>r
  <2> QED
    BY <2>1, <2>2, <1>h DEF Request, Stage
<1>1. CASE Tick
  BY <1>1 DEF Tick, TypeOK
<1>2. ASSUME NEW p \in Workers, Fail(p) PROVE TypeOK'
  BY <1>2, <1>h, RequestStepTypes DEF Fail, Refuse
<1>3. ASSUME NEW p \in Workers, NEW i \in Identities, Login(p, i) PROVE TypeOK'
  <2>1. [IdleRequest EXCEPT !.kind = "login", !.stage = "selected", !.actor = i, !.at = clock] \in Request
    BY <1>h DEF Request, Stage, AllKinds, OpenKinds, Owner, TypeOK
  <2> QED
    BY <2>1, <1>3, RequestStepTypes DEF Login
<1>4. ASSUME NEW p \in Workers, NEW s \in Sessions, NEW t \in Readings, Insert(p, s, t) PROVE TypeOK'
  <2>1. NewSession(req[p].actor, t) \in SessionRecord
    BY <1>h, <1>r DEF NewSession, SessionRecord, SessionState, Request
  <2>2. sessions' \in [Sessions -> SessionRecord]
    BY <2>1, <1>4 DEF Insert, TypeOK
  <2> QED
    BY <2>2, <1>4, <1>a, SessionStepTypes DEF Insert, Confirm
<1>5. ASSUME NEW p \in Workers, NEW k \in Kinds, NEW i \in Identities, NEW s \in Sessions,
             NEW t \in Readings, Gate(p, k, i, s, t)
      PROVE  TypeOK'
  <2> DEFINE stage == GateStage(sessions[s], i, t)
             reading == stage \in {"touching", "expiring"}
             x == IF stage = "idle" THEN IdleRequest
                  ELSE [IdleRequest EXCEPT
                          !.kind = k, !.stage = stage, !.actor = i, !.current = s,
                          !.at = IF reading THEN t ELSE 0,
                          !.seen = IF reading THEN VersionsOf({s}) ELSE NoneSeen]
  <2>1. stage \in Stage
    BY DEF GateStage, Stage
  <2>3. Become(p, x) /\ UNCHANGED <<clock, status, sessions, grants>>
    BY <1>5 DEF Gate
  <2> HIDE DEF stage
  <2>2. x \in Request
    BY <2>1, <1>h DEF Request, Owner
  <2> HIDE DEF x
  <2> QED
    BY <2>2, <2>3, RequestStepTypes
<1>6. ASSUME NEW p \in Workers, Touch(p) PROVE TypeOK'
  <2> DEFINE s == req[p].current
  <2>1. s \in Sessions => sessions[s] \in SessionRecord /\ req[p].seen[s] + 1 \in Nat /\ req[p].at \in Nat
    BY <1>r DEF TypeOK, Request
  <2>2. s \in Sessions =>
          [Touched(sessions[s], req[p].at) EXCEPT !.version = req[p].seen[s] + 1] \in SessionRecord
    BY <2>1, RecordTypes
  <2>3. sessions' \in [Sessions -> SessionRecord]
    BY <2>2, <1>6 DEF Touch, TypeOK
  <2> QED
    BY <2>3, <1>6, <1>b, SessionStepTypes DEF Touch, Admit
<1>7. ASSUME NEW p \in Workers, TouchFails(p) PROVE TypeOK'
  BY <1>7, <1>b, RequestStepTypes DEF TouchFails
<1>8. ASSUME NEW p \in Workers, Recheck(p) PROVE TypeOK'
  BY <1>8, <1>b, RequestStepTypes DEF Recheck, Admit
<1>9. ASSUME NEW p \in Workers, Expire(p) PROVE TypeOK'
  <2> DEFINE s == req[p].current
  <2>1. s \in Sessions => sessions[s] \in SessionRecord /\ req[p].seen[s] + 1 \in Nat
    BY <1>r DEF TypeOK, Request
  <2>2. s \in Sessions =>
          [ClosedAs(sessions[s], "expired") EXCEPT !.version = req[p].seen[s] + 1] \in SessionRecord
    BY <2>1, RecordTypes
  <2>3. sessions' \in [Sessions -> SessionRecord]
    BY <2>2, <1>9 DEF Expire, TypeOK
  <2> QED
    BY <2>3, <1>9, <1>h, SessionStepTypes DEF Expire, Refuse
<1>10. ASSUME NEW p \in Workers, NEW r \in AppRoles, Decide(p, r) PROVE TypeOK'
  BY <1>10, <1>a, <1>h, RequestStepTypes DEF Decide, Allow, Refuse
<1>11. ASSUME NEW p \in Workers, NEW i \in Identities, NEW s \in Sessions, Logout(p, i, s) PROVE TypeOK'
  <2> DEFINE x == IF Closed(sessions[s])
                    THEN [IdleRequest EXCEPT !.stage = "done", !.confirmed = {s}]
                    ELSE [IdleRequest EXCEPT !.kind = "logout", !.stage = "selected",
                                             !.seen = VersionsOf({s})]
  <2>1. x \in Request
    BY <1>h DEF Request, Stage, AllKinds, OpenKinds
  <2>2. Become(p, x) /\ UNCHANGED <<clock, status, sessions, grants>>
    BY <1>11 DEF Logout
  <2> HIDE DEF x
  <2> QED
    BY <2>1, <2>2, RequestStepTypes
<1>12. ASSUME NEW p \in Workers, NEW s \in Sessions, SelectOne(p, s) PROVE TypeOK'
  BY <1>12, SelectedTypes, RequestStepTypes DEF SelectOne, Select
<1>13. ASSUME NEW p \in Workers, NEW t \in Readings, SelectOthers(p, t) PROVE TypeOK'
  BY <1>13, <1>a, SelectedTypes, RequestStepTypes DEF SelectOthers, Select, Confirm
<1>14. ASSUME NEW p \in Workers, NEW s \in Sessions, SelectSession(p, s) PROVE TypeOK'
  BY <1>14, SelectedTypes, RequestStepTypes DEF SelectSession, Select
<1>15. ASSUME NEW p \in Workers, CloseSessions(p) PROVE TypeOK'
  BY <1>15, <1>a, ClosuresTypes, SessionStepTypes DEF CloseSessions, Confirm
<1>16. ASSUME NEW p \in Workers, Authorize(p) PROVE TypeOK'
  BY <1>16, <1>b, RequestStepTypes DEF Authorize
<1>17. ASSUME NEW p \in Workers, NEW i \in Identities,
              SelectSuspension(p, i) \/ SelectReactivation(p, i) \/ SelectDisablement(p, i)
       PROVE  TypeOK'
  BY <1>17, SelectedTypes, RequestStepTypes
     DEF SelectSuspension, SelectReactivation, SelectDisablement, SelectIdentity
<1>18. ASSUME NEW p \in Workers, Suspend(p) PROVE TypeOK'
  BY <1>18, <1>a, <1>r, ClosuresTypes DEF Suspend, Confirm, Become, TypeOK, IdentityStatus
<1>19. ASSUME NEW p \in Workers, Reactivate(p) PROVE TypeOK'
  BY <1>19, <1>a, <1>r DEF Reactivate, Confirm, Become, TypeOK, IdentityStatus
<1>20. ASSUME NEW p \in Workers, Disable(p) PROVE TypeOK'
  <2>1. \A i \in Identities, r \in Role :
           [held |-> "revoked", version |-> req[p].seenGrants[r] + 1] \in GrantRecord
    BY <1>r DEF Request, GrantRecord
  <2>2. grants' \in [Identities -> [Role -> GrantRecord]]
    BY <2>1, <1>20 DEF Disable, TypeOK
  <2> QED
    BY <2>2, <1>20, <1>a, <1>r, ClosuresTypes DEF Disable, Confirm, Become, TypeOK, IdentityStatus
<1>21. ASSUME NEW p \in Workers, NEW i \in Identities, NEW r \in Role,
              SelectGrant(p, i, r) \/ SelectWithdrawal(p, i, r)
       PROVE  TypeOK'
  BY <1>21, SelectedTypes, RequestStepTypes DEF SelectGrant, SelectWithdrawal, SelectAssignment
<1>22. ASSUME NEW p \in Workers, SaveAssignment(p) PROVE TypeOK'
  <2> DEFINE g == [held |-> IF req[p].kind = "grant" THEN "active" ELSE "revoked",
                   version |-> req[p].seenGrants[req[p].role] + 1]
  <2>1. req[p].role \in Role => g \in GrantRecord
    BY <1>r DEF Request, GrantRecord
  <2>2. grants' = [grants EXCEPT ![req[p].target][req[p].role] = g]
    BY <1>22 DEF SaveAssignment
  <2>3. grants' \in [Identities -> [Role -> GrantRecord]]
    BY <2>1, <2>2 DEF TypeOK
  <2> QED
    BY <2>3, <1>22, <1>a, <1>r DEF SaveAssignment, Confirm, Become, TypeOK
<1>23. CASE UNCHANGED vars
  BY <1>23 DEF vars, TypeOK
<1> HIDE DEF TypeOK
<1>24. AppRoles \subseteq Role
  BY DEF Role
<1>25. ASSUME NEW p \in Workers, SessionStep(p) PROVE TypeOK'
  BY <1>25, <1>3, <1>4, <1>5, <1>6, <1>7, <1>8, <1>9, <1>10, <1>11, <1>12, <1>13, <1>14, <1>15
     DEF SessionStep
<1>26. ASSUME NEW p \in Workers, LifecycleStep(p) PROVE TypeOK'
  BY <1>26, <1>16, <1>17, <1>18, <1>19, <1>20, <1>21, <1>22, <1>24 DEF LifecycleStep
<1> QED
  BY <1>1, <1>2, <1>23, <1>25, <1>26 DEF Next

\* The model is well typed in every reachable state.
THEOREM TypeCorrect == Spec => []TypeOK
<1>1. Init => TypeOK
  BY InitTypes
<1>2. TypeOK /\ [Next]_vars => TypeOK'
  BY NextTypes
<1> QED
  BY <1>1, <1>2, PTL DEF Spec

-----------------------------------------------------------------------------
(* What one step may do to one session *)

SessionChange(s) ==
    LET old == sessions[s]
        new == sessions'[s] IN
    \/ new = old
    \/ old.state = "absent" /\ \E i \in Identities, t \in Nat : new = NewSession(i, t)
    \/ old.state = "open" /\ \E t \in Nat :
          old.lastSeen < t /\ t < old.idle /\ new = Touched(old, t)
    \/ old.state = "open" /\ \E how \in {"revoked", "expired"} : new = ClosedAs(old, how)

\* A transaction that has checked the versions it read closes its targets,
\* all of which are open, and nothing else.
LEMMA ClosuresChange ==
    ASSUME TypeOK, NEW p \in Workers, Unchanged(p), sessions' = Closures(p), NEW s \in Sessions
    PROVE  /\ s \in Targets(p) => /\ sessions[s].state = "open"
                                  /\ sessions'[s] = ClosedAs(sessions[s], "revoked")
           /\ s \notin Targets(p) => sessions'[s] = sessions[s]
<1>1. s \notin Targets(p) => sessions'[s] = sessions[s]
  BY DEF Closures
<1>2. ASSUME s \in Targets(p)
      PROVE  sessions[s].state = "open" /\ sessions'[s] = ClosedAs(sessions[s], "revoked")
  <2>1. sessions[s].state = "open" /\ sessions[s].version = req[p].seen[s]
    BY <1>2 DEF Unchanged
  <2>2. sessions'[s] = [ClosedAs(sessions[s], "revoked") EXCEPT !.version = req[p].seen[s] + 1]
    BY <1>2 DEF Closures
  <2>3. sessions[s] \in SessionRecord
    BY DEF TypeOK
  <2> QED
    BY <2>1, <2>2, <2>3 DEF ClosedAs, SessionRecord
<1> QED
  BY <1>1, <1>2

\* Whatever the requests in flight hold in memory, one step leaves a session
\* alone, opens it, moves its activity forward inside its window, or closes it.
LEMMA SessionChanges ==
    ASSUME TypeOK, \A p \in Workers : ReadingIsVersioned(p) /\ NamesPeople(p), [Next]_vars,
           NEW s \in Sessions
    PROVE  SessionChange(s)
<1>k. UNCHANGED sessions => SessionChange(s)
  BY DEF SessionChange
<1>1. ASSUME NEW p \in Workers, NEW z \in Sessions, NEW t \in Readings, Insert(p, z, t)
      PROVE  SessionChange(s)
  <2>1. req[p].actor \in Identities /\ t \in Nat
    BY <1>1, HelperTypes DEF Insert, NamesPeople, InFlight
  <2>2. sessions' = [sessions EXCEPT ![z] = NewSession(req[p].actor, t)] /\ sessions[z].state = "absent"
    BY <1>1 DEF Insert
  <2> QED
    BY <2>1, <2>2 DEF SessionChange, TypeOK
<1>2. ASSUME NEW p \in Workers, Touch(p) PROVE SessionChange(s)
  <2> DEFINE z == req[p].current
  <2>1. z \in Sessions /\ req[p].seen[z] >= 1 /\ req[p].seen[z] \in Nat /\ req[p].at \in Nat
    BY <1>2 DEF Touch, ReadingIsVersioned, TypeOK, Request
  <2>2. sessions[z].state = "open" /\ sessions[z].version = req[p].seen[z]
    BY <1>2, <2>1 DEF Touch, Unchanged, Targets
  <2>3. sessions[z].lastSeen < req[p].at /\ req[p].at < sessions[z].idle
    BY <1>2, <2>2 DEF Touch, ReadingIsVersioned
  <2>4. sessions' = [sessions EXCEPT ![z] =
                       [Touched(sessions[z], req[p].at) EXCEPT !.version = req[p].seen[z] + 1]]
    BY <1>2 DEF Touch
  <2>5. sessions[z] \in SessionRecord
    BY <2>1 DEF TypeOK
  <2>6. [Touched(sessions[z], req[p].at) EXCEPT !.version = req[p].seen[z] + 1]
          = Touched(sessions[z], req[p].at)
    BY <2>2, <2>5 DEF Touched, SessionRecord
  <2> QED
    BY <2>1, <2>2, <2>3, <2>4, <2>6 DEF SessionChange, TypeOK
<1>3. ASSUME NEW p \in Workers, Expire(p) PROVE SessionChange(s)
  <2> DEFINE z == req[p].current
  <2>1. z \in Sessions /\ req[p].seen[z] >= 1 /\ req[p].seen[z] \in Nat
    BY <1>3 DEF Expire, ReadingIsVersioned, TypeOK, Request
  <2>2. sessions[z].state = "open" /\ sessions[z].version = req[p].seen[z]
    BY <1>3, <2>1 DEF Expire, Unchanged, Targets
  <2>4. sessions' = [sessions EXCEPT ![z] =
                       [ClosedAs(sessions[z], "expired") EXCEPT !.version = req[p].seen[z] + 1]]
    BY <1>3 DEF Expire
  <2>5. sessions[z] \in SessionRecord
    BY <2>1 DEF TypeOK
  <2>6. [ClosedAs(sessions[z], "expired") EXCEPT !.version = req[p].seen[z] + 1]
          = ClosedAs(sessions[z], "expired")
    BY <2>2, <2>5 DEF ClosedAs, SessionRecord
  <2> QED
    BY <2>1, <2>2, <2>4, <2>6 DEF SessionChange, TypeOK
<1>4. ASSUME NEW p \in Workers, CloseSessions(p) \/ Suspend(p) \/ Disable(p) PROVE SessionChange(s)
  <2>1. Unchanged(p) /\ sessions' = Closures(p)
    BY <1>4 DEF CloseSessions, Suspend, Disable, SessionSetUnchanged
  <2> QED
    BY <2>1, ClosuresChange DEF SessionChange
<1>5. ASSUME NEW p \in Workers, SessionStep(p) PROVE SessionChange(s)
  <2> USE <1>k
  <2>1. ASSUME NEW i \in Identities, Login(p, i) PROVE SessionChange(s)
    BY <2>1 DEF Login
  <2>2. ASSUME NEW k \in Kinds, NEW i \in Identities, NEW z \in Sessions, NEW t \in Readings,
               Gate(p, k, i, z, t)
        PROVE  SessionChange(s)
    BY <2>2 DEF Gate
  <2>3. CASE TouchFails(p) \/ Recheck(p)
    BY <2>3 DEF TouchFails, Recheck
  <2>4. ASSUME NEW r \in AppRoles, Decide(p, r) PROVE SessionChange(s)
    BY <2>4 DEF Decide
  <2>5. ASSUME NEW i \in Identities, NEW z \in Sessions, Logout(p, i, z) PROVE SessionChange(s)
    BY <2>5 DEF Logout
  <2>6. ASSUME NEW z \in Sessions, SelectOne(p, z) \/ SelectSession(p, z) PROVE SessionChange(s)
    BY <2>6 DEF SelectOne, SelectSession, Select
  <2>7. ASSUME NEW t \in Readings, SelectOthers(p, t) PROVE SessionChange(s)
    BY <2>7 DEF SelectOthers, Select
  <2> QED
    BY <1>5, <1>1, <1>2, <1>3, <1>4, <2>1, <2>2, <2>3, <2>4, <2>5, <2>6, <2>7 DEF SessionStep
<1>6. ASSUME NEW p \in Workers, LifecycleStep(p) PROVE SessionChange(s)
  <2>1. \/ Suspend(p) \/ Disable(p) \/ UNCHANGED sessions
    BY <1>6 DEF LifecycleStep, Authorize, SelectSuspension, SelectReactivation, SelectDisablement,
                SelectIdentity, Reactivate, SelectGrant, SelectWithdrawal, SelectAssignment,
                SaveAssignment
  <2> QED
    BY <2>1, <1>4, <1>k
<1>7. CASE Tick \/ UNCHANGED vars \/ \E p \in Workers : Fail(p)
  BY <1>7, <1>k DEF Tick, vars, Fail
<1> QED
  BY <1>5, <1>6, <1>7 DEF Next

\* Consequences of a change for whoever remembers a version of the session:
\* an existing session keeps its owner, never disappears, stays closed once
\* closed, and its version moves by one whenever anything moves.
LEMMA ChangeFacts ==
    ASSUME TypeOK, NEW s \in Sessions, SessionChange(s), Exists(sessions[s])
    PROVE  /\ Exists(sessions'[s]) /\ sessions'[s].owner = sessions[s].owner
           /\ sessions[s].version \in Nat /\ sessions[s].version <= sessions'[s].version
           /\ sessions'[s].version = sessions[s].version => sessions'[s] = sessions[s]
           /\ Closed(sessions[s]) => sessions'[s] = sessions[s]
<1>1. sessions[s] \in SessionRecord
  BY DEF TypeOK
<1>2. CASE sessions'[s] = sessions[s]
  BY <1>1, <1>2 DEF SessionRecord
<1>3. ASSUME NEW t \in Nat, sessions[s].state = "open", sessions'[s] = Touched(sessions[s], t)
      PROVE  /\ sessions'[s].state = "open" /\ sessions'[s].owner = sessions[s].owner
             /\ sessions'[s].version = sessions[s].version + 1
  BY <1>1, <1>3 DEF Touched, SessionRecord
<1>4. ASSUME NEW how \in {"revoked", "expired"}, sessions[s].state = "open",
             sessions'[s] = ClosedAs(sessions[s], how)
      PROVE  /\ sessions'[s].state = how /\ sessions'[s].owner = sessions[s].owner
             /\ sessions'[s].version = sessions[s].version + 1
  BY <1>1, <1>4 DEF ClosedAs, SessionRecord
<1>5. \/ sessions'[s] = sessions[s]
      \/ /\ sessions[s].state = "open" /\ sessions'[s].owner = sessions[s].owner
         /\ sessions'[s].state \in {"open", "revoked", "expired"}
         /\ sessions'[s].version = sessions[s].version + 1
  BY <1>3, <1>4 DEF SessionChange, Exists
<1>6. sessions[s].version \in Nat
  BY <1>1 DEF SessionRecord
<1> QED
  BY <1>5, <1>6 DEF Exists, Closed

\* The activity window survives every change.
LEMMA WindowKept ==
    ASSUME TypeOK, ActivityWindow, \A s \in Sessions : SessionChange(s)
    PROVE  ActivityWindow'
<1> SUFFICES ASSUME NEW s \in Sessions, Exists(sessions'[s])
             PROVE  LET r == sessions'[s] IN
                    /\ r.owner \in Identities /\ r.version >= 1
                    /\ r.lastSeen < r.idle /\ r.idle <= r.absolute
                    /\ r.idle = Earlier(r.lastSeen + IdleTtl, r.absolute)
  BY DEF ActivityWindow
<1>1. sessions[s] \in SessionRecord
  BY DEF TypeOK
<1>2. Exists(sessions[s]) => LET r == sessions[s] IN
                    /\ r.owner \in Identities /\ r.version >= 1
                    /\ r.lastSeen < r.idle /\ r.idle <= r.absolute
                    /\ r.idle = Earlier(r.lastSeen + IdleTtl, r.absolute)
  BY DEF ActivityWindow
<1>3. CASE sessions'[s] = sessions[s]
  BY <1>2, <1>3
<1>4. CASE \E i \in Identities, t \in Nat : sessions'[s] = NewSession(i, t)
  BY <1>4 DEF NewSession, Earlier
<1>5. CASE sessions[s].state = "open" /\ \E t \in Nat :
             sessions[s].lastSeen < t /\ t < sessions[s].idle /\ sessions'[s] = Touched(sessions[s], t)
  <2>1. PICK t \in Nat : t < sessions[s].idle /\ sessions'[s] = Touched(sessions[s], t)
    BY <1>5
  <2>2. Exists(sessions[s])
    BY <1>5 DEF Exists
  <2>3. /\ sessions'[s].owner = sessions[s].owner /\ sessions'[s].lastSeen = t
        /\ sessions'[s].idle = Earlier(t + IdleTtl, sessions[s].absolute)
        /\ sessions'[s].absolute = sessions[s].absolute
        /\ sessions'[s].version = sessions[s].version + 1
    BY <1>1, <2>1 DEF Touched, SessionRecord
  <2>4. /\ sessions[s].absolute \in Nat /\ sessions[s].version \in Nat
        /\ sessions[s].idle \in Nat /\ t < sessions[s].absolute
    BY <1>1, <1>2, <2>1, <2>2 DEF SessionRecord
  <2> QED
    BY <1>2, <2>2, <2>3, <2>4 DEF Earlier
<1>6. CASE sessions[s].state = "open" /\
           \E how \in {"revoked", "expired"} : sessions'[s] = ClosedAs(sessions[s], how)
  <2>1. Exists(sessions[s])
    BY <1>6 DEF Exists
  <2>2. /\ sessions'[s].owner = sessions[s].owner /\ sessions'[s].lastSeen = sessions[s].lastSeen
        /\ sessions'[s].idle = sessions[s].idle /\ sessions'[s].absolute = sessions[s].absolute
        /\ sessions'[s].version = sessions[s].version + 1 /\ sessions[s].version \in Nat
    BY <1>1, <1>6 DEF ClosedAs, SessionRecord
  <2> QED
    BY <1>2, <2>1, <2>2
<1> QED
  BY <1>3, <1>4, <1>5, <1>6 DEF SessionChange

\* A request that does not take part in a step keeps what holds of it.
LEMMA BystanderKept ==
    ASSUME TypeOK, TypeOK', \A s \in Sessions : SessionChange(s), clock <= clock',
           NEW p \in Workers, RequestInv(p), req'[p] = req[p]
    PROVE  RequestInv(p)'
<1>1. req[p] \in Request /\ clock \in Nat /\ clock' \in Nat
  BY DEF TypeOK
<1>2. ReadingIsVersioned(p)'
  <2> SUFFICES ASSUME req[p].stage \in {"touching", "expiring"} PROVE ReadingIsVersioned(p)'
    BY DEF ReadingIsVersioned
  <2> DEFINE s == req[p].current
  <2>1. /\ s \in Sessions /\ Exists(sessions[s])
        /\ req[p].seen[s] >= 1 /\ req[p].seen[s] <= sessions[s].version
        /\ req[p].stage = "touching" /\ sessions[s].version = req[p].seen[s]
             => req[p].at < sessions[s].idle
    BY DEF RequestInv, ReadingIsVersioned
  <2>2. /\ Exists(sessions'[s]) /\ sessions[s].version <= sessions'[s].version
        /\ sessions'[s].version = sessions[s].version => sessions'[s] = sessions[s]
    BY <2>1, ChangeFacts
  <2>3. req[p].seen[s] \in Nat /\ sessions[s].version \in Nat /\ sessions'[s].version \in Nat
    BY <1>1, <2>1 DEF Request, TypeOK, SessionRecord
  <2> QED
    BY <2>1, <2>2, <2>3 DEF ReadingIsVersioned
<1>3. OnlyWritersRemember(p)' /\ NamesPeople(p)' /\ ExpectsItsStart(p)'
      /\ KnowsItsSession(p)'
  BY DEF RequestInv, OnlyWritersRemember, NamesPeople, ExpectsItsStart, KnowsItsSession, InFlight,
         Targets
<1>4. NoDateFromTheFuture(p)'
  BY <1>1 DEF RequestInv, NoDateFromTheFuture, Request
<1>5. ConfirmsOnlyClosed(p)'
  <2>1. \A s \in req[p].confirmed : s \in Sessions /\ Closed(sessions[s])
    BY <1>1 DEF RequestInv, ConfirmsOnlyClosed, Request
  <2>2. \A s \in Sessions : Closed(sessions[s]) => sessions'[s] = sessions[s]
    BY ChangeFacts DEF Closed, Exists
  <2> QED
    BY <2>1, <2>2 DEF ConfirmsOnlyClosed
<1> QED
  BY <1>2, <1>3, <1>4, <1>5 DEF RequestInv

\* The field values of a request that has just moved.
LEMMA Moved ==
    ASSUME TypeOK, NEW p \in Workers, NEW x, Become(p, x)
    PROVE  req'[p] = x /\ \A q \in Workers : q # p => req'[q] = req[q]
BY DEF TypeOK, Become

\* A request that holds nothing it could write, and confirms only what is
\* closed, satisfies the invariant.
LEMMA QuietRequest ==
    ASSUME NEW p \in Workers,
           req'[p].stage \notin {"touching", "expiring", "selected"},
           req'[p].stage = "retouching" => req'[p].current \in Sessions,
           \A s \in Sessions : ~(req'[p].seen[s] > 0), req'[p].at <= clock',
           \A s \in req'[p].confirmed : Closed(sessions'[s])
    PROVE  RequestInv(p)'
BY DEF RequestInv, ReadingIsVersioned, OnlyWritersRemember, NamesPeople, ExpectsItsStart, KnowsItsSession, NoDateFromTheFuture,
       ConfirmsOnlyClosed, InFlight, Targets

\* What a request confirmed stays closed while it goes on.
LEMMA ConfirmedKept ==
    ASSUME TypeOK, \A s \in Sessions : SessionChange(s), NEW p \in Workers, RequestInv(p)
    PROVE  \A s \in req[p].confirmed : Closed(sessions'[s])
<1>1. \A s \in req[p].confirmed : s \in Sessions /\ Closed(sessions[s])
  BY DEF TypeOK, Request, RequestInv, ConfirmsOnlyClosed
<1>2. \A s \in Sessions : Closed(sessions[s]) => sessions'[s] = sessions[s]
  BY ChangeFacts DEF Closed, Exists
<1> QED
  BY <1>1, <1>2

LEMMA RefusedRequest ==
    ASSUME TypeOK, TypeOK', NEW p \in Workers, Refuse(p) \/ Allow(p)
    PROVE  RequestInv(p)'
<1>1. \/ req'[p] = IdleRequest \/ req'[p] = [IdleRequest EXCEPT !.stage = "allowed"]
  BY Moved DEF Refuse, Allow
<1>2. /\ req'[p].stage \in {"idle", "allowed"} /\ req'[p].seen = NoneSeen
      /\ req'[p].at = 0 /\ req'[p].confirmed = {}
  BY <1>1 DEF IdleRequest
<1>3. clock' \in Nat
  BY DEF TypeOK
<1> QED
  BY <1>2, <1>3, QuietRequest DEF NoneSeen

LEMMA ConfirmedRequest ==
    ASSUME TypeOK, TypeOK', NEW p \in Workers, Confirm(p),
           \A s \in Targets(p) : Closed(sessions'[s])
    PROVE  RequestInv(p)'
<1>1. req'[p] = [IdleRequest EXCEPT !.stage = "done", !.confirmed = Targets(p)]
  BY Moved DEF Confirm
<1>2. /\ req'[p].stage = "done" /\ req'[p].seen = NoneSeen
      /\ req'[p].at = 0 /\ req'[p].confirmed = Targets(p)
  BY <1>1 DEF IdleRequest
<1>3. clock' \in Nat
  BY DEF TypeOK
<1> QED
  BY <1>2, <1>3, QuietRequest DEF NoneSeen

\* A transaction that closes its targets may confirm them.
LEMMA ClosersConfirm ==
    ASSUME TypeOK, TypeOK', NEW p \in Workers, Unchanged(p), sessions' = Closures(p), Confirm(p)
    PROVE  RequestInv(p)'
<1>1. ASSUME NEW s \in Targets(p) PROVE Closed(sessions'[s])
  <2>1. s \in Sessions /\ sessions[s] \in SessionRecord
    BY <1>1 DEF Targets, TypeOK
  <2>2. sessions'[s] = ClosedAs(sessions[s], "revoked")
    BY <1>1, <2>1, ClosuresChange
  <2> QED
    BY <2>1, <2>2 DEF Closed, ClosedAs, SessionRecord
<1> QED
  BY <1>1, ConfirmedRequest

\* The request that takes a step satisfies the invariant after it.
LEMMA ActorSessionStep ==
    ASSUME Inv, TypeOK', [Next]_vars, \A s \in Sessions : SessionChange(s),
           NEW p \in Workers, Fail(p) \/ SessionStep(p)
    PROVE  RequestInv(p)'
<1>t. TypeOK /\ req[p] \in Request /\ clock \in Nat /\ clock' \in Nat /\ RequestInv(p)
  BY DEF Inv, TypeOK
<1>c. \A s \in req[p].confirmed : Closed(sessions'[s])
  BY <1>t, ConfirmedKept
<1>e. IdleRequest.at = 0 /\ IdleRequest.seen = NoneSeen /\ IdleRequest.confirmed = {}
  BY DEF IdleRequest
<1>1. CASE Fail(p)
  BY <1>1, <1>t, RefusedRequest DEF Fail
<1>2. ASSUME NEW i \in Identities, Login(p, i) PROVE RequestInv(p)'
  <2> DEFINE x == [IdleRequest EXCEPT !.kind = "login", !.stage = "selected", !.actor = i, !.at = clock]
  <2>1. req'[p] = x /\ UNCHANGED <<clock, sessions>>
    BY <1>2, <1>t, Moved DEF Login
  <2>2. /\ req'[p].stage = "selected" /\ req'[p].kind = "login" /\ req'[p].actor = i
        /\ req'[p].at = clock /\ req'[p].seen = NoneSeen /\ req'[p].confirmed = {}
    BY <2>1 DEF IdleRequest
  <2> QED
    BY <2>1, <2>2, <1>t DEF RequestInv, ReadingIsVersioned, OnlyWritersRemember, NamesPeople,
       ExpectsItsStart, KnowsItsSession, NoDateFromTheFuture, ConfirmsOnlyClosed, InFlight, Targets, NoneSeen
<1>3. ASSUME NEW s \in Sessions, NEW t \in Readings, Insert(p, s, t) PROVE RequestInv(p)'
  <2>1. Targets(p) = {}
    BY <1>3, <1>t DEF Insert, RequestInv, OnlyWritersRemember, InFlight
  <2> QED
    BY <2>1, <1>3, <1>t, ConfirmedRequest DEF Insert
<1>4. ASSUME NEW k \in Kinds, NEW i \in Identities, NEW s \in Sessions, NEW t \in Readings,
             Gate(p, k, i, s, t)
      PROVE  RequestInv(p)'
  <2> DEFINE stage == GateStage(sessions[s], i, t)
             reading == stage \in {"touching", "expiring"}
             x == IF stage = "idle" THEN IdleRequest
                  ELSE [IdleRequest EXCEPT
                          !.kind = k, !.stage = stage, !.actor = i, !.current = s,
                          !.at = IF reading THEN t ELSE 0,
                          !.seen = IF reading THEN VersionsOf({s}) ELSE NoneSeen]
  <2>1. req'[p] = x /\ UNCHANGED <<clock, sessions>>
    BY <1>4, <1>t, Moved DEF Gate
  <2>2. stage \in {"idle", "passed", "touching", "expiring"}
    BY DEF GateStage
  <2>3. stage = "touching" => t < sessions[s].idle
    <3>1. stage = "touching" => Assess(sessions[s], i, t) = "session_active"
      BY DEF GateStage
    <3>2. sessions[s].idle \in Nat /\ t \in Nat
      BY <1>t DEF TypeOK, SessionRecord, Readings
    <3> QED
      BY <3>1, <3>2 DEF Assess
  <2>4. Exists(sessions[s]) /\ sessions[s].version >= 1 /\ sessions[s].version \in Nat
    BY <1>4, <1>t DEF Gate, OwnedBy, Inv, ActivityWindow, TypeOK, SessionRecord
  <2>5. t \in Nat /\ t <= clock
    BY <1>t DEF Readings
  <2> HIDE DEF stage
  <2>6. CASE ~reading
    <3>1. req'[p].stage \in {"idle", "passed"} /\ req'[p].at = 0 /\ req'[p].seen = NoneSeen
          /\ req'[p].confirmed = {}
      BY <2>1, <2>2, <2>6 DEF IdleRequest
    <3> QED
      BY <3>1, <1>t, QuietRequest DEF NoneSeen
  <2>7. CASE reading
    <3>1. /\ req'[p].stage = stage /\ req'[p].current = s /\ req'[p].at = t
          /\ req'[p].seen = VersionsOf({s}) /\ req'[p].confirmed = {}
      BY <2>1, <2>7 DEF IdleRequest
    <3>2. req'[p].seen[s] = sessions'[s].version
      BY <3>1, <2>1 DEF VersionsOf
    <3>3. ReadingIsVersioned(p)'
      BY <3>1, <3>2, <2>1, <2>3, <2>4, <2>7 DEF ReadingIsVersioned
    <3> QED
      BY <3>1, <3>3, <2>1, <2>5, <2>7, <1>t
         DEF RequestInv, OnlyWritersRemember, NamesPeople, ExpectsItsStart, KnowsItsSession, NoDateFromTheFuture, ConfirmsOnlyClosed,
             InFlight
  <2> QED
    BY <2>6, <2>7
<1>5. CASE Touch(p) \/ Recheck(p) \/ TouchFails(p)
  <2>1. \/ req'[p] = [req[p] EXCEPT !.stage = "passed", !.at = 0, !.seen = NoneSeen]
        \/ req'[p] = [req[p] EXCEPT !.stage = "retouching", !.seen = NoneSeen]
    BY <1>5, <1>t, Moved DEF Touch, Recheck, TouchFails, Admit
  <2>2. /\ req'[p].stage \in {"passed", "retouching"} /\ req'[p].seen = NoneSeen
        /\ req'[p].at = 0 \/ req'[p].at = req[p].at
        /\ req'[p].confirmed = req[p].confirmed /\ req'[p].current = req[p].current
    <3>1. CASE req'[p] = [req[p] EXCEPT !.stage = "passed", !.at = 0, !.seen = NoneSeen]
      BY <3>1, <1>t DEF Request
    <3>2. CASE req'[p] = [req[p] EXCEPT !.stage = "retouching", !.seen = NoneSeen]
      BY <3>2, <1>t DEF Request
    <3> QED
      BY <2>1, <3>1, <3>2
  <2>3. clock' = clock
    BY <1>5 DEF Touch, Recheck, TouchFails
  <2>4. req'[p].at <= clock'
    BY <2>2, <2>3, <1>t DEF RequestInv, NoDateFromTheFuture
  <2>5. req[p].current \in Sessions
    BY <1>5, <1>t DEF Touch, Recheck, TouchFails, RequestInv, ReadingIsVersioned, KnowsItsSession
  <2> QED
    BY <2>2, <2>4, <2>5, <1>c, <1>t, QuietRequest DEF NoneSeen
<1>6. CASE Expire(p)
  BY <1>6, <1>t, RefusedRequest DEF Expire
<1>7. ASSUME NEW r \in AppRoles, Decide(p, r) PROVE RequestInv(p)'
  BY <1>7, <1>t, RefusedRequest DEF Decide
<1>8. ASSUME NEW i \in Identities, NEW s \in Sessions, Logout(p, i, s) PROVE RequestInv(p)'
  <2>1. UNCHANGED <<clock, sessions>>
    BY <1>8 DEF Logout
  <2>2. CASE Closed(sessions[s])
    <3>1. req'[p] = [IdleRequest EXCEPT !.stage = "done", !.confirmed = {s}]
      BY <1>8, <1>t, <2>2, Moved DEF Logout
    <3>2. /\ req'[p].stage = "done" /\ req'[p].confirmed = {s} /\ req'[p].at = 0
          /\ req'[p].seen = NoneSeen
      BY <3>1 DEF IdleRequest
    <3> QED
      BY <3>2, <2>1, <2>2, <1>t, QuietRequest DEF NoneSeen
  <2>3. CASE ~Closed(sessions[s])
    <3>1. req'[p] = [IdleRequest EXCEPT !.kind = "logout", !.stage = "selected", !.seen = VersionsOf({s})]
      BY <1>8, <1>t, <2>3, Moved DEF Logout
    <3>2. /\ req'[p].stage = "selected" /\ req'[p].kind = "logout" /\ req'[p].at = 0
          /\ req'[p].confirmed = {}
      BY <3>1 DEF IdleRequest
    <3> QED
      BY <3>2, <1>t DEF RequestInv, ReadingIsVersioned, OnlyWritersRemember, NamesPeople,
         ExpectsItsStart, KnowsItsSession, NoDateFromTheFuture, ConfirmsOnlyClosed, InFlight
  <2> QED
    BY <2>2, <2>3
<1>9. ASSUME NEW S, Select(p, S), InFlight(p, "passed", {"revoke_one", "revoke_others"})
                     \/ InFlight(p, "authorized", {"revoke_session"})
      PROVE  RequestInv(p)'
  <2>0. req'[p] = [req[p] EXCEPT !.stage = "selected", !.at = 0, !.seen = VersionsOf(S)]
    BY <1>9, <1>t, Moved DEF Select
  <2>1. /\ req'[p].stage = "selected" /\ req'[p].kind = req[p].kind /\ req'[p].at = 0
        /\ req'[p].confirmed = req[p].confirmed
    BY <2>0, <1>t DEF Request
  <2> QED
    BY <2>1, <1>9, <1>c, <1>t DEF RequestInv, ReadingIsVersioned, OnlyWritersRemember, NamesPeople,
       ExpectsItsStart, KnowsItsSession, NoDateFromTheFuture, ConfirmsOnlyClosed, InFlight
<1>10. ASSUME NEW t \in Readings, SelectOthers(p, t), Confirm(p) PROVE RequestInv(p)'
  <2>1. Targets(p) = {}
    BY <1>10, <1>t DEF SelectOthers, RequestInv, OnlyWritersRemember, InFlight
  <2> QED
    BY <2>1, <1>10, <1>t, ConfirmedRequest
<1>11. CASE CloseSessions(p)
  BY <1>11, <1>t, ClosersConfirm DEF CloseSessions
<1>12. ASSUME NEW s \in Sessions, SelectOne(p, s) \/ SelectSession(p, s) PROVE RequestInv(p)'
  <2>1. CASE SelectOne(p, s)
    BY <2>1, <1>9 DEF SelectOne, InFlight
  <2>2. CASE SelectSession(p, s)
    BY <2>2, <1>9 DEF SelectSession, InFlight
  <2> QED
    BY <1>12, <2>1, <2>2
<1>13. ASSUME NEW t \in Readings, SelectOthers(p, t) PROVE RequestInv(p)'
  <2>1. CASE Confirm(p)
    BY <2>1, <1>10, <1>13
  <2>2. CASE ~Confirm(p)
    BY <2>2, <1>9, <1>13 DEF SelectOthers, InFlight
  <2> QED
    BY <2>1, <2>2
<1> QED
  BY <1>1, <1>2, <1>3, <1>4, <1>5, <1>6, <1>7, <1>8, <1>11, <1>12, <1>13 DEF SessionStep

\* What a request holds after the reads of a decision.
LEMMA SelectedIdentity ==
    ASSUME Inv, TypeOK', \A s \in Sessions : SessionChange(s), NEW p \in Workers,
           NEW i \in Identities, NEW S, NEW R, SelectIdentity(p, i, S, R),
           InFlight(p, "authorized", {"suspend", "reactivate", "disable"}),
           S = {} \/ InFlight(p, "authorized", {"suspend", "disable"}),
           InFlight(p, "authorized", {"suspend"}) => status[i] = "active",
           InFlight(p, "authorized", {"reactivate"}) => status[i] = "suspended",
           InFlight(p, "authorized", {"disable"}) => status[i] \in {"active", "suspended"}
    PROVE  RequestInv(p)'
<1>1. TypeOK /\ RequestInv(p) /\ req[p] \in Request
  BY DEF Inv, TypeOK
<1>2. req'[p] = [req[p] EXCEPT !.stage = "selected", !.target = i, !.expected = status[i],
                               !.seen = VersionsOf(S), !.seenGrants = GrantVersionsOf(i, R)]
  BY <1>1, Moved DEF SelectIdentity
<1>3. /\ req'[p].stage = "selected" /\ req'[p].kind = req[p].kind /\ req'[p].target = i
      /\ req'[p].expected = status[i] /\ req'[p].at = req[p].at
      /\ req'[p].seen = VersionsOf(S) /\ req'[p].confirmed = req[p].confirmed
  BY <1>1, <1>2 DEF Request
<1>4. UNCHANGED <<clock, sessions>>
  BY DEF SelectIdentity
<1>5. \A s \in req'[p].confirmed : Closed(sessions'[s])
  BY <1>1, <1>3, ConfirmedKept
<1>6. NoDateFromTheFuture(p)'
  BY <1>1, <1>3, <1>4 DEF RequestInv, NoDateFromTheFuture
<1>7. ReadingIsVersioned(p)' /\ NamesPeople(p)' /\ ExpectsItsStart(p)' /\ KnowsItsSession(p)'
  BY <1>3 DEF ReadingIsVersioned, KnowsItsSession, NamesPeople, ExpectsItsStart, InFlight
<1>8. OnlyWritersRemember(p)'
  <2>1. CASE S = {}
    BY <2>1, <1>3 DEF OnlyWritersRemember, Targets, VersionsOf
  <2>2. CASE InFlight(p, "authorized", {"suspend", "disable"})
    BY <2>2, <1>3 DEF OnlyWritersRemember, InFlight
  <2> QED
    BY <2>1, <2>2
<1> QED
  BY <1>5, <1>6, <1>7, <1>8 DEF RequestInv, ConfirmsOnlyClosed

LEMMA SelectedAssignment ==
    ASSUME Inv, TypeOK', \A s \in Sessions : SessionChange(s), NEW p \in Workers,
           NEW i \in Identities, NEW r \in Role, SelectAssignment(p, i, r),
           InFlight(p, "authorized", {"grant", "withdraw"})
    PROVE  RequestInv(p)'
<1>1. TypeOK /\ RequestInv(p) /\ req[p] \in Request
  BY DEF Inv, TypeOK
<1>2. req'[p] = [req[p] EXCEPT !.stage = "selected", !.target = i, !.role = r,
                               !.seenGrants = GrantVersionsOf(i, {r})]
  BY <1>1, Moved DEF SelectAssignment
<1>3. /\ req'[p].stage = "selected" /\ req'[p].kind = req[p].kind /\ req'[p].target = i
      /\ req'[p].role = r /\ req'[p].at = req[p].at
      /\ req'[p].seen = req[p].seen /\ req'[p].confirmed = req[p].confirmed
  BY <1>1, <1>2 DEF Request
<1>4. UNCHANGED <<clock, sessions>>
  BY DEF SelectAssignment
<1>5. \A s \in req'[p].confirmed : Closed(sessions'[s])
  BY <1>1, <1>3, ConfirmedKept
<1>6. Targets(p) = {}
  BY <1>1 DEF RequestInv, OnlyWritersRemember, InFlight
<1> QED
  BY <1>1, <1>3, <1>4, <1>5, <1>6
     DEF RequestInv, ReadingIsVersioned, OnlyWritersRemember, NamesPeople, ExpectsItsStart,
         KnowsItsSession, NoDateFromTheFuture, ConfirmsOnlyClosed, InFlight, Targets

\* The same as ActorSessionStep for the decisions of an operator.
LEMMA ActorLifecycleStep ==
    ASSUME Inv, TypeOK', \A s \in Sessions : SessionChange(s),
           NEW p \in Workers, LifecycleStep(p)
    PROVE  RequestInv(p)'
<1>t. TypeOK /\ req[p] \in Request /\ clock \in Nat /\ RequestInv(p)
  BY DEF Inv, TypeOK
<1>1. CASE Authorize(p)
  <2>1. req'[p] = [req[p] EXCEPT !.stage = "authorized", !.at = clock]
    BY <1>1, <1>t, Moved DEF Authorize
  <2>2. /\ req'[p].stage = "authorized" /\ req'[p].at = clock /\ req'[p].seen = req[p].seen
        /\ req'[p].confirmed = req[p].confirmed
    BY <2>1, <1>t DEF Request
  <2>3. Targets(p) = {}
    BY <1>1, <1>t DEF Authorize, RequestInv, OnlyWritersRemember, InFlight
  <2>4. clock' = clock
    BY <1>1 DEF Authorize
  <2> QED
    BY <2>2, <2>3, <2>4, <1>t, ConfirmedKept, QuietRequest DEF Targets
<1>2. ASSUME NEW i \in Identities, SelectSuspension(p, i) PROVE RequestInv(p)'
  BY <1>2, SelectedIdentity DEF SelectSuspension, InFlight
<1>3. ASSUME NEW i \in Identities, SelectReactivation(p, i) PROVE RequestInv(p)'
  BY <1>3, SelectedIdentity DEF SelectReactivation, InFlight
<1>4. ASSUME NEW i \in Identities, SelectDisablement(p, i) PROVE RequestInv(p)'
  BY <1>4, SelectedIdentity DEF SelectDisablement, InFlight
<1>5. CASE Suspend(p) \/ Disable(p)
  BY <1>5, <1>t, ClosersConfirm DEF Suspend, Disable, SessionSetUnchanged
<1>6. CASE Reactivate(p) \/ SaveAssignment(p)
  <2>1. Targets(p) = {}
    BY <1>6, <1>t DEF Reactivate, SaveAssignment, RequestInv, OnlyWritersRemember, InFlight
  <2> QED
    BY <2>1, <1>6, <1>t, ConfirmedRequest DEF Reactivate, SaveAssignment
<1>7. ASSUME NEW i \in Identities, NEW r \in AppRoles, SelectGrant(p, i, r) PROVE RequestInv(p)'
  BY <1>7, SelectedAssignment DEF SelectGrant, InFlight, Role
<1>8. ASSUME NEW i \in Identities, NEW r \in Role, SelectWithdrawal(p, i, r) PROVE RequestInv(p)'
  BY <1>8, SelectedAssignment DEF SelectWithdrawal, InFlight
<1> QED
  BY <1>1, <1>2, <1>3, <1>4, <1>5, <1>6, <1>7, <1>8 DEF LifecycleStep

LEMMA InitInv == Init => Inv
<1> SUFFICES ASSUME Init PROVE Inv
  OBVIOUS
<1>1. TypeOK
  BY InitTypes
<1>2. ActivityWindow
  <2>1. \A s \in Sessions : Exists(sessions[s]) =>
           s \in DOMAIN Enrolled /\ sessions[s] = NewSession(Enrolled[s], 0)
    BY DEF Init, Exists, NoSession
  <2>2. \A i \in Identities :
           LET r == NewSession(i, 0) IN
           /\ r.owner \in Identities /\ r.version >= 1
           /\ r.lastSeen < r.idle /\ r.idle <= r.absolute
           /\ r.idle = Earlier(r.lastSeen + IdleTtl, r.absolute)
    BY DEF NewSession, Earlier
  <2> QED
    BY <2>1, <2>2 DEF ActivityWindow
<1>3. ASSUME NEW p \in Workers PROVE RequestInv(p)
  <2>1. req[p] = IdleRequest /\ clock = 0
    BY DEF Init
  <2> QED
    BY <2>1 DEF IdleRequest, NoneSeen, RequestInv, ReadingIsVersioned, OnlyWritersRemember, NamesPeople,
       ExpectsItsStart, KnowsItsSession, NoDateFromTheFuture, ConfirmsOnlyClosed, InFlight, Targets
<1> QED
  BY <1>1, <1>2, <1>3 DEF Inv

\* Which requests move in a step: at most one.
LEMMA OthersWait ==
    ASSUME TypeOK, NEW p \in Workers, Fail(p) \/ SessionStep(p) \/ LifecycleStep(p)
    PROVE  clock' = clock /\ \A q \in Workers : q # p => req'[q] = req[q]
<1>1. clock' = clock /\ \E x : Become(p, x)
  BY DEF Fail, SessionStep, LifecycleStep, Login, Insert, Gate, Touch, TouchFails, Recheck, Expire,
     Decide, Logout, SelectOne, SelectOthers, SelectSession, Select, CloseSessions, Authorize,
     SelectSuspension, SelectReactivation, SelectDisablement, SelectIdentity, Suspend, Reactivate,
     Disable, SelectGrant, SelectWithdrawal, SelectAssignment, SaveAssignment,
     Admit, Refuse, Allow, Confirm
<1> QED
  BY <1>1, Moved

LEMMA NextInv == Inv /\ [Next]_vars => Inv'
<1> SUFFICES ASSUME Inv, [Next]_vars PROVE Inv'
  OBVIOUS
<1>1. TypeOK /\ TypeOK' /\ ActivityWindow /\ \A p \in Workers : RequestInv(p)
  BY NextTypes DEF Inv
<1>2. \A s \in Sessions : SessionChange(s)
  BY <1>1, SessionChanges DEF RequestInv
<1>3. ActivityWindow'
  BY <1>1, <1>2, WindowKept
<1>4. ASSUME NEW p \in Workers PROVE RequestInv(p)'
  <2>1. CASE Tick \/ UNCHANGED vars
    <3>1. clock <= clock' /\ req' = req
      BY <1>1, <2>1 DEF Tick, vars, TypeOK
    <3> QED
      BY <3>1, <1>1, <1>2, BystanderKept
  <2>2. ASSUME NEW q \in Workers, Fail(q) \/ SessionStep(q) \/ LifecycleStep(q)
        PROVE  RequestInv(p)'
    <3>1. CASE q = p
      BY <3>1, <2>2, <1>1, <1>2, ActorSessionStep, ActorLifecycleStep
    <3>2. CASE q # p
      <4>1. clock' = clock /\ req'[p] = req[p] /\ clock \in Nat
        BY <3>2, <2>2, <1>1, OthersWait DEF TypeOK
      <4> QED
        BY <4>1, <1>1, <1>2, BystanderKept
    <3> QED
      BY <3>1, <3>2
  <2> QED
    BY <2>1, <2>2 DEF Next
<1> QED
  BY <1>1, <1>3, <1>4 DEF Inv

\* The inductive invariant of the registry and of the requests in flight.
THEOREM InvHolds == Spec => []Inv
<1> QED
  BY InitInv, NextInv, PTL DEF Spec

-----------------------------------------------------------------------------
(* What the registry promises *)

\* The window of every session is moved by its own touches only and never
\* past its absolute expiry (touchApplicationSession under a checked version).
THEOREM WindowHolds == Spec => []ActivityWindow
<1>1. Inv => ActivityWindow
  BY DEF Inv
<1> QED
  BY <1>1, InvHolds, PTL

\* What a request answered as closed is closed in the registry, now and for
\* as long as the answer is remembered.
THEOREM ConfirmationHolds == Spec => []ConfirmedClosure
<1>1. Inv => ConfirmedClosure
  BY DEF Inv, RequestInv, ConfirmsOnlyClosed, ConfirmedClosure
<1> QED
  BY <1>1, InvHolds, PTL

\* No request in flight writes a session another one has closed.
THEOREM ClosureIsFinal == Spec => ClosedForever
<1>1. ASSUME Inv, [Next]_vars
      PROVE  \A s \in Sessions : Closed(sessions[s]) => sessions'[s] = sessions[s]
  <2>1. \A s \in Sessions : SessionChange(s)
    BY <1>1, SessionChanges DEF Inv, RequestInv
  <2> QED
    BY <1>1, <2>1, ChangeFacts DEF Inv, Closed, Exists
<1>2. Inv /\ [Next]_vars => [\A s \in Sessions : Closed(sessions[s]) => sessions'[s] = sessions[s]]_vars
  BY <1>1
<1> QED
  BY <1>2, InvHolds, PTL DEF Spec, ClosedForever

Written(s) ==
    LET old == sessions[s]
        new == sessions'[s] IN
    Exists(old) /\ new # old =>
      /\ new.version = old.version + 1
      /\ new.owner = old.owner /\ new.absolute = old.absolute
      /\ \/ new.state = "open" /\ new.lastSeen > old.lastSeen /\ new.idle >= old.idle
         \/ Closed(new) /\ new.lastSeen = old.lastSeen /\ new.idle = old.idle

\* Concurrent writers of one session never overwrite each other.
THEOREM UpdatesAreKept == Spec => NoLostUpdate
<1>1. ASSUME Inv, [Next]_vars, NEW s \in Sessions PROVE Written(s)
  <2>1. SessionChange(s) /\ sessions[s] \in SessionRecord
    BY <1>1, SessionChanges DEF Inv, RequestInv, TypeOK
  <2>2. ASSUME NEW t \in Nat, Exists(sessions[s]), sessions[s].state = "open",
               sessions[s].lastSeen < t, t < sessions[s].idle, sessions'[s] = Touched(sessions[s], t)
        PROVE  Written(s)
    <3>1. sessions[s].idle = Earlier(sessions[s].lastSeen + IdleTtl, sessions[s].absolute)
      BY <1>1, <2>2 DEF Inv, ActivityWindow
    <3>2. /\ sessions'[s].owner = sessions[s].owner /\ sessions'[s].lastSeen = t
          /\ sessions'[s].idle = Earlier(t + IdleTtl, sessions[s].absolute)
          /\ sessions'[s].absolute = sessions[s].absolute /\ sessions'[s].state = "open"
          /\ sessions'[s].version = sessions[s].version + 1
      BY <2>1, <2>2 DEF Touched, SessionRecord
    <3>3. sessions[s].lastSeen \in Nat /\ sessions[s].absolute \in Nat
      BY <2>1 DEF SessionRecord
    <3> QED
      BY <2>2, <3>1, <3>2, <3>3 DEF Written, Earlier
  <2>3. ASSUME NEW how \in {"revoked", "expired"}, sessions'[s] = ClosedAs(sessions[s], how)
        PROVE  Written(s)
    BY <2>1, <2>3 DEF Written, ClosedAs, SessionRecord, Closed
  <2> QED
    BY <2>1, <2>2, <2>3 DEF SessionChange, Written, Exists
<1>2. Inv /\ [Next]_vars => [\A s \in Sessions : Written(s)]_vars
  BY <1>1
<1> QED
  BY <1>2, InvHolds, PTL DEF Spec, NoLostUpdate, Written

-----------------------------------------------------------------------------
(* The life cycle of identities *)

\* A status moves by one of three transactions only, and they alone write
\* sessions or assignments on behalf of a life cycle decision.
LEMMA WhoMovesAStatus ==
    ASSUME [Next]_vars
    PROVE  UNCHANGED status \/ \E p \in Workers : Suspend(p) \/ Reactivate(p) \/ Disable(p)
<1>1. ASSUME NEW p \in Workers, SessionStep(p) PROVE UNCHANGED status
  BY <1>1 DEF SessionStep, Login, Insert, Gate, Touch, TouchFails, Recheck, Expire, Decide, Logout,
     SelectOne, SelectOthers, SelectSession, Select, CloseSessions
<1>2. ASSUME NEW p \in Workers, LifecycleStep(p)
      PROVE  UNCHANGED status \/ Suspend(p) \/ Reactivate(p) \/ Disable(p)
  BY <1>2 DEF LifecycleStep, Authorize, SelectSuspension, SelectReactivation, SelectDisablement,
     SelectIdentity, SelectGrant, SelectWithdrawal, SelectAssignment, SaveAssignment
<1> QED
  BY <1>1, <1>2 DEF Next, Tick, Fail, vars

\* A session active at some time was active at every earlier one.
LEMMA ActiveBefore ==
    ASSUME NEW r \in SessionRecord, NEW t \in Nat, NEW u \in Nat, u <= t, ActiveAt(r, t)
    PROVE  ActiveAt(r, u)
BY DEF ActiveAt, SessionRecord

\* What the statements about departures say of one step.
LeavesNoSession(i) == \A s \in Sessions : sessions'[s].owner = i => ~ActiveAt(sessions'[s], clock)
Departs(i) == status'[i] # status[i] /\ status'[i] \in {"suspended", "disabled"}

\* A suspension and a disablement close every active session of the identity.
THEOREM ExitIsComplete == Spec => ExitClosesAllSessions
<1>1. ASSUME Inv, [Next]_vars, NEW i \in Identities, Departs(i)
      PROVE  LeavesNoSession(i)
  <2>t. TypeOK /\ clock \in Nat /\ \A p \in Workers : req[p] \in Request /\ RequestInv(p)
    BY <1>1 DEF Inv, TypeOK
  <2>1. PICK p \in Workers : Suspend(p) \/ Reactivate(p) \/ Disable(p)
    BY <1>1, WhoMovesAStatus DEF Departs
  <2>2. (Suspend(p) \/ Disable(p)) /\ i = req[p].target
    BY <1>1, <2>1, <2>t DEF Departs, Suspend, Reactivate, Disable, TypeOK
  <2>3. Unchanged(p) /\ sessions' = Closures(p) /\ ActiveSessionsOf(i, req[p].at) = Targets(p)
    BY <2>2 DEF Suspend, Disable, SessionSetUnchanged
  <2>4. req[p].at \in Nat /\ req[p].at <= clock
    BY <2>t DEF Request, RequestInv, NoDateFromTheFuture
  <2>5. ASSUME NEW s \in Sessions, sessions'[s].owner = i, ActiveAt(sessions'[s], clock) PROVE FALSE
    <3>1. s \notin Targets(p)
      <4>1. s \in Targets(p) => sessions'[s] = ClosedAs(sessions[s], "revoked")
        BY <2>t, <2>3, ClosuresChange
      <4>2. sessions[s] \in SessionRecord
        BY <2>t DEF TypeOK
      <4> QED
        BY <4>1, <4>2, <2>5 DEF ClosedAs, ActiveAt, SessionRecord
    <3>2. sessions'[s] = sessions[s] /\ sessions[s] \in SessionRecord
      BY <2>t, <2>3, <3>1, ClosuresChange DEF TypeOK
    <3>3. ActiveAt(sessions[s], req[p].at)
      BY <2>t, <2>4, <2>5, <3>2, ActiveBefore
    <3>4. s \in ActiveSessionsOf(i, req[p].at)
      BY <2>5, <3>2, <3>3 DEF ActiveSessionsOf, OwnedBy, ActiveAt, Exists
    <3> QED
      BY <2>3, <3>1, <3>4
  <2> QED
    BY <2>5 DEF LeavesNoSession
<1>2. Inv /\ [Next]_vars => [\A i \in Identities : Departs(i) => LeavesNoSession(i)]_vars
  BY <1>1
<1> QED
  BY <1>2, InvHolds, PTL DEF Spec, ExitClosesAllSessions, Departs, LeavesNoSession

\* A disablement leaves no active assignment.
THEOREM DisablementIsComplete == Spec => DisablementLeavesNoGrant
<1> DEFINE Left(i) == status'[i] = "disabled" /\ status[i] # "disabled"
           Bare(i) == \A r \in Role : grants'[i][r].held # "active"
<1>1. ASSUME Inv, [Next]_vars, NEW i \in Identities, Left(i) PROVE Bare(i)
  <2>t. TypeOK
    BY <1>1 DEF Inv
  <2>1. PICK p \in Workers : Suspend(p) \/ Reactivate(p) \/ Disable(p)
    BY <1>1, WhoMovesAStatus
  <2>2. Disable(p) /\ i = req[p].target
    BY <1>1, <2>1, <2>t DEF Suspend, Reactivate, Disable, TypeOK
  <2>3. /\ grants' = [grants EXCEPT ![i] = [r \in Role |->
                        IF r \in GrantTargets(p)
                          THEN [held |-> "revoked", version |-> req[p].seenGrants[r] + 1]
                          ELSE grants[i][r]]]
        /\ ActiveGrantsOf(i) = GrantTargets(p)
    BY <2>2 DEF Disable, GrantSetUnchanged
  <2>4. ASSUME NEW r \in Role PROVE grants'[i][r].held # "active"
    <3>1. grants'[i][r] = IF r \in GrantTargets(p)
                            THEN [held |-> "revoked", version |-> req[p].seenGrants[r] + 1]
                            ELSE grants[i][r]
      BY <2>3, <2>t DEF TypeOK
    <3>2. r \notin GrantTargets(p) => grants[i][r].held # "active"
      BY <2>3 DEF ActiveGrantsOf
    <3> QED
      BY <3>1, <3>2
  <2> QED
    BY <2>4
<1>2. Inv /\ [Next]_vars => [\A i \in Identities : Left(i) => Bare(i)]_vars
  BY <1>1
<1> QED
  BY <1>2, InvHolds, PTL DEF Spec, DisablementLeavesNoGrant

\* The life cycle goes along its four arrows only.
THEOREM LifecycleIsOrdered == Spec => LifecycleOrder
<1> DEFINE Arrow(i) ==
             status'[i] # status[i] =>
               <<status[i], status'[i]>> \in {<<"active", "suspended">>, <<"suspended", "active">>,
                                              <<"active", "disabled">>, <<"suspended", "disabled">>}
<1>1. ASSUME Inv, [Next]_vars, NEW i \in Identities PROVE Arrow(i)
  <2> SUFFICES ASSUME status'[i] # status[i] PROVE Arrow(i)
    OBVIOUS
  <2>t. TypeOK /\ \A p \in Workers : ExpectsItsStart(p)
    BY <1>1 DEF Inv, RequestInv
  <2>1. PICK p \in Workers : Suspend(p) \/ Reactivate(p) \/ Disable(p)
    BY WhoMovesAStatus, <1>1
  <2>2. i = req[p].target /\ StatusUnchanged(p)
    BY <2>1, <2>t DEF Suspend, Reactivate, Disable, TypeOK
  <2>3. CASE Suspend(p)
    BY <2>2, <2>3, <2>t DEF Suspend, StatusUnchanged, ExpectsItsStart, TypeOK
  <2>4. CASE Reactivate(p)
    BY <2>2, <2>4, <2>t DEF Reactivate, StatusUnchanged, ExpectsItsStart, TypeOK
  <2>5. CASE Disable(p)
    BY <2>2, <2>5, <2>t DEF Disable, StatusUnchanged, ExpectsItsStart, TypeOK
  <2> QED
    BY <2>1, <2>3, <2>4, <2>5
<1>2. Inv /\ [Next]_vars => [\A i \in Identities : Arrow(i)]_vars
  BY <1>1
<1> QED
  BY <1>2, InvHolds, PTL DEF Spec, LifecycleOrder

\* A reactivation finds no active session of the identity and opens none.
THEOREM ReactivationIsBare == Spec => ReactivationRestoresNothing
<1> DEFINE Returns(i) == status[i] = "suspended" /\ status'[i] = "active"
           Bare(i) == /\ \A s \in Sessions : sessions[s].owner = i => ~ActiveAt(sessions[s], clock)
                      /\ UNCHANGED <<sessions, grants>>
<1>1. ASSUME Inv, [Next]_vars, NEW i \in Identities, Returns(i) PROVE Bare(i)
  <2>t. TypeOK /\ clock \in Nat /\ \A p \in Workers : req[p] \in Request /\ RequestInv(p)
    BY <1>1 DEF Inv, TypeOK
  <2>1. PICK p \in Workers : Suspend(p) \/ Reactivate(p) \/ Disable(p)
    BY <1>1, WhoMovesAStatus
  <2>2. Reactivate(p) /\ i = req[p].target
    BY <1>1, <2>1, <2>t DEF Suspend, Reactivate, Disable, TypeOK
  <2>3. ActiveSessionsOf(i, req[p].at) = {}
    BY <2>2 DEF Reactivate, NoneActive
  <2>4. req[p].at \in Nat /\ req[p].at <= clock
    BY <2>t DEF Request, RequestInv, NoDateFromTheFuture
  <2>5. ASSUME NEW s \in Sessions, sessions[s].owner = i, ActiveAt(sessions[s], clock) PROVE FALSE
    <3>1. sessions[s] \in SessionRecord
      BY <2>t DEF TypeOK
    <3>2. ActiveAt(sessions[s], req[p].at)
      BY <2>t, <2>4, <2>5, <3>1, ActiveBefore
    <3>3. s \in ActiveSessionsOf(i, req[p].at)
      BY <2>5, <3>2 DEF ActiveSessionsOf, OwnedBy, ActiveAt, Exists
    <3> QED
      BY <2>3, <3>3
  <2> QED
    BY <2>2, <2>5 DEF Reactivate
<1>2. Inv /\ [Next]_vars => [\A i \in Identities : Returns(i) => Bare(i)]_vars
  BY <1>1
<1> QED
  BY <1>2, InvHolds, PTL DEF Spec, ReactivationRestoresNothing

\* No step of a decision leaves its request at the gate.
LEMMA LifecycleMovesOn ==
    ASSUME TypeOK, NEW p \in Workers, LifecycleStep(p)
    PROVE  req'[p].stage \in {"authorized", "selected", "done"}
<1> DEFINE MovedOn == req'[p].stage \in {"authorized", "selected", "done"}
<1>t. req[p] \in Request
  BY DEF TypeOK
<1>1. CASE Authorize(p)
  <2>1. req'[p] = [req[p] EXCEPT !.stage = "authorized", !.at = clock]
    BY <1>1, Moved DEF Authorize
  <2> QED
    BY <2>1, <1>t DEF Request
<1>2. ASSUME NEW i, NEW S, NEW R, SelectIdentity(p, i, S, R) PROVE MovedOn
  <2>1. req'[p] = [req[p] EXCEPT !.stage = "selected", !.target = i, !.expected = status[i],
                                 !.seen = VersionsOf(S), !.seenGrants = GrantVersionsOf(i, R)]
    BY <1>2, Moved DEF SelectIdentity
  <2> QED
    BY <2>1, <1>t DEF Request
<1>3. ASSUME NEW i, NEW r, SelectAssignment(p, i, r) PROVE MovedOn
  <2>1. req'[p] = [req[p] EXCEPT !.stage = "selected", !.target = i, !.role = r,
                                 !.seenGrants = GrantVersionsOf(i, {r})]
    BY <1>3, Moved DEF SelectAssignment
  <2> QED
    BY <2>1, <1>t DEF Request
<1>4. CASE Suspend(p) \/ Reactivate(p) \/ Disable(p) \/ SaveAssignment(p)
  <2>1. req'[p] = [IdleRequest EXCEPT !.stage = "done", !.confirmed = Targets(p)]
    BY <1>4, Moved DEF Suspend, Reactivate, Disable, SaveAssignment, Confirm
  <2> QED
    BY <2>1 DEF IdleRequest
<1> QED
  BY <1>1, <1>2, <1>3, <1>4 DEF LifecycleStep, SelectSuspension, SelectReactivation,
     SelectDisablement, SelectGrant, SelectWithdrawal

\* The gate admits a request while its session is unrevoked.
THEOREM GateIsSound == Spec => PassImpliesOpen
<1> DEFINE Admitted(p) == req'[p].stage = "passed" /\ req[p].stage # "passed"
           Open(p) == sessions[req'[p].current].state = "open"
<1>1. ASSUME Inv, [Next]_vars, NEW p \in Workers, Admitted(p) PROVE Open(p)
  <2>t. TypeOK /\ req[p] \in Request /\ RequestInv(p)
    BY <1>1 DEF Inv, TypeOK
  <2>1. PICK q \in Workers : Fail(q) \/ SessionStep(q) \/ LifecycleStep(q)
    BY <1>1 DEF Next, Tick, vars
  <2>2. q = p
    BY <1>1, <2>1, <2>t, OthersWait
  <2>i. IdleRequest.stage = "idle" /\ [IdleRequest EXCEPT !.stage = "allowed"].stage = "allowed"
        /\ \A x : [IdleRequest EXCEPT !.stage = "done", !.confirmed = x].stage = "done"
    BY DEF IdleRequest
  <2>3. ASSUME NEW k \in Kinds, NEW i \in Identities, NEW s \in Sessions, NEW t \in Readings,
               Gate(p, k, i, s, t)
        PROVE  Open(p)
    <3> DEFINE stage == GateStage(sessions[s], i, t)
               at == IF stage \in {"touching", "expiring"} THEN t ELSE 0
               seen == IF stage \in {"touching", "expiring"} THEN VersionsOf({s}) ELSE NoneSeen
    <3>1. req'[p] = IF stage = "idle" THEN IdleRequest
                    ELSE [IdleRequest EXCEPT !.kind = k, !.stage = stage, !.actor = i,
                                             !.current = s, !.at = at, !.seen = seen]
      BY <2>3, <2>t, Moved DEF Gate
    <3>s. stage = "passed" => sessions[s].state = "open"
      <4>1. stage = "passed" => Assess(sessions[s], i, t) = "session_active"
        BY DEF GateStage
      <4>2. sessions[s].state \in SessionState
        BY <2>t DEF TypeOK, SessionRecord
      <4> QED
        BY <4>1, <4>2 DEF Assess, Closed, Exists, SessionState
    <3> HIDE DEF stage, at, seen
    <3>2. stage # "idle"
      BY <3>1, <1>1, <2>i
    <3>3. req'[p].stage = stage /\ req'[p].current = s
      BY <3>1, <3>2 DEF IdleRequest
    <3> QED
      BY <3>3, <3>s, <1>1
  <2>4. CASE Touch(p)
    <3>1. req'[p] = [req[p] EXCEPT !.stage = "passed", !.at = 0, !.seen = NoneSeen]
      BY <2>4, <2>t, Moved DEF Touch, Admit
    <3>2. req'[p].current = req[p].current
      BY <3>1, <2>t DEF Request
    <3>3. req[p].current \in Targets(p)
      BY <2>4, <2>t DEF Touch, RequestInv, ReadingIsVersioned, Targets, Request
    <3> QED
      BY <3>2, <3>3, <2>4 DEF Touch, Unchanged
  <2>5. CASE Recheck(p)
    <3>1. req'[p] = [req[p] EXCEPT !.stage = "passed", !.at = 0, !.seen = NoneSeen]
      BY <2>5, <2>t, Moved DEF Recheck, Admit
    <3>2. req'[p].current = req[p].current
      BY <3>1, <2>t DEF Request
    <3>3. req[p].current \in Sessions => sessions[req[p].current].state \in SessionState
      BY <2>t DEF TypeOK, SessionRecord
    <3>4. req[p].current \in Sessions
      BY <2>5, <2>t DEF Recheck, RequestInv, KnowsItsSession
    <3> QED
      BY <3>2, <3>3, <3>4, <2>5 DEF Recheck, Assess, Closed, Exists, SessionState
  <2>6. CASE Fail(p) \/ Expire(p) \/ TouchFails(p) \/ CloseSessions(p)
    <3>1. \/ req'[p] = IdleRequest
          \/ req'[p] = [req[p] EXCEPT !.stage = "retouching", !.seen = NoneSeen]
          \/ req'[p] = [IdleRequest EXCEPT !.stage = "done", !.confirmed = Targets(p)]
      BY <2>6, <2>t, Moved DEF Fail, Expire, TouchFails, CloseSessions, Refuse, Confirm
    <3> QED
      BY <3>1, <2>i, <2>t, <1>1 DEF Request
  <2>7. ASSUME NEW i \in Identities, Login(p, i) PROVE Open(p)
    <3>1. req'[p] = [IdleRequest EXCEPT !.kind = "login", !.stage = "selected",
                                        !.actor = i, !.at = clock]
      BY <2>7, <2>t, Moved DEF Login
    <3> QED
      BY <3>1, <1>1 DEF IdleRequest
  <2>8. ASSUME NEW s \in Sessions, NEW t \in Readings, Insert(p, s, t) PROVE Open(p)
    BY <2>8, <2>t, <2>i, <1>1, Moved DEF Insert, Confirm
  <2>9. ASSUME NEW r \in AppRoles, Decide(p, r) PROVE Open(p)
    BY <2>9, <2>t, <2>i, <1>1, Moved DEF Decide, Allow, Refuse
  <2>10. ASSUME NEW i \in Identities, NEW s \in Sessions, Logout(p, i, s) PROVE Open(p)
    <3>1. \/ req'[p] = [IdleRequest EXCEPT !.stage = "done", !.confirmed = {s}]
          \/ req'[p] = [IdleRequest EXCEPT !.kind = "logout", !.stage = "selected",
                                            !.seen = VersionsOf({s})]
      BY <2>10, <2>t, Moved DEF Logout
    <3> QED
      BY <3>1, <1>1 DEF IdleRequest
  <2>11. ASSUME NEW S, Select(p, S) PROVE Open(p)
    <3>1. req'[p] = [req[p] EXCEPT !.stage = "selected", !.at = 0, !.seen = VersionsOf(S)]
      BY <2>11, <2>t, Moved DEF Select
    <3> QED
      BY <3>1, <2>t, <1>1 DEF Request
  <2>12. ASSUME NEW t \in Readings, SelectOthers(p, t), Confirm(p) PROVE Open(p)
    BY <2>12, <2>t, <2>i, <1>1, Moved DEF Confirm
  <2>13. CASE SessionStep(p)
    BY <2>13, <2>3, <2>4, <2>5, <2>6, <2>7, <2>8, <2>9, <2>10, <2>11, <2>12
       DEF SessionStep, SelectOne, SelectOthers, SelectSession
  <2>14. CASE LifecycleStep(p)
    BY <2>14, <2>t, <1>1, LifecycleMovesOn DEF Request
  <2> QED
    BY <2>1, <2>2, <2>6, <2>13, <2>14
<1>2. Inv /\ [Next]_vars => [\A p \in Workers : Admitted(p) => Open(p)]_vars
  BY <1>1
<1> QED
  BY <1>2, InvHolds, PTL DEF Spec, PassImpliesOpen

\* A suspension or a disablement closes sessions of its target only, all of
\* them active when the operator decided.
THEOREM ExitIsMeasured == Spec => ExitClosesOnlyActive
<1> DEFINE Commits(p, s) == /\ req[p].kind \in {"suspend", "disable"} /\ req[p].stage = "selected"
                            /\ sessions'[s] # sessions[s] /\ req'[p].stage = "done"
           Justified(p, s) == sessions[s].owner = req[p].target /\ sessions[s].idle > req[p].at
<1>1. ASSUME Inv, [Next]_vars, NEW p \in Workers, NEW s \in Sessions, Commits(p, s)
      PROVE  Justified(p, s)
  <2>t. TypeOK
    BY <1>1 DEF Inv
  <2>1. PICK q \in Workers : Fail(q) \/ SessionStep(q) \/ LifecycleStep(q)
    BY <1>1 DEF Next, Tick, vars
  <2>2. q = p
    BY <1>1, <2>1, <2>t, OthersWait
  <2>3. Suspend(p) \/ Disable(p) \/ sessions' = sessions
    <3>1. ASSUME SessionStep(p) PROVE sessions' = sessions
      BY <3>1, <1>1 DEF SessionStep, Login, Insert, Gate, Touch, TouchFails, Recheck, Expire, Decide,
         Logout, SelectOne, SelectOthers, SelectSession, Select, CloseSessions, InFlight
    <3> QED
      BY <3>1, <2>1, <2>2 DEF Fail, LifecycleStep, Authorize, SelectSuspension, SelectReactivation,
         SelectDisablement, SelectIdentity, Reactivate, SelectGrant, SelectWithdrawal,
         SelectAssignment, SaveAssignment
  <2>4. /\ Unchanged(p) /\ sessions' = Closures(p)
        /\ ActiveSessionsOf(req[p].target, req[p].at) = Targets(p)
    BY <2>3, <1>1 DEF Suspend, Disable, SessionSetUnchanged
  <2>5. s \in Targets(p)
    BY <1>1, <2>4, <2>t, ClosuresChange
  <2> QED
    BY <2>4, <2>5 DEF ActiveSessionsOf, OwnedBy, ActiveAt
<1>2. Inv /\ [Next]_vars => [\A p \in Workers, s \in Sessions : Commits(p, s) => Justified(p, s)]_vars
  BY <1>1
<1> QED
  BY <1>2, InvHolds, PTL DEF Spec, ExitClosesOnlyActive

\* Every decision on an assignment is written under the version that follows
\* the one it replaces: none is lost.
THEOREM DecisionsAreKept == Spec => NoLostDecision
<1> DEFINE Follows(i, r) == grants'[i][r] # grants[i][r] =>
                              grants'[i][r].version = grants[i][r].version + 1
<1>1. ASSUME Inv, [Next]_vars, NEW i \in Identities, NEW r \in Role PROVE Follows(i, r)
  <2>t. TypeOK /\ \A p \in Workers : NamesPeople(p)
    BY <1>1 DEF Inv, RequestInv
  <2>1. ASSUME NEW p \in Workers, SaveAssignment(p) PROVE Follows(i, r)
    <3>1. req[p].target \in Identities /\ req[p].role \in Role
      BY <2>1, <2>t DEF SaveAssignment, NamesPeople, InFlight
    <3>2. PICK how : grants' = [grants EXCEPT ![req[p].target][req[p].role] =
                                  [held |-> how, version |-> req[p].seenGrants[req[p].role] + 1]]
      BY <2>1 DEF SaveAssignment
    <3>3. grants[req[p].target][req[p].role].version = req[p].seenGrants[req[p].role]
      BY <2>1 DEF SaveAssignment, GrantVersionFollows
    <3> QED
      BY <3>1, <3>2, <3>3, <2>t DEF TypeOK
  <2>2. ASSUME NEW p \in Workers, Disable(p) PROVE Follows(i, r)
    <3>1. req[p].target \in Identities
      BY <2>2, <2>t DEF Disable, NamesPeople, InFlight
    <3>2. grants' = [grants EXCEPT ![req[p].target] = [z \in Role |->
                        IF z \in GrantTargets(p)
                          THEN [held |-> "revoked", version |-> req[p].seenGrants[z] + 1]
                          ELSE grants[req[p].target][z]]]
      BY <2>2 DEF Disable
    <3>3. \A z \in GrantTargets(p) : grants[req[p].target][z].version = req[p].seenGrants[z]
      BY <2>2 DEF Disable, GrantSetUnchanged
    <3> QED
      BY <3>1, <3>2, <3>3, <2>t DEF TypeOK
  <2>3. ASSUME NEW p \in Workers, SessionStep(p) PROVE UNCHANGED grants
    BY <2>3 DEF SessionStep, Login, Insert, Gate, Touch, TouchFails, Recheck, Expire, Decide, Logout,
       SelectOne, SelectOthers, SelectSession, Select, CloseSessions
  <2>4. ASSUME NEW p \in Workers, LifecycleStep(p)
        PROVE  UNCHANGED grants \/ Disable(p) \/ SaveAssignment(p)
    BY <2>4 DEF LifecycleStep, Authorize, SelectSuspension, SelectReactivation, SelectDisablement,
       SelectIdentity, Suspend, Reactivate, SelectGrant, SelectWithdrawal, SelectAssignment
  <2>5. UNCHANGED grants \/ \E p \in Workers : Disable(p) \/ SaveAssignment(p)
    BY <1>1, <2>3, <2>4 DEF Next, Tick, Fail, vars
  <2> QED
    BY <2>1, <2>2, <2>5
<1>2. Inv /\ [Next]_vars => [\A i \in Identities, r \in Role : Follows(i, r)]_vars
  BY <1>1
<1> QED
  BY <1>2, InvHolds, PTL DEF Spec, NoLostDecision
-----------------------------------------------------------------------------
(* The registry keeps the promise of AccessLifecycle *)

\* What those who rely on the registry see of its sessions and assignments.
Seen == [s \in Sessions |-> SessionSeen(sessions[s])]
HeldRights == {e \in Identities \X Role : grants[e[1]][e[2]].held = "active"}

\* Where the versions a request remembers after its step come from: from one
\* read, of sessions of one owner, or from before.
LEMMA SeenAfter ==
    ASSUME TypeOK, NEW p \in Workers, Fail(p) \/ SessionStep(p) \/ LifecycleStep(p)
    PROVE  \/ req'[p].seen = NoneSeen
           \/ req'[p].seen = req[p].seen
           \/ \E i \in Owner : \E S \in SUBSET OwnedBy(i) :
                 UNCHANGED sessions /\ req'[p].seen = VersionsOf(S)
<1> DEFINE FromOneOwner == \E i \in Owner : \E S \in SUBSET OwnedBy(i) :
                 UNCHANGED sessions /\ req'[p].seen = VersionsOf(S)
           Goal == req'[p].seen = NoneSeen \/ req'[p].seen = req[p].seen \/ FromOneOwner
<1>t. req[p] \in Request /\ IdleRequest.seen = NoneSeen
  BY DEF TypeOK, IdleRequest
<1>1. ASSUME NEW x, Become(p, x) PROVE req'[p] = x
  BY <1>1, Moved
<1>2. ASSUME Refuse(p) \/ Allow(p) \/ Confirm(p) \/ Admit(p) PROVE req'[p].seen = NoneSeen
  BY <1>1, <1>2, <1>t DEF Refuse, Allow, Confirm, Admit, IdleRequest, Request
<1>3. ASSUME NEW i \in Owner, NEW S \in SUBSET OwnedBy(i), UNCHANGED sessions,
             req'[p].seen = VersionsOf(S)
      PROVE  Goal
  BY <1>3
<1>4. ASSUME NEW S, Select(p, S) PROVE req'[p].seen = VersionsOf(S) /\ UNCHANGED sessions
  BY <1>1, <1>4, <1>t DEF Select, Request
<1>5. ASSUME NEW i, NEW S, NEW R, SelectIdentity(p, i, S, R)
      PROVE  req'[p].seen = VersionsOf(S) /\ UNCHANGED sessions
  BY <1>1, <1>5, <1>t DEF SelectIdentity, Request
<1>6. ASSUME NEW i, NEW r, SelectAssignment(p, i, r) PROVE req'[p].seen = req[p].seen
  BY <1>1, <1>6, <1>t DEF SelectAssignment, Request
<1>7. \A i : \A t : ActiveSessionsOf(i, t) \subseteq OwnedBy(i)
  BY DEF ActiveSessionsOf
<1>8. ASSUME SessionStep(p) PROVE Goal
  <2>1. ASSUME NEW i \in Identities, Login(p, i) PROVE Goal
    BY <2>1, <1>1 DEF Login, IdleRequest
  <2>2. ASSUME NEW k \in Kinds, NEW i \in Identities, NEW z \in Sessions, NEW t \in Readings,
               Gate(p, k, i, z, t)
        PROVE  Goal
    <3>1. {z} \in SUBSET OwnedBy(i) /\ UNCHANGED sessions /\ i \in Owner
      BY <2>2 DEF Gate, Owner
    <3>2. req'[p].seen = NoneSeen \/ req'[p].seen = VersionsOf({z})
      BY <2>2, <1>1, <1>t DEF Gate, IdleRequest
    <3> QED
      BY <3>1, <3>2, <1>3
  <2>3. ASSUME TouchFails(p) PROVE Goal
    BY <2>3, <1>1, <1>t DEF TouchFails, Request
  <2>4. ASSUME \/ Touch(p) \/ Recheck(p) \/ Expire(p) \/ CloseSessions(p)
               \/ \E r \in AppRoles : Decide(p, r)
               \/ \E s \in Sessions, t \in Readings : Insert(p, s, t)
        PROVE  Goal
    <3>1. Refuse(p) \/ Allow(p) \/ Confirm(p) \/ Admit(p)
      BY <2>4 DEF Touch, Recheck, Expire, CloseSessions, Decide, Insert
    <3> QED
      BY <3>1, <1>2
  <2>5. ASSUME NEW i \in Identities, NEW z \in Sessions, Logout(p, i, z) PROVE Goal
    <3>1. {z} \in SUBSET OwnedBy(i) /\ UNCHANGED sessions /\ i \in Owner
      BY <2>5 DEF Logout, Owner
    <3>2. req'[p].seen = NoneSeen \/ req'[p].seen = VersionsOf({z})
      BY <2>5, <1>1, <1>t DEF Logout, IdleRequest
    <3> QED
      BY <3>1, <3>2, <1>3
  <2>6. ASSUME NEW z \in Sessions, SelectOne(p, z) \/ SelectSession(p, z) PROVE Goal
    <3>1. Select(p, {z}) /\ Exists(sessions[z])
      BY <2>6 DEF SelectOne, SelectSession, ActiveSessionsOf, OwnedBy
    <3>2. {z} \in SUBSET OwnedBy(sessions[z].owner) /\ sessions[z].owner \in Owner
      BY <3>1 DEF OwnedBy, TypeOK, SessionRecord
    <3> QED
      BY <3>1, <3>2, <1>3, <1>4
  <2>7. ASSUME NEW t \in Readings, SelectOthers(p, t) PROVE Goal
    <3>1. \/ Confirm(p)
          \/ Select(p, ActiveSessionsOf(req[p].actor, t) \ {req[p].current})
      BY <2>7 DEF SelectOthers
    <3>2. ActiveSessionsOf(req[p].actor, t) \ {req[p].current} \in SUBSET OwnedBy(req[p].actor)
      BY <1>7
    <3>3. req[p].actor \in Owner
      BY <1>t DEF Request
    <3> QED
      BY <3>1, <3>2, <3>3, <1>2, <1>3, <1>4
  <2> QED
    BY <1>8, <2>1, <2>2, <2>3, <2>4, <2>5, <2>6, <2>7 DEF SessionStep
<1>9. ASSUME LifecycleStep(p) PROVE Goal
  <2>1. ASSUME Authorize(p) PROVE Goal
    BY <2>1, <1>1, <1>t DEF Authorize, Request
  <2>2. ASSUME NEW i \in Identities, SelectSuspension(p, i) \/ SelectReactivation(p, i) \/ SelectDisablement(p, i)
        PROVE  Goal
    <3>1. \E S, R : SelectIdentity(p, i, S, R) /\ S \in SUBSET OwnedBy(i)
      BY <2>2, <1>7 DEF SelectSuspension, SelectReactivation, SelectDisablement
    <3> QED
      BY <3>1, <1>3, <1>5 DEF Owner
  <2>3. ASSUME Suspend(p) \/ Reactivate(p) \/ Disable(p) \/ SaveAssignment(p) PROVE Goal
    BY <2>3, <1>2 DEF Suspend, Reactivate, Disable, SaveAssignment
  <2>4. ASSUME NEW i, NEW r, SelectGrant(p, i, r) \/ SelectWithdrawal(p, i, r) PROVE Goal
    BY <2>4, <1>6 DEF SelectGrant, SelectWithdrawal
  <2> QED
    BY <1>9, <2>1, <2>2, <2>3, <2>4 DEF LifecycleStep
<1>10. ASSUME Fail(p) PROVE Goal
  BY <1>10, <1>2 DEF Fail
<1> QED
  BY <1>8, <1>9, <1>10

\* A session comes into being by the INSERT of a login only.
LEMMA OnlyInsertsOpen ==
    ASSUME TypeOK, \A p \in Workers : ReadingIsVersioned(p), [Next]_vars,
           NEW s \in Sessions, ~Exists(sessions[s]), sessions'[s] # sessions[s]
    PROVE  \E p \in Workers : \E z \in Sessions, t \in Readings : Insert(p, z, t)
<1> SUFFICES ASSUME ~ \E p \in Workers : \E z \in Sessions, t \in Readings : Insert(p, z, t)
             PROVE  sessions'[s] = sessions[s]
  OBVIOUS
<1>1. ASSUME NEW p \in Workers, Touch(p) \/ Expire(p) PROVE sessions'[s] = sessions[s]
  <2>1. /\ req[p].current \in Sessions /\ Exists(sessions[req[p].current])
        /\ \E r : sessions' = [sessions EXCEPT ![req[p].current] = r]
    BY <1>1 DEF Touch, Expire, ReadingIsVersioned
  <2> QED
    BY <2>1 DEF TypeOK
<1>2. ASSUME NEW p \in Workers, CloseSessions(p) \/ Suspend(p) \/ Disable(p)
      PROVE  sessions'[s] = sessions[s]
  <2>1. Unchanged(p) /\ sessions' = Closures(p)
    BY <1>2 DEF CloseSessions, Suspend, Disable, SessionSetUnchanged
  <2> QED
    BY <2>1, ClosuresChange DEF Exists
<1>3. ASSUME NEW p \in Workers, SessionStep(p)
      PROVE  UNCHANGED sessions \/ Touch(p) \/ Expire(p) \/ CloseSessions(p)
  BY <1>3 DEF SessionStep, Login, Gate, TouchFails, Recheck, Decide, Logout,
     SelectOne, SelectOthers, SelectSession, Select
<1>4. ASSUME NEW p \in Workers, LifecycleStep(p)
      PROVE  UNCHANGED sessions \/ Suspend(p) \/ Disable(p)
  BY <1>4 DEF LifecycleStep, Authorize, SelectSuspension, SelectReactivation, SelectDisablement,
     SelectIdentity, Reactivate, SelectGrant, SelectWithdrawal, SelectAssignment, SaveAssignment
<1> QED
  BY <1>1, <1>2, <1>3, <1>4 DEF Next, Tick, Fail, vars

LEMMA InitRefinementInv == Init => RefinementInv
<1> SUFFICES ASSUME Init PROVE RefinementInv
  OBVIOUS
<1>1. Inv
  BY InitInv
<1>2. DatesAreInstants
  <2>1. ASSUME NEW s \in Sessions PROVE sessions[s].absolute <= MaxTime + AbsoluteTtl
    <3>1. sessions[s] = NoSession \/ \E i \in Identities : sessions[s] = NewSession(i, 0)
      BY DEF Init
    <3>2. NoSession.absolute = 0 /\ \A i : NewSession(i, 0).absolute = 0 + AbsoluteTtl
      BY DEF NoSession, NewSession
    <3> QED
      BY <3>1, <3>2
  <2> QED
    BY <2>1 DEF DatesAreInstants, Init
<1>3. ASSUME NEW p \in Workers PROVE Targets(p) = {}
  <2>1. req[p].seen = NoneSeen
    BY DEF Init, IdleRequest
  <2> QED
    BY <2>1 DEF Targets, NoneSeen
<1> QED
  BY <1>1, <1>2, <1>3 DEF RefinementInv, ConcernsOnePerson

\* Dates come from clock readings, and closings from one read of one person.
LEMMA NextRefinementInv == RefinementInv /\ [Next]_vars => RefinementInv'
<1> SUFFICES ASSUME RefinementInv, [Next]_vars PROVE RefinementInv'
  OBVIOUS
<1>1. /\ Inv /\ Inv' /\ DatesAreInstants /\ TypeOK /\ TypeOK'
      /\ \A p \in Workers : ConcernsOnePerson(p) /\ RequestInv(p)
  BY NextInv DEF RefinementInv, Inv
<1>2. \A s \in Sessions : SessionChange(s)
  BY <1>1, SessionChanges DEF RequestInv
<1>3. \A s \in Sessions : Exists(sessions[s]) =>
         Exists(sessions'[s]) /\ sessions'[s].owner = sessions[s].owner
  BY <1>1, <1>2, ChangeFacts
<1>4. clock' <= MaxTime
  <2>1. clock' = clock \/ (clock < MaxTime /\ clock' = clock + 1)
    <3>1. ASSUME NEW p \in Workers, Fail(p) \/ SessionStep(p) \/ LifecycleStep(p)
          PROVE  clock' = clock
      BY <3>1, <1>1, OthersWait
    <3> QED
      BY <3>1 DEF Next, Tick, vars
  <2> QED
    BY <2>1, <1>1 DEF DatesAreInstants, TypeOK
<1>5. ASSUME NEW s \in Sessions PROVE sessions'[s].absolute <= MaxTime + AbsoluteTtl
  <2>1. sessions[s] \in SessionRecord /\ sessions[s].absolute <= MaxTime + AbsoluteTtl
    BY <1>1 DEF TypeOK, DatesAreInstants
  <2>2. \/ sessions'[s].absolute = sessions[s].absolute
        \/ \E t \in Nat : t <= clock /\ sessions'[s].absolute = t + AbsoluteTtl
    <3>1. ASSUME NEW p \in Workers, NEW z \in Sessions, NEW t \in Readings, Insert(p, z, t)
          PROVE  \/ sessions'[s].absolute = sessions[s].absolute
                 \/ \E u \in Nat : u <= clock /\ sessions'[s].absolute = u + AbsoluteTtl
      <4>1. t \in Nat /\ t <= clock
        BY <1>1 DEF Readings, TypeOK
      <4>2. sessions'[s] = sessions[s] \/ sessions'[s] = NewSession(req[p].actor, t)
        BY <3>1, <1>1 DEF Insert, TypeOK
      <4> QED
        BY <4>1, <4>2 DEF NewSession
    <3>2. CASE Exists(sessions[s]) \/ sessions'[s] = sessions[s]
      <4>1. \A r \in SessionRecord : \A t, how :
               Touched(r, t).absolute = r.absolute /\ ClosedAs(r, how).absolute = r.absolute
        BY DEF Touched, ClosedAs, SessionRecord
      <4> QED
        BY <3>2, <4>1, <2>1, <1>2 DEF SessionChange, Exists
    <3>3. CASE ~Exists(sessions[s]) /\ sessions'[s] # sessions[s]
      <4>1. \E p \in Workers : \E z \in Sessions, t \in Readings : Insert(p, z, t)
        BY <3>3, <1>1, OnlyInsertsOpen DEF RequestInv
      <4> QED
        BY <4>1, <3>1
    <3> QED
      BY <3>2, <3>3
  <2>3. clock \in Nat /\ clock <= MaxTime
    BY <1>1 DEF TypeOK, DatesAreInstants
  <2> QED
    BY <2>1, <2>2, <2>3
<1>6. ASSUME NEW p \in Workers PROVE ConcernsOnePerson(p)'
  <2>1. CASE req'[p].seen = req[p].seen
    <3>1. Targets(p)' = Targets(p)
      BY <2>1 DEF Targets
    <3> QED
      BY <3>1, <1>1, <1>3 DEF ConcernsOnePerson, Targets
  <2>2. CASE req'[p].seen = NoneSeen
    <3>1. Targets(p)' = {}
      BY <2>2 DEF Targets, NoneSeen
    <3> QED
      BY <3>1 DEF ConcernsOnePerson
  <2>3. ASSUME NEW i \in Owner, NEW S \in SUBSET OwnedBy(i), UNCHANGED sessions,
               req'[p].seen = VersionsOf(S)
        PROVE  ConcernsOnePerson(p)'
    <3>1. Targets(p)' \subseteq S
      BY <2>3 DEF Targets, VersionsOf
    <3>2. \A s \in S : Exists(sessions'[s]) /\ sessions'[s].owner = i
      BY <2>3 DEF OwnedBy
    <3> QED
      BY <3>1, <3>2 DEF ConcernsOnePerson
  <2>4. ASSUME NEW q \in Workers, Fail(q) \/ SessionStep(q) \/ LifecycleStep(q)
        PROVE  req'[p] = req[p] \/ q = p
    BY <2>4, <1>1, OthersWait
  <2> QED
    BY <1>1, <2>1, <2>2, <2>3, <2>4, SeenAfter DEF Next, Tick, vars
<1> QED
  BY <1>1, <1>4, <1>5, <1>6 DEF RefinementInv, DatesAreInstants

\* The dates of the registry are instants of the promise, and no request ever
\* gathers the sessions of two people in one closing.
THEOREM ClosingsConcernOnePerson == Spec => []RefinementInv
<1> QED
  BY InitRefinementInv, NextRefinementInv, PTL DEF Spec

-----------------------------------------------------------------------------
(* One step of the registry is one step of the promise, or none *)

PromiseStep == Promise!AbstractNext \/ UNCHANGED Promise!absVars

\* What a request holds in memory is invisible to the promise.
LEMMA InvisibleStep ==
    ASSUME UNCHANGED <<clock, status, sessions, grants>>
    PROVE  PromiseStep
BY DEF PromiseStep, Promise!absVars

\* Whatever leaves the dates and the assignments alone, and closes S.
LEMMA ClosingSeen ==
    ASSUME TypeOK, NEW p \in Workers, Unchanged(p), sessions' = Closures(p)
    PROVE  Promise!CloseAll(Targets(p))
<1>1. ASSUME NEW s \in Sessions
      PROVE  SessionSeen(sessions'[s]) =
               IF s \in Targets(p) THEN [SessionSeen(sessions[s]) EXCEPT !.state = "closed"]
                                   ELSE SessionSeen(sessions[s])
  <2>1. sessions[s] \in SessionRecord
    BY DEF TypeOK
  <2>2. CASE s \in Targets(p)
    <3>1. sessions'[s] = ClosedAs(sessions[s], "revoked")
      BY <2>2, ClosuresChange
    <3>2. /\ sessions'[s].owner = sessions[s].owner /\ sessions'[s].idle = sessions[s].idle
          /\ sessions'[s].absolute = sessions[s].absolute /\ sessions'[s].state = "revoked"
      BY <3>1, <2>1 DEF ClosedAs, SessionRecord
    <3> QED
      BY <2>2, <3>2 DEF SessionSeen, Closed
  <2>3. CASE s \notin Targets(p)
    BY <2>3, ClosuresChange
  <2> QED
    BY <2>2, <2>3
<1> QED
  BY <1>1 DEF Promise!CloseAll

\* The open sessions of a person, and the live ones, as the promise sees them.
LEMMA OpenSeen ==
    ASSUME NEW i \in Identities
    PROVE  Promise!OpenOf(i) = {s \in Sessions : sessions[s].owner = i /\ sessions[s].state = "open"}
<1>1. ASSUME NEW s \in Sessions
      PROVE  /\ SessionSeen(sessions[s]).owner = sessions[s].owner
             /\ SessionSeen(sessions[s]).state = "open" <=> sessions[s].state = "open"
  BY DEF SessionSeen, Closed
<1> QED
  BY <1>1 DEF Promise!OpenOf

LEMMA LiveSeen ==
    ASSUME TypeOK, ActivityWindow, NEW i \in Identities, NEW t \in Nat, t <= clock
    PROVE  Promise!LiveOf(i) \subseteq ActiveSessionsOf(i, t)
<1> SUFFICES ASSUME NEW s \in Sessions, sessions[s].owner = i, sessions[s].state = "open",
                    sessions[s].idle > clock
             PROVE  s \in ActiveSessionsOf(i, t)
  <2>1. \A s \in Sessions : SessionSeen(sessions[s]).until = sessions[s].idle
    BY DEF SessionSeen
  <2> QED
    BY <2>1, OpenSeen DEF Promise!LiveOf
<1>1. sessions[s] \in SessionRecord /\ clock \in Nat /\ sessions[s].idle <= sessions[s].absolute
  BY DEF TypeOK, ActivityWindow, Exists
<1> QED
  BY <1>1 DEF ActiveSessionsOf, OwnedBy, Exists, ActiveAt, SessionRecord

LEMMA TickSeen ==
    ASSUME TypeOK, Tick
    PROVE  PromiseStep
<1>1. Promise!Pass
  BY DEF Tick, Promise!Pass
<1>2. Promise!Visible
  BY DEF Tick, TypeOK, Promise!Visible, Promise!absVars
<1> QED
  BY <1>1, <1>2 DEF PromiseStep, Promise!AbstractNext

LEMMA InsertSeen ==
    ASSUME RefinementInv, NEW p \in Workers, NEW s \in Sessions, NEW t \in Readings, Insert(p, s, t)
    PROVE  PromiseStep
<1> DEFINE i == req[p].actor
<1>1. TypeOK /\ i \in Identities /\ t \in Nat /\ t <= clock /\ clock <= MaxTime /\ clock \in Nat
  BY DEF RefinementInv, Inv, RequestInv, NamesPeople, Insert, InFlight, TypeOK, Readings, DatesAreInstants
<1>2. /\ sessions[s].state = "absent" /\ sessions' = [sessions EXCEPT ![s] = NewSession(i, t)]
      /\ UNCHANGED <<clock, status, grants>>
  BY DEF Insert
<1>3. /\ t + IdleTtl \in 0..(MaxTime + AbsoluteTtl) /\ t + AbsoluteTtl \in 0..(MaxTime + AbsoluteTtl)
      /\ t + IdleTtl <= t + AbsoluteTtl
  BY <1>1
<1>4. SessionSeen(NewSession(i, t)) =
        [owner |-> i, state |-> "open", until |-> t + IdleTtl, limit |-> t + AbsoluteTtl]
  BY DEF SessionSeen, NewSession, Closed
<1>5. Seen' = [Seen EXCEPT ![s] = SessionSeen(NewSession(i, t))]
  BY <1>1, <1>2 DEF Seen, TypeOK
<1>6. Seen[s].state = "absent"
  BY <1>2 DEF Seen, SessionSeen, Closed
<1>7. Promise!Open(s, i)
  <2>1. \E u, l \in 0..(MaxTime + AbsoluteTtl) :
           /\ u <= l
           /\ Seen' = [Seen EXCEPT ![s] = [owner |-> i, state |-> "open", until |-> u, limit |-> l]]
    BY <1>3, <1>4, <1>5
  <2> HIDE DEF i
  <2> QED
    BY <2>1, <1>2, <1>6 DEF Promise!Open, Seen
<1> QED
  BY <1>1, <1>7 DEF PromiseStep, Promise!AbstractNext, Promise!Visible

\* A touch renews, or moves the activity without moving the deadline.
LEMMA TouchSeen ==
    ASSUME RefinementInv, NEW p \in Workers, Touch(p)
    PROVE  PromiseStep
<1> DEFINE s == req[p].current
           t == req[p].at
<1>1. /\ TypeOK /\ ReadingIsVersioned(p) /\ ActivityWindow /\ t \in Nat
      /\ \A z \in Sessions : sessions[z].absolute <= MaxTime + AbsoluteTtl
  BY DEF RefinementInv, Inv, RequestInv, TypeOK, Request, DatesAreInstants
<1>2. s \in Sessions /\ sessions[s] \in SessionRecord /\ req[p].seen[s] >= 1
      /\ req[p].seen[s] \in Nat
  BY <1>1 DEF ReadingIsVersioned, Touch, TypeOK, Request
<1>3. sessions[s].state = "open" /\ sessions[s].version = req[p].seen[s] /\ sessions[s].lastSeen < t
  BY <1>2 DEF Touch, Unchanged, Targets
<1>4. /\ sessions' = [sessions EXCEPT ![s] =
                       [Touched(sessions[s], t) EXCEPT !.version = req[p].seen[s] + 1]]
      /\ UNCHANGED <<clock, status, grants>>
  BY DEF Touch
<1> DEFINE u == Earlier(t + IdleTtl, sessions[s].absolute)
<1>5. /\ sessions[s].idle <= u /\ u <= sessions[s].absolute /\ u \in 0..(MaxTime + AbsoluteTtl)
  <2>1. /\ sessions[s].idle = Earlier(sessions[s].lastSeen + IdleTtl, sessions[s].absolute)
        /\ sessions[s].absolute \in Nat /\ sessions[s].lastSeen \in Nat
        /\ sessions[s].absolute <= MaxTime + AbsoluteTtl
    BY <1>1, <1>2, <1>3 DEF ActivityWindow, Exists, SessionRecord
  <2> QED
    BY <2>1, <1>1, <1>3 DEF Earlier
<1>6. SessionSeen(sessions'[s]) = [SessionSeen(sessions[s]) EXCEPT !.until = u]
  <2>1. /\ sessions'[s].owner = sessions[s].owner /\ sessions'[s].state = "open"
        /\ sessions'[s].idle = u /\ sessions'[s].absolute = sessions[s].absolute
    BY <1>1, <1>2, <1>3, <1>4 DEF Touched, SessionRecord, TypeOK
  <2> QED
    BY <2>1, <1>3 DEF SessionSeen, Closed
<1>7. /\ Seen[s].state = "open" /\ Seen[s].until = sessions[s].idle
      /\ Seen[s].limit = sessions[s].absolute
  BY <1>2, <1>3 DEF Seen, SessionSeen, Closed
<1>8. Seen' = [Seen EXCEPT ![s].until = u]
  <2>1. \A z \in Sessions : z # s => sessions'[z] = sessions[z]
    BY <1>1, <1>2, <1>4 DEF TypeOK
  <2> QED
    BY <2>1, <1>2, <1>6 DEF Seen
<1>9. CASE sessions[s].idle = u
  <2>1. Seen' = Seen
    <3>1. [SessionSeen(sessions[s]) EXCEPT !.until = u] = SessionSeen(sessions[s])
      BY <1>9 DEF SessionSeen
    <3>2. \A z \in Sessions : z # s => sessions'[z] = sessions[z]
      BY <1>1, <1>2, <1>4 DEF TypeOK
    <3> QED
      BY <3>1, <3>2, <1>2, <1>6 DEF Seen
  <2> QED
    BY <2>1, <1>4 DEF PromiseStep, Promise!absVars, Seen
<1>10. CASE sessions[s].idle < u
  <2>1. Promise!Renew(s)
    <3>1. Seen[s].until < u /\ u <= Seen[s].limit
      BY <1>5, <1>7, <1>10
    <3> HIDE DEF u
    <3> QED
      BY <3>1, <1>4, <1>5, <1>7, <1>8 DEF Promise!Renew, Seen
  <2> QED
    BY <2>1, <1>2 DEF PromiseStep, Promise!AbstractNext, Promise!Visible
<1> QED
  <2>1. sessions[s].idle \in Nat /\ u \in Nat
    BY <1>2, <1>5 DEF SessionRecord
  <2> QED
    BY <2>1, <1>5, <1>9, <1>10

\* The closing of an expired session.
LEMMA ExpireSeen ==
    ASSUME RefinementInv, NEW p \in Workers, Expire(p)
    PROVE  PromiseStep
<1> DEFINE s == req[p].current
<1>1. TypeOK /\ ReadingIsVersioned(p) /\ ActivityWindow
  BY DEF RefinementInv, Inv, RequestInv
<1>2. /\ s \in Sessions /\ sessions[s] \in SessionRecord /\ Exists(sessions[s])
      /\ req[p].seen[s] >= 1 /\ req[p].seen[s] \in Nat
  BY <1>1 DEF ReadingIsVersioned, Expire, TypeOK, Request
<1>3. sessions[s].state = "open" /\ sessions[s].owner \in Identities
  BY <1>1, <1>2 DEF Expire, Unchanged, Targets, ActivityWindow
<1>4. /\ sessions' = [sessions EXCEPT ![s] =
                       [ClosedAs(sessions[s], "expired") EXCEPT !.version = req[p].seen[s] + 1]]
      /\ UNCHANGED <<clock, status, grants>>
  BY DEF Expire
<1>5. /\ sessions'[s].owner = sessions[s].owner /\ sessions'[s].state = "expired"
      /\ sessions'[s].idle = sessions[s].idle /\ sessions'[s].absolute = sessions[s].absolute
  BY <1>1, <1>2, <1>4 DEF ClosedAs, SessionRecord, TypeOK
<1>6. \A z \in Sessions : z # s => sessions'[z] = sessions[z]
  BY <1>1, <1>2, <1>4 DEF TypeOK
<1>7. SessionSeen(sessions'[s]) = [SessionSeen(sessions[s]) EXCEPT !.state = "closed"]
  BY <1>5 DEF SessionSeen, Closed
<1>8. Promise!CloseAll({s})
  BY <1>2, <1>6, <1>7 DEF Promise!CloseAll
<1>9. {s} \in SUBSET Promise!OpenOf(sessions[s].owner) /\ Promise!Close({s})
  BY <1>2, <1>3, <1>4, <1>8, OpenSeen DEF Promise!Close
<1> QED
  BY <1>3, <1>9 DEF PromiseStep, Promise!AbstractNext, Promise!Visible

\* Sessions closed together: all of one person.
LEMMA CloseSeen ==
    ASSUME RefinementInv, NEW p \in Workers, CloseSessions(p)
    PROVE  PromiseStep
<1>1. TypeOK /\ ActivityWindow /\ ConcernsOnePerson(p)
  BY DEF RefinementInv, Inv
<1>2. Unchanged(p) /\ sessions' = Closures(p) /\ UNCHANGED <<clock, status, grants>>
  BY DEF CloseSessions
<1>3. Promise!CloseAll(Targets(p))
  BY <1>1, <1>2, ClosingSeen
<1>4. CASE Targets(p) = {}
  <2>1. sessions' = sessions
    BY <1>1, <1>2, <1>4 DEF Closures, TypeOK
  <2> QED
    BY <2>1, <1>2, InvisibleStep
<1>5. CASE Targets(p) # {}
  <2>1. PICK z \in Targets(p) : TRUE
    BY <1>5
  <2> DEFINE i == sessions[z].owner
  <2>2. \A s \in Targets(p) : /\ s \in Sessions /\ sessions[s].state = "open"
                              /\ sessions[s].owner = i
    BY <1>1, <1>2, <2>1 DEF ConcernsOnePerson, Unchanged, Targets
  <2>3. i \in Identities
    BY <1>1, <2>1, <2>2 DEF ActivityWindow, Exists
  <2> HIDE DEF i
  <2>4. Targets(p) \in SUBSET Promise!OpenOf(i)
    BY <2>2, <2>3, OpenSeen
  <2>5. Promise!Close(Targets(p))
    BY <1>2, <1>3, <1>5 DEF Promise!Close
  <2> QED
    BY <2>3, <2>4, <2>5 DEF PromiseStep, Promise!AbstractNext, Promise!Visible
<1> QED
  BY <1>4, <1>5

\* What a suspension and a disablement share: the target's live sessions, and
\* none but its own open sessions, are closed.
LEMMA DepartureSeen ==
    ASSUME RefinementInv, NEW p \in Workers, Suspend(p) \/ Disable(p)
    PROVE  /\ req[p].target \in Identities
           /\ Targets(p) \in SUBSET Promise!OpenOf(req[p].target)
           /\ Promise!LiveOf(req[p].target) \subseteq Targets(p)
           /\ Promise!CloseAll(Targets(p))
<1> DEFINE i == req[p].target
           t == req[p].at
<1>1. /\ TypeOK /\ ActivityWindow /\ NamesPeople(p)
      /\ t \in Nat /\ t <= clock
  BY DEF RefinementInv, Inv, RequestInv, NoDateFromTheFuture, TypeOK, Request
<1>2. i \in Identities
  BY <1>1 DEF Suspend, Disable, NamesPeople, InFlight
<1>3. /\ Unchanged(p) /\ sessions' = Closures(p) /\ ActiveSessionsOf(i, t) = Targets(p)
  BY DEF Suspend, Disable, SessionSetUnchanged
<1>4. \A s \in Targets(p) : s \in Sessions /\ sessions[s].owner = i /\ sessions[s].state = "open"
  BY <1>3 DEF ActiveSessionsOf, OwnedBy, ActiveAt
<1> HIDE DEF i, t
<1>5. Targets(p) \in SUBSET Promise!OpenOf(i)
  BY <1>2, <1>4, OpenSeen
<1>6. Promise!LiveOf(i) \subseteq Targets(p)
  BY <1>1, <1>2, <1>3, LiveSeen
<1>7. Promise!CloseAll(Targets(p))
  BY <1>1, <1>3, ClosingSeen
<1> QED
  BY <1>2, <1>5, <1>6, <1>7 DEF i

LEMMA SuspendSeen ==
    ASSUME RefinementInv, NEW p \in Workers, Suspend(p)
    PROVE  PromiseStep
<1>0. PICK i \in Identities : i = req[p].target
  BY DepartureSeen
<1>1. PICK S \in SUBSET Promise!OpenOf(i) :
         Promise!LiveOf(i) \subseteq S /\ Promise!CloseAll(S)
  BY <1>0, DepartureSeen DEF Promise!CloseAll
<1>2. ExpectsItsStart(p)
  BY DEF RefinementInv, Inv, RequestInv
<1>3. /\ status[i] = "active" /\ status' = [status EXCEPT ![i] = "suspended"]
      /\ UNCHANGED <<clock, grants>>
  BY <1>0, <1>2 DEF Suspend, StatusUnchanged, ExpectsItsStart
<1>4. Promise!Suspend(i, S)
  BY <1>1, <1>3 DEF Promise!Suspend
<1> QED
  BY <1>1, <1>4 DEF PromiseStep, Promise!AbstractNext, Promise!Visible

LEMMA DisableSeen ==
    ASSUME RefinementInv, NEW p \in Workers, Disable(p)
    PROVE  PromiseStep
<1>0. PICK i \in Identities : i = req[p].target
  BY DepartureSeen
<1>1. PICK S \in SUBSET Promise!OpenOf(i) :
         Promise!LiveOf(i) \subseteq S /\ Promise!CloseAll(S)
  BY <1>0, DepartureSeen DEF Promise!CloseAll
<1>2. ExpectsItsStart(p) /\ TypeOK
  BY DEF RefinementInv, Inv, RequestInv
<1>3. /\ status[i] # "disabled" /\ status' = [status EXCEPT ![i] = "disabled"]
      /\ clock' = clock
  BY <1>0, <1>2 DEF Disable, StatusUnchanged, ExpectsItsStart
<1>4. /\ grants' = [grants EXCEPT ![i] = [r \in Role |->
                        IF r \in GrantTargets(p)
                          THEN [held |-> "revoked", version |-> req[p].seenGrants[r] + 1]
                          ELSE grants[i][r]]]
      /\ ActiveGrantsOf(i) = GrantTargets(p)
  BY <1>0 DEF Disable, GrantSetUnchanged
<1>5. /\ \A r \in Role : grants'[i][r].held # "active"
      /\ \A j \in Identities : j # i => grants'[j] = grants[j]
  BY <1>2, <1>4 DEF TypeOK, ActiveGrantsOf
<1>6. HeldRights' = {e \in HeldRights : e[1] # i}
  BY <1>5 DEF HeldRights
<1>7. Promise!Disable(i, S)
  BY <1>1, <1>3, <1>6 DEF Promise!Disable, HeldRights
<1> QED
  BY <1>7 DEF PromiseStep, Promise!AbstractNext, Promise!Visible

LEMMA ReactivateSeen ==
    ASSUME RefinementInv, NEW p \in Workers, Reactivate(p)
    PROVE  PromiseStep
<1> DEFINE i == req[p].target
           t == req[p].at
<1>1. /\ TypeOK /\ ActivityWindow /\ NamesPeople(p) /\ ExpectsItsStart(p)
      /\ t \in Nat /\ t <= clock
  BY DEF RefinementInv, Inv, RequestInv, NoDateFromTheFuture, TypeOK, Request
<1>2. i \in Identities
  BY <1>1 DEF Reactivate, NamesPeople, InFlight
<1>3. /\ status[i] = "suspended" /\ status' = [status EXCEPT ![i] = "active"]
      /\ ActiveSessionsOf(i, t) = {} /\ UNCHANGED <<clock, sessions, grants>>
  BY <1>1 DEF Reactivate, StatusUnchanged, ExpectsItsStart, NoneActive
<1> HIDE DEF i, t
<1>4. Promise!LiveOf(i) = {}
  BY <1>1, <1>2, <1>3, LiveSeen
<1>5. Promise!Reactivate(i)
  BY <1>3, <1>4 DEF Promise!Reactivate
<1> QED
  BY <1>2, <1>5 DEF PromiseStep, Promise!AbstractNext, Promise!Visible

\* A decision entitles, withdraws, or writes again what is already so.
LEMMA AssignmentSeen ==
    ASSUME RefinementInv, NEW p \in Workers, SaveAssignment(p)
    PROVE  PromiseStep
<1>1. PICK i \in Identities, r \in Role : i = req[p].target /\ r = req[p].role /\ TypeOK
  BY DEF RefinementInv, Inv, RequestInv, NamesPeople, SaveAssignment, InFlight
<1>2. PICK how \in {"active", "revoked"} :
         /\ grants' = [grants EXCEPT ![i][r] = [held |-> how, version |-> req[p].seenGrants[r] + 1]]
         /\ UNCHANGED <<clock, status, sessions>>
  BY <1>1 DEF SaveAssignment
<1>3. /\ grants'[i][r].held = how
      /\ \A j \in Identities, z \in Role : <<j, z>> # <<i, r>> => grants'[j][z] = grants[j][z]
  BY <1>1, <1>2 DEF TypeOK
<1>4. \A j \in Identities, z \in Role : <<j, z>> \in HeldRights <=> grants[j][z].held = "active"
  BY DEF HeldRights
<1>5. \A j \in Identities, z \in Role : <<j, z>> \in HeldRights' <=> grants'[j][z].held = "active"
  BY DEF HeldRights
<1>6. HeldRights \subseteq Identities \X Role /\ HeldRights' \subseteq Identities \X Role
  BY DEF HeldRights
<1>7. CASE how = "active"
  <2>1. HeldRights' = HeldRights \cup {<<i, r>>}
    <3>1. ASSUME NEW j \in Identities, NEW z \in Role
          PROVE  <<j, z>> \in HeldRights' <=> <<j, z>> \in HeldRights \cup {<<i, r>>}
      BY <1>1, <1>3, <1>4, <1>5, <1>7
    <3> QED
      BY <3>1, <1>1, <1>6
  <2>2. CASE <<i, r>> \in HeldRights
    BY <2>1, <2>2, <1>2 DEF PromiseStep, Promise!absVars, HeldRights
  <2>3. CASE <<i, r>> \notin HeldRights
    <3>1. Promise!Entitle(i, r)
      <4>1. Promise!Entitle(i, r) <=>
               /\ <<i, r>> \notin HeldRights /\ HeldRights' = HeldRights \cup {<<i, r>>}
               /\ UNCHANGED <<clock, status, Seen>>
        BY DEF Promise!Entitle, HeldRights, Seen
      <4> QED
        BY <4>1, <2>1, <2>3, <1>2 DEF Seen
    <3> QED
      BY <3>1, <1>1 DEF PromiseStep, Promise!AbstractNext, Promise!Visible
  <2> QED
    BY <2>2, <2>3
<1>8. CASE how = "revoked"
  <2>1. HeldRights' = HeldRights \ {<<i, r>>}
    <3>1. ASSUME NEW j \in Identities, NEW z \in Role
          PROVE  <<j, z>> \in HeldRights' <=> <<j, z>> \in HeldRights \ {<<i, r>>}
      BY <1>1, <1>3, <1>4, <1>5, <1>8
    <3> QED
      BY <3>1, <1>1, <1>6
  <2>2. CASE <<i, r>> \notin HeldRights
    BY <2>1, <2>2, <1>2 DEF PromiseStep, Promise!absVars, HeldRights
  <2>3. CASE <<i, r>> \in HeldRights
    <3>1. Promise!Withdraw(i, r)
      <4>1. Promise!Withdraw(i, r) <=>
               /\ <<i, r>> \in HeldRights /\ HeldRights' = HeldRights \ {<<i, r>>}
               /\ UNCHANGED <<clock, status, Seen>>
        BY DEF Promise!Withdraw, HeldRights, Seen
      <4> QED
        BY <4>1, <2>1, <2>3, <1>2 DEF Seen
    <3> QED
      BY <3>1, <1>1 DEF PromiseStep, Promise!AbstractNext, Promise!Visible
  <2> QED
    BY <2>2, <2>3
<1> QED
  BY <1>2, <1>7, <1>8

LEMMA EveryStepIsPromised ==
    ASSUME RefinementInv, [Next]_vars
    PROVE  PromiseStep
<1>1. TypeOK
  BY DEF RefinementInv, Inv
<1>2. ASSUME NEW p \in Workers, SessionStep(p) PROVE PromiseStep
  <2>1. \/ \E s \in Sessions, t \in Readings : Insert(p, s, t)
        \/ Touch(p) \/ Expire(p) \/ CloseSessions(p)
        \/ UNCHANGED <<clock, status, sessions, grants>>
    BY <1>2 DEF SessionStep, Login, Gate, TouchFails, Recheck, Decide, Logout, SelectOne,
       SelectOthers, SelectSession, Select
  <2> QED
    BY <2>1, InsertSeen, TouchSeen, ExpireSeen, CloseSeen, InvisibleStep
<1>3. ASSUME NEW p \in Workers, LifecycleStep(p) PROVE PromiseStep
  <2>1. \/ Suspend(p) \/ Reactivate(p) \/ Disable(p) \/ SaveAssignment(p)
        \/ UNCHANGED <<clock, status, sessions, grants>>
    BY <1>3 DEF LifecycleStep, Authorize, SelectSuspension, SelectReactivation, SelectDisablement,
       SelectIdentity, SelectGrant, SelectWithdrawal, SelectAssignment
  <2> QED
    BY <2>1, SuspendSeen, ReactivateSeen, DisableSeen, AssignmentSeen, InvisibleStep
<1>4. ASSUME NEW p \in Workers, Fail(p) PROVE PromiseStep
  BY <1>4, InvisibleStep DEF Fail
<1>5. CASE UNCHANGED vars
  BY <1>5, InvisibleStep DEF vars
<1> QED
  BY <1>1, <1>2, <1>3, <1>4, <1>5, TickSeen DEF Next

LEMMA InitIsPromised == Init => Promise!AbstractInit
<1> SUFFICES ASSUME Init PROVE Promise!AbstractInit
  OBVIOUS
<1>1. ASSUME NEW s \in Sessions
      PROVE  /\ SessionSeen(sessions[s]) \in Promise!AbstractSession
             /\ SessionSeen(sessions[s]).state # "closed"
  <2>1. CASE sessions[s] = NoSession
    <3>1. SessionSeen(NoSession) = [owner |-> Nobody, until |-> 0, limit |-> 0, state |-> "absent"]
      BY DEF SessionSeen, NoSession, Closed
    <3> QED
      BY <2>1, <3>1 DEF Promise!AbstractSession
  <2>2. CASE \E i \in Identities : sessions[s] = NewSession(i, 0)
    <3>1. PICK i \in Identities : sessions[s] = NewSession(i, 0)
      BY <2>2
    <3>2. SessionSeen(NewSession(i, 0)) =
            [owner |-> i, until |-> 0 + IdleTtl, limit |-> 0 + AbsoluteTtl, state |-> "open"]
      BY DEF SessionSeen, NewSession, Closed
    <3> QED
      BY <3>1, <3>2 DEF Promise!AbstractSession
  <2> QED
    BY <2>1, <2>2 DEF Init
<1>2. [s \in Sessions |-> SessionSeen(sessions[s])] \in [Sessions -> Promise!AbstractSession]
  BY <1>1
<1>3. clock \in Nat /\ status \in [Identities -> {"active", "suspended", "disabled"}]
      /\ \A i \in Identities : status[i] = "active"
  BY DEF Init
<1> QED
  BY <1>1, <1>2, <1>3 DEF Promise!AbstractInit, Promise!AbstractTypeOK

\* The registry, with its requests in flight and its optimistic versions,
\* implements AccessLifecycle: a suspension or a disablement and the closing
\* of every live session are one step for those who rely on it, a reactivation
\* finds no live session, and no session is reopened, for any number of
\* people, sessions, roles and concurrent requests.
THEOREM RegistryKeepsItsPromise == Spec => ImplementsAccessLifecycle
<1>1. RefinementInv /\ [Next]_vars => [Promise!AbstractNext]_(Promise!absVars)
  BY EveryStepIsPromised DEF PromiseStep
<1> QED
  BY <1>1, ClosingsConcernOnePerson, InitIsPromised, PTL DEF Spec, ImplementsAccessLifecycle, Promise!AbstractSpec
=============================================================================
