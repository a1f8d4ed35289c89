--------------------------- MODULE SessionRecords ---------------------------
(***************************************************************************)
(* The central session record and the pure functions that compute its next *)
(* value (service-node/application-session.mjs).  The registry stores one  *)
(* record per session; every writer reads it, computes a successor with    *)
(* one of these functions and submits the successor under the version it   *)
(* has read.                                                               *)
(*                                                                         *)
(* Dates are natural numbers of an abstract clock.  The secret, its hash,  *)
(* the application and the context label are immutable and checked for     *)
(* equality only: a cookie presents the credential it was given, so they   *)
(* are abstracted away.  "revoked" and "expired" are the two ways in which *)
(* revoked_at becomes non-null.                                            *)
(***************************************************************************)
EXTENDS Integers

CONSTANTS
    Identities,      \* identities of the registry
    Nobody,          \* owner of a session that does not exist yet
    IdleTtl,         \* idle_ttl_ms
    AbsoluteTtl,     \* absolute_ttl_ms
    TouchInterval    \* touchIntervalMs: activity is consolidated at this rate

ASSUME LifetimeAssumption ==
    /\ IdleTtl \in Nat /\ AbsoluteTtl \in Nat /\ TouchInterval \in Nat
    /\ 0 < TouchInterval /\ TouchInterval < IdleTtl /\ IdleTtl <= AbsoluteTtl

ASSUME NobodyAssumption == Nobody \notin Identities

Owner == Identities \cup {Nobody}
SessionState == {"absent", "open", "revoked", "expired"}

SessionRecord ==
    [owner: Owner, state: SessionState, lastSeen: Nat, idle: Nat,
     absolute: Nat, version: Nat]

NoSession ==
    [owner |-> Nobody, state |-> "absent", lastSeen |-> 0, idle |-> 0,
     absolute |-> 0, version |-> 0]

Earlier(a, b) == IF a <= b THEN a ELSE b

\* createApplicationSession
NewSession(i, t) ==
    [owner |-> i, state |-> "open", lastSeen |-> t, idle |-> t + IdleTtl,
     absolute |-> t + AbsoluteTtl, version |-> 1]

Exists(r) == r.state # "absent"
Closed(r) == r.state \in {"revoked", "expired"}

\* Wrong variant of ActiveAt: deadlines are ignored.
OpenAt(r, t) == r.state = "open" /\ t \in Nat

\* An unrevoked session both of whose deadlines lie strictly after t.
ActiveAt(r, t) == r.state = "open" /\ r.idle > t /\ r.absolute > t

\* assessApplicationSession: the verdict on session r presented for identity i.
Assess(r, i, t) ==
    IF ~Exists(r) THEN "session_unknown"
    ELSE IF r.owner # i THEN "session_context_mismatch"
    ELSE IF Closed(r) THEN "session_revoked"
    ELSE IF r.absolute <= t THEN "session_absolute_expired"
    ELSE IF r.idle <= t THEN "session_idle_expired"
    ELSE "session_active"

ExpiryVerdicts == {"session_absolute_expired", "session_idle_expired"}

TouchDue(r, t) == t - r.lastSeen >= TouchInterval

\* Wrong variant of Touched: the absolute expiry is forgotten.
TouchedWithoutLimit(r, t) ==
    [r EXCEPT !.lastSeen = t, !.idle = t + IdleTtl, !.version = r.version + 1]

\* touchApplicationSession
Touched(r, t) ==
    [r EXCEPT !.lastSeen = t,
              !.idle = Earlier(t + IdleTtl, r.absolute),
              !.version = r.version + 1]

\* revokeApplicationSession and expireApplicationSession
ClosedAs(r, how) == [r EXCEPT !.state = how, !.version = r.version + 1]
=============================================================================
