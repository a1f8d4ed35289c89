------------------------ MODULE LifecycleRefinement ------------------------
(***************************************************************************)
(* IdentitySessions, with its requests in flight and its optimistic        *)
(* versions, implements AccessLifecycle.  A request has no abstract        *)
(* counterpart: its reads are stuttering steps, and its transaction is the *)
(* abstract decision.                                                      *)
(***************************************************************************)
EXTENDS IdentitySessions

\* revoked and expired are one state to those who rely on the session; the
\* last activity and the version are the registry's own business.
SessionSeen(r) ==
    [owner |-> r.owner, until |-> r.idle, limit |-> r.absolute,
     state |-> IF Closed(r) THEN "closed" ELSE r.state]

Promise == INSTANCE AccessLifecycle WITH
    People <- Identities, Outsider <- Nobody, Ids <- Sessions, Rights <- Role,
    Instants <- 0..(MaxTime + AbsoluteTtl),
    now <- clock, standing <- status,
    session <- [s \in Sessions |-> SessionSeen(sessions[s])],
    entitled <- {e \in Identities \X Role : grants[e[1]][e[2]].held = "active"}

\* The registry keeps every promise of AccessLifecycle: closings are atomic,
\* a suspension or a disablement and the closing of all live sessions are one
\* step, and a reactivation finds none.
ImplementsAccessLifecycle == Promise!AbstractSpec

-----------------------------------------------------------------------------
(* Why the promise is kept *)

\* Every date of the registry is an instant of the promise.
DatesAreInstants ==
    /\ clock <= MaxTime
    /\ \A s \in Sessions : sessions[s].absolute <= MaxTime + AbsoluteTtl

\* The sessions a request is about to write belong to one person.
ConcernsOnePerson(p) ==
    \A s, z \in Targets(p) : Exists(sessions[s]) /\ sessions[s].owner = sessions[z].owner

\* No request ever gathers the sessions of two people in one closing, although
\* revokeApplicationSessions takes whatever list it is handed: what the
\* abstract closings, each of one person, rest on.
RefinementInv ==
    /\ Inv
    /\ DatesAreInstants
    /\ \A p \in Workers : ConcernsOnePerson(p)
=============================================================================
