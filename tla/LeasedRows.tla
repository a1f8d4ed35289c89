----------------------------- MODULE LeasedRows -----------------------------
(***************************************************************************)
(* The rows of the two work queues kept in MariaDB, notification_events    *)
(* and notification_external_deliveries, and what the statements on them   *)
(* do (service-node/mariadb.mjs, service-node/mariadb/schema.sql).         *)
(*                                                                         *)
(* Dates are kept as the time that remains: wait until available_at, lease *)
(* until claimed_at is so old that another worker may take the row.  An    *)
(* error code only says why a row is in retry or quarantine and is left    *)
(* out; processed_at and delivered_at are not null in the settled states   *)
(* only.                                                                   *)
(***************************************************************************)
EXTENDS Naturals, Sequences

CONSTANTS
    Workers,         \* worker identifiers: command, host and process number
    NoWorker,        \* claimed_by is null
    LeaseTime,       \* leaseMs
    BaseDelay        \* delay after a first failed attempt

ASSUME LeaseAssumption ==
    /\ LeaseTime \in Nat /\ BaseDelay \in Nat
    /\ 0 < LeaseTime /\ 0 < BaseDelay
    /\ NoWorker \notin Workers

RowStatus == {"absent", "blocked", "pending", "processing", "retry", "processed",
              "delivered", "quarantined"}

Row == [status: RowStatus, attempts: Nat, wait: Nat, lease: Nat,
        by: Workers \cup {NoWorker}]

\* The CHECK constraints on the lease.
RowOK(r) == r \in Row /\ (r.status = "processing" <=> r.by \in Workers)

Idle(status, wait) ==
    [status |-> status, attempts |-> 0, wait |-> wait, lease |-> 0, by |-> NoWorker]

NoRow == Idle("absent", 0)

\* Wrong variant of Claimable: a lease never expires.
ClaimableOnce(r) == r.status \in {"pending", "retry"} /\ r.wait = 0

\* The WHERE of the two claim queries.
Claimable(r) ==
    \/ r.status \in {"pending", "retry"} /\ r.wait = 0
    \/ r.status = "processing" /\ r.lease = 0

\* Wrong variant of Claimed: the attempt is not counted.
ClaimedUncounted(r, w) ==
    [r EXCEPT !.status = "processing", !.lease = LeaseTime, !.by = w]

Claimed(r, w) ==
    [r EXCEPT !.status = "processing", !.attempts = @ + 1, !.lease = LeaseTime, !.by = w]

\* Wrong variant of HeldBy: claimed_by is not compared.
InProcess(r, w) == r.status = "processing" /\ w \in Workers

\* The WHERE of the statements that conclude an attempt.
HeldBy(r, w) == r.status = "processing" /\ r.by = w

Concluded(r, status, wait) ==
    [r EXCEPT !.status = status, !.wait = wait, !.lease = 0, !.by = NoWorker]

AtMost(a, b) == IF a <= b THEN a ELSE b

\* 2 ** (attempt - 1), for the attempts that are counted, at most twenty
Doublings ==
    <<1, 2, 4, 8, 16, 32, 64, 128, 256, 512, 1024, 2048, 4096, 8192, 16384, 32768,
      65536, 131072, 262144, 524288>>

\* The delay after an attempt, which no longer doubles from the last one on.
Backoff(attempt, last) == BaseDelay * Doublings[AtMost(attempt, last)]

OneLess(n) == IF n = 0 THEN 0 ELSE n - 1

\* One unit of time has passed.
Older(r) == [r EXCEPT !.wait = OneLess(@), !.lease = OneLess(@)]
=============================================================================
