----------------------------- MODULE EmailQueue -----------------------------
(***************************************************************************)
(* Delivery by mail of the notifications that ask for it                   *)
(* (notification-email-delivery.mjs and its statements in mariadb.mjs).    *)
(*                                                                         *)
(* The pattern is the one of NotificationQueue - named lock, lease,        *)
(* conclusion by the holder - but the effect of an attempt is outside the  *)
(* registry: once the provider has accepted a mail, nothing takes it back. *)
(***************************************************************************)
EXTENDS LeasedRows, FiniteSets

CONSTANTS
    Deliveries,      \* rows of channel "email"
    NoDelivery,
    People,          \* identities
    Recipient,       \* [Deliveries -> People]
    Historical,      \* deliveries of events older than the configured floor
    MaxAttempts,     \* maxAttempts
    Limit,           \* limit: size of a batch
    MaxFaults        \* bound: crashes, lost locks, lost answers, failures

ASSUME DeliveryAssumption ==
    /\ NoDelivery \notin Deliveries
    /\ Recipient \in [Deliveries -> People]
    /\ Historical \subseteq Deliveries
    /\ MaxAttempts \in 1..20
    /\ Limit \in Nat /\ 1 <= Limit /\ MaxFaults \in Nat

VARIABLES
    deliveries,      \* notification_external_deliveries
    sent,            \* mails the provider has accepted for each delivery
    active,          \* identities whose status is active
    lock,            \* holder of the named lock
    run,             \* the memory of each worker
    faults

vars == <<deliveries, sent, active, lock, run, faults>>

Stage == {"off", "locked", "batch", "accepted", "failing", "closing"}

Run == [stage: Stage,
        tries: [Deliveries -> Nat],          \* attempt number of each delivery left, else 0
        delivery: Deliveries \cup {NoDelivery},
        rejected: BOOLEAN]                   \* the provider said no for good

NoTries == [d \in Deliveries |-> 0]
NoRun == [stage |-> "off", tries |-> NoTries, delivery |-> NoDelivery, rejected |-> FALSE]

TypeOK ==
    /\ deliveries \in [Deliveries -> Row]
    /\ \A d \in Deliveries : RowOK(deliveries[d])
    /\ sent \in [Deliveries -> Nat]
    /\ active \subseteq People
    /\ lock \in Workers \cup {NoWorker}
    /\ run \in [Workers -> Run]
    /\ faults \in 0..MaxFaults

Init ==
    /\ deliveries = [d \in Deliveries |-> NoRow]
    /\ sent = [d \in Deliveries |-> 0]
    /\ active = People
    /\ lock = NoWorker
    /\ run = [w \in Workers |-> NoRun]
    /\ faults = 0

-----------------------------------------------------------------------------
(* Helpers *)

Remaining(w) == {d \in Deliveries : run[w].tries[d] > 0}

Goto(w, stage) == run' = [run EXCEPT ![w].stage = stage]
NextDelivery(w) ==
    run' = [run EXCEPT ![w] = [@ EXCEPT !.stage = "batch", !.delivery = NoDelivery,
                                        !.rejected = FALSE, !.tries[run[w].delivery] = 0]]
GiveUp(w) == run' = [run EXCEPT ![w] = [NoRun EXCEPT !.stage = "closing"]]

\* The answer of the registry or of the provider reaches the worker, or the
\* call has taken effect and its answer is lost.
Hears(heard) ==
    IF heard THEN UNCHANGED faults
             ELSE faults < MaxFaults /\ faults' = faults + 1

Unlocked(w) == IF lock = w THEN NoWorker ELSE lock

-----------------------------------------------------------------------------
(* The rest of the system *)

\* Materialization creates the row: pending when the channel is open to the
\* event under the configuration of the consumer, else blocked.
Enqueue(d, status) ==
    /\ deliveries[d].status = "absent"
    /\ status \in {"pending", "blocked"}
    /\ deliveries' = [deliveries EXCEPT ![d] = Idle(status, 0)]
    /\ UNCHANGED <<sent, active, lock, run, faults>>

\* An identity is suspended, disabled or reactivated (IdentitySessions).
SwitchIdentity(i) ==
    /\ active' = IF i \in active THEN active \ {i} ELSE active \cup {i}
    /\ UNCHANGED <<deliveries, sent, lock, run, faults>>

Tick ==
    /\ deliveries' = [d \in Deliveries |-> Older(deliveries[d])]
    /\ deliveries' # deliveries
    /\ UNCHANGED <<sent, active, lock, run, faults>>

-----------------------------------------------------------------------------
(* A run of the delivery command *)

\* Wrong variant of LockFree: the lock is not looked at.
LockIgnored == lock \in Workers \cup {NoWorker}
LockFree == lock = NoWorker

Start(w) ==
    /\ run[w].stage = "off"
    /\ LockFree
    /\ lock' = w
    /\ Goto(w, "locked")
    /\ UNCHANGED <<deliveries, sent, active, faults>>

\* Wrong variant of Deliverable: the floor and the recipient do not count.
AnyDeliverable(d) == Claimable(deliveries[d]) \/ deliveries[d].status = "blocked"

\* The join of claimNotificationEmailDeliveries.
Deliverable(d) ==
    /\ Claimable(deliveries[d])
    /\ Recipient[d] \in active
    /\ d \notin Historical

\* claimNotificationEmailDeliveries also reads the address of the recipient.
Claim(w, S, heard) ==
    LET open == {d \in Deliveries : Deliverable(d)} IN
    /\ run[w].stage = "locked"
    /\ S \subseteq open /\ Cardinality(S) = AtMost(Limit, Cardinality(open))
    /\ deliveries' = [d \in Deliveries |-> IF d \in S THEN Claimed(deliveries[d], w)
                                                      ELSE deliveries[d]]
    /\ IF heard
         THEN run' = [run EXCEPT ![w].stage = "batch",
                                 ![w].tries = [d \in Deliveries |-> IF d \in S
                                                THEN deliveries[d].attempts + 1 ELSE 0]]
         ELSE GiveUp(w)
    /\ Hears(heard)
    /\ UNCHANGED <<sent, active, lock>>

\* The provider accepts the mail.
Send(w, d, heard) ==
    /\ run[w].stage = "batch"
    /\ d \in Remaining(w)
    /\ sent' = [sent EXCEPT ![d] = @ + 1]
    /\ run' = [run EXCEPT ![w] = [@ EXCEPT !.delivery = d,
                                           !.stage = IF heard THEN "accepted" ELSE "failing"]]
    /\ Hears(heard)
    /\ UNCHANGED <<deliveries, active, lock>>

\* The provider refuses it, for now or for good, or cannot be reached.
SendFails(w, d, rejected) ==
    /\ run[w].stage = "batch"
    /\ d \in Remaining(w)
    /\ run' = [run EXCEPT ![w] = [@ EXCEPT !.delivery = d, !.stage = "failing",
                                           !.rejected = rejected]]
    /\ UNCHANGED <<deliveries, sent, active, lock, faults>>

\* completeNotificationEmailDelivery
Complete(w, heard) ==
    LET d == run[w].delivery
        held == HeldBy(deliveries[d], w) IN
    /\ run[w].stage = "accepted"
    /\ deliveries' = IF held THEN [deliveries EXCEPT ![d] = Concluded(@, "delivered", 0)]
                             ELSE deliveries
    /\ IF heard /\ held THEN NextDelivery(w) ELSE Goto(w, "failing")
    /\ Hears(heard)
    /\ UNCHANGED <<sent, active, lock>>

SetAside(attempt, rejected) == attempt >= MaxAttempts \/ rejected

\* Of mails the delay has no limit but the number of attempts.
RetryDelay(attempt) == Backoff(attempt, 20)

\* failNotificationEmailDelivery, for a mail that was not accepted or an
\* acceptance that could not be recorded.
FailDelivery(w, heard) ==
    LET d == run[w].delivery
        attempt == run[w].tries[d]
        held == HeldBy(deliveries[d], w) IN
    /\ run[w].stage = "failing"
    /\ deliveries' =
         IF held
           THEN [deliveries EXCEPT ![d] =
                   IF SetAside(attempt, run[w].rejected)
                     THEN Concluded(@, "quarantined", 0)
                     ELSE Concluded(@, "retry", RetryDelay(attempt))]
           ELSE deliveries
    /\ IF heard /\ held THEN NextDelivery(w) ELSE GiveUp(w)
    /\ Hears(heard)
    /\ UNCHANGED <<sent, active, lock>>

\* The lock is released; the command ends.
Finish(w) ==
    /\ \/ run[w].stage = "closing"
       \/ run[w].stage = "batch" /\ Remaining(w) = {}
    /\ lock' = Unlocked(w)
    /\ run' = [run EXCEPT ![w] = NoRun]
    /\ UNCHANGED <<deliveries, sent, active, faults>>

-----------------------------------------------------------------------------
(* Faults *)

Fault == faults < MaxFaults /\ faults' = faults + 1

Crash(w) ==
    /\ Fault
    /\ run[w].stage # "off"
    /\ lock' = Unlocked(w)
    /\ run' = [run EXCEPT ![w] = NoRun]
    /\ UNCHANGED <<deliveries, sent, active>>

LoseLock(w) ==
    /\ Fault
    /\ lock = w
    /\ lock' = NoWorker
    /\ UNCHANGED <<deliveries, sent, active, run>>

RegistryFails(w) ==
    /\ Fault
    /\ \/ run[w].stage = "accepted" /\ Goto(w, "failing")
       \/ run[w].stage \in {"locked", "failing"} /\ GiveUp(w)
    /\ UNCHANGED <<deliveries, sent, active, lock>>

-----------------------------------------------------------------------------

WorkerStep(w) ==
    \/ Start(w)
    \/ \E S \in SUBSET Deliveries : Claim(w, S, TRUE)
    \/ \E d \in Deliveries : Send(w, d, TRUE)
    \/ \E d \in Deliveries, rejected \in BOOLEAN : SendFails(w, d, rejected)
    \/ Complete(w, TRUE)
    \/ FailDelivery(w, TRUE)
    \/ Finish(w)

FaultStep(w) ==
    \/ Crash(w)
    \/ LoseLock(w)
    \/ RegistryFails(w)
    \/ \E S \in SUBSET Deliveries : Claim(w, S, FALSE)
    \/ \E d \in Deliveries : Send(w, d, FALSE)
    \/ Complete(w, FALSE)
    \/ FailDelivery(w, FALSE)

Next ==
    \/ \E d \in Deliveries, status \in RowStatus : Enqueue(d, status)
    \/ \E i \in People : SwitchIdentity(i)
    \/ Tick
    \/ \E w \in Workers : WorkerStep(w) \/ FaultStep(w)

Spec == Init /\ [][Next]_vars

\* Time passes, and the loop that starts the command every minute
\* (notification-worker-loop.mjs) keeps starting it; a run goes on.
FairSpec == Spec /\ WF_vars(Tick) /\ \A w \in Workers : WF_vars(WorkerStep(w))

-----------------------------------------------------------------------------
(* What the queue guarantees *)

\* The attempts counter bounds the mails a person can receive for a delivery,
\* whatever runs overlap and whatever answers are lost; and a delivery
\* recorded as delivered has been sent.
SendsAreCounted ==
    \A d \in Deliveries :
      /\ sent[d] <= deliveries[d].attempts
      /\ deliveries[d].status = "delivered" => sent[d] >= 1

\* Nothing is sent for a delivery that was never due: blocked at its
\* creation, or of an event older than the floor.
OnlyDueAreSent ==
    \A d \in Deliveries :
      d \in Historical \/ deliveries[d].status \in {"absent", "blocked", "pending"} => sent[d] = 0

\* A delivery that is due is finally delivered or set aside, provided its
\* recipient is active from some time on.
EveryDeliveryEnds ==
    \A d \in Deliveries \ Historical :
      <>[](Recipient[d] \in active) =>
        (deliveries[d].status = "pending" ~> deliveries[d].status \in {"delivered", "quarantined"})

\* At most one mail per delivery as long as nothing fails, even when leases
\* run out, thanks to the lock.  A crash, a lost lock or a lost answer is
\* enough for a second one: ADR-023 announces "idempotence par notification
\* et canal", which the row of the delivery has and the mail has not.
SentOnce == faults = 0 => \A d \in Deliveries : sent[d] <= 1

-----------------------------------------------------------------------------
(* Why the guarantees hold *)

\* A worker has deliveries left in the middle of its run only, and they were
\* due when it claimed them.
WorkerInv(w) ==
    /\ run[w].stage \in {"off", "locked", "closing"} => Remaining(w) = {}
    /\ run[w].stage \in {"accepted", "failing"} => run[w].delivery \in Remaining(w)
    /\ run[w].stage = "accepted" => sent[run[w].delivery] >= 1
    /\ \A d \in Remaining(w) :
         d \notin Historical /\ deliveries[d].status \notin {"absent", "blocked", "pending"}

\* The workers that have claimed d and may still send it under that claim.
At(w, d) == run[w].stage \in {"accepted", "failing"} /\ run[w].delivery = d
Ready(d) == {w \in Workers : d \in Remaining(w) /\ ~At(w, d)}

\* Every mail, sent or still possible, has its own attempt.
AttemptsCoverSends ==
    \A d \in Deliveries :
      IsFiniteSet(Ready(d)) /\ sent[d] + Cardinality(Ready(d)) <= deliveries[d].attempts

\* As long as nothing fails, the lock leaves one run at a time, which holds
\* every delivery it has left and concludes each before it ends: what is
\* claimed has never been sent.
UndisturbedWorker(w) ==
    /\ run[w].stage # "closing"
    /\ run[w].stage # "off" => lock = w
    /\ run[w].stage = "failing" => sent[run[w].delivery] = 0
    /\ \A d \in Remaining(w) : HeldBy(deliveries[d], w)

UndisturbedDelivery(d) ==
    /\ deliveries[d].status = "processing" => d \in Remaining(deliveries[d].by)
    /\ \/ sent[d] = 0
       \/ sent[d] = 1 /\ \/ deliveries[d].status = "delivered"
                         \/ /\ deliveries[d].status = "processing"
                            /\ run[deliveries[d].by].stage = "accepted"
                            /\ run[deliveries[d].by].delivery = d

Undisturbed ==
    faults = 0 => /\ \A w \in Workers : UndisturbedWorker(w)
                  /\ \A d \in Deliveries : UndisturbedDelivery(d)

\* What holds whatever fails.
Accounts ==
    /\ TypeOK
    /\ OnlyDueAreSent
    /\ \A w \in Workers : WorkerInv(w)
    /\ AttemptsCoverSends
    /\ \A d \in Deliveries : deliveries[d].status = "delivered" => sent[d] >= 1

Inv == Accounts /\ Undisturbed
=============================================================================
