-------------------------- MODULE NotificationQueue -------------------------
(***************************************************************************)
(* Reception, processing and materialization of notification events        *)
(* (notification-ingress.mjs, notification-consumer.mjs,                   *)
(* notification-materializer.mjs, notification-processing-runner.mjs and   *)
(* their statements in mariadb.mjs).                                       *)
(*                                                                         *)
(* A worker is one run of the consumer command.  It takes the named lock,  *)
(* claims a batch under a lease, and for each event asks the emitting      *)
(* application what to do, materializes the answer in one transaction and  *)
(* concludes the attempt in another.  Between any two of these steps the   *)
(* worker may die, its lock may be lost with the connection that holds it, *)
(* its lease may run out, and a second run may claim the same event.       *)
(***************************************************************************)
EXTENDS LeasedRows, FiniteSets

CONSTANTS
    Events,          \* event identifiers of the emitting application
    NoEvent,
    Contents,        \* contents an event may be handed over with (event_hash)
    NoContent,
    Said,            \* [Events -> SUBSET Contents]: what the application may say of each
    Answers,         \* resolutions the emitting application may answer with
    NoAnswer,
    People,          \* identities
    Recipients,      \* [Answers -> SUBSET People]
    MaxAttempts,     \* maxAttempts
    MaxDelay,        \* longest delay
    Limit,           \* limit: size of a batch
    MaxFaults        \* bound: crashes, lost locks, failures of the registry

ASSUME QueueAssumption ==
    /\ NoEvent \notin Events /\ NoContent \notin Contents /\ NoAnswer \notin Answers
    /\ Said \in [Events -> SUBSET Contents]
    /\ Recipients \in [Answers -> SUBSET People]
    /\ MaxAttempts \in Nat /\ 1 <= MaxAttempts /\ MaxDelay \in Nat
    /\ Limit \in Nat /\ 1 <= Limit /\ MaxFaults \in Nat

VARIABLES
    content,         \* notification_events: what each event says
    events,          \* notification_events: the state of each event
    resolution,      \* notification_resolutions, with its notifications and deliveries
    active,          \* identities whose status is active
    lock,            \* holder of the named lock
    run,             \* the memory of each worker
    faults

vars == <<content, events, resolution, active, lock, run, faults>>
tables == <<content, events, resolution>>

Stage == {"off", "locked", "batch", "resolved", "materialized", "failing", "closing"}

Run == [stage: Stage,
        tries: [Events -> Nat],          \* attempt number of each event left to process, else 0
        event: Events \cup {NoEvent},    \* the event being processed
        answer: Answers \cup {NoAnswer}]

NoTries == [e \in Events |-> 0]
NoRun == [stage |-> "off", tries |-> NoTries, event |-> NoEvent, answer |-> NoAnswer]

TypeOK ==
    /\ content \in [Events -> Contents \cup {NoContent}]
    /\ events \in [Events -> Row]
    /\ \A e \in Events : RowOK(events[e])
    /\ resolution \in [Events -> Answers \cup {NoAnswer}]
    /\ active \subseteq People
    /\ lock \in Workers \cup {NoWorker}
    /\ run \in [Workers -> Run]
    /\ faults \in 0..MaxFaults

Init ==
    /\ content = [e \in Events |-> NoContent]
    /\ events = [e \in Events |-> NoRow]
    /\ resolution = [e \in Events |-> NoAnswer]
    /\ active = People
    /\ lock = NoWorker
    /\ run = [w \in Workers |-> NoRun]
    /\ faults = 0

-----------------------------------------------------------------------------
(* Helpers *)

Remaining(w) == {e \in Events : run[w].tries[e] > 0}

\* Worker w goes to a stage; to the next event of its batch; or stops there.
Goto(w, stage) == run' = [run EXCEPT ![w].stage = stage]
NextEvent(w) ==
    run' = [run EXCEPT ![w] = [@ EXCEPT !.stage = "batch", !.event = NoEvent, !.answer = NoAnswer,
                                        !.tries[run[w].event] = 0]]
GiveUp(w) == run' = [run EXCEPT ![w] = [NoRun EXCEPT !.stage = "closing"]]

\* The answer of the registry reaches the worker, or the statement has taken
\* effect and its answer is lost with the connection.
Hears(heard) ==
    IF heard THEN UNCHANGED faults
             ELSE faults < MaxFaults /\ faults' = faults + 1

Unlocked(w) == IF lock = w THEN NoWorker ELSE lock

Received == Idle("pending", 0)

-----------------------------------------------------------------------------
(* The emitting application, the identities and time *)

\* notification_event_identity_conflict: the whole batch is rolled back.
NoConflict(E, said) ==
    \A e \in E : events[e].status # "absent" => content[e] = said[e]

\* receiveNotificationEvents: one transaction for the batch; an event
\* already present with the same content is skipped.
Receive(E, said) ==
    /\ E # {} /\ \A e \in E : said[e] \in Said[e]
    /\ NoConflict(E, said)
    /\ content' = [e \in Events |-> IF e \in E THEN said[e] ELSE content[e]]
    /\ events' = [e \in Events |-> IF e \in E /\ events[e].status = "absent"
                                     THEN Received ELSE events[e]]
    /\ UNCHANGED <<resolution, active, lock, run, faults>>

\* An identity is suspended, disabled or reactivated (IdentitySessions).
SwitchIdentity(i) ==
    /\ active' = IF i \in active THEN active \ {i} ELSE active \cup {i}
    /\ UNCHANGED <<content, events, resolution, lock, run, faults>>

Tick ==
    /\ events' = [e \in Events |-> Older(events[e])]
    /\ events' # events
    /\ UNCHANGED <<content, resolution, active, lock, run, faults>>

-----------------------------------------------------------------------------
(* A run of the consumer *)

\* GET_LOCK(name, 0): a run that does not get the lock ends at once.
Start(w) ==
    /\ run[w].stage = "off"
    /\ lock = NoWorker
    /\ lock' = w
    /\ Goto(w, "locked")
    /\ UNCHANGED <<tables, active, faults>>

\* claimNotificationEvents.  The order of the claim is left open.
Claim(w, S, heard) ==
    LET open == {e \in Events : Claimable(events[e])} IN
    /\ run[w].stage = "locked"
    /\ S \subseteq open /\ Cardinality(S) = AtMost(Limit, Cardinality(open))
    /\ events' = [e \in Events |-> IF e \in S THEN Claimed(events[e], w) ELSE events[e]]
    /\ IF heard
         THEN run' = [run EXCEPT ![w].stage = "batch",
                                 ![w].tries = [e \in Events |-> IF e \in S
                                                THEN events[e].attempts + 1 ELSE 0]]
         ELSE GiveUp(w)
    /\ Hears(heard)
    /\ UNCHANGED <<content, resolution, active, lock>>

\* The emitting application answers the signed request of the worker; asked
\* again about an event, it may answer differently.
Resolve(w, e, a) ==
    /\ run[w].stage = "batch"
    /\ e \in Remaining(w)
    /\ run' = [run EXCEPT ![w] = [@ EXCEPT !.stage = "resolved", !.event = e, !.answer = a]]
    /\ UNCHANGED <<tables, active, lock, faults>>

\* Unreachable, too late, refused, or an answer that is not valid.
ResolveFails(w, e) ==
    /\ run[w].stage = "batch"
    /\ e \in Remaining(w)
    /\ run' = [run EXCEPT ![w] = [@ EXCEPT !.stage = "failing", !.event = e]]
    /\ UNCHANGED <<tables, active, lock, faults>>

\* Wrong variant of Materializable: a known resolution does not count.
MaterializableAgain(e, a) == events[e].status = "processing" /\ Recipients[a] \subseteq active

\* A first resolution, of an event in process, for active recipients.
Materializable(e, a) ==
    /\ resolution[e] = NoAnswer
    /\ events[e].status = "processing"
    /\ Recipients[a] \subseteq active

\* materializeNotificationResolution creates the resolution, recognises the
\* same one, or throws.
Materialize(w, heard) ==
    LET e == run[w].event
        a == run[w].answer
        created == Materializable(e, a) IN
    /\ run[w].stage = "resolved"
    /\ resolution' = IF created THEN [resolution EXCEPT ![e] = a] ELSE resolution
    /\ Goto(w, IF heard /\ (created \/ resolution[e] = a) THEN "materialized" ELSE "failing")
    /\ Hears(heard)
    /\ UNCHANGED <<content, events, active, lock>>

\* completeNotificationEvent
Complete(w, heard) ==
    LET e == run[w].event
        held == HeldBy(events[e], w) IN
    /\ run[w].stage = "materialized"
    /\ events' = IF held THEN [events EXCEPT ![e] = Concluded(@, "processed", 0)] ELSE events
    /\ IF heard /\ held THEN NextEvent(w) ELSE Goto(w, "failing")
    /\ Hears(heard)
    /\ UNCHANGED <<content, resolution, active, lock>>

\* Wrong variant of Spent: one attempt too few.
SpentEarly(attempt) == attempt + 1 >= MaxAttempts

Spent(attempt) == attempt >= MaxAttempts

\* notificationRetryDelayMs
RetryDelay(attempt) == AtMost(MaxDelay, Backoff(attempt, 8))

\* failNotificationEvent: back to the queue, or into quarantine.  When the
\* row is not held any more it throws, out of the loop over the batch.
FailEvent(w, heard) ==
    LET e == run[w].event
        attempt == run[w].tries[e]
        held == HeldBy(events[e], w) IN
    /\ run[w].stage = "failing"
    /\ events' = IF held
                   THEN [events EXCEPT ![e] =
                           IF Spent(attempt) THEN Concluded(@, "quarantined", 0)
                                             ELSE Concluded(@, "retry", RetryDelay(attempt))]
                   ELSE events
    /\ IF heard /\ held THEN NextEvent(w) ELSE GiveUp(w)
    /\ Hears(heard)
    /\ UNCHANGED <<content, resolution, active, lock>>

\* The outcome is recorded and the lock released; the command ends.
Finish(w) ==
    /\ \/ run[w].stage = "closing"
       \/ run[w].stage = "batch" /\ Remaining(w) = {}
    /\ lock' = Unlocked(w)
    /\ run' = [run EXCEPT ![w] = NoRun]
    /\ UNCHANGED <<tables, active, faults>>

-----------------------------------------------------------------------------
(* Faults *)

Fault == faults < MaxFaults /\ faults' = faults + 1

\* The process dies; its connections are closed, which releases the lock.
Crash(w) ==
    /\ Fault
    /\ run[w].stage # "off"
    /\ lock' = Unlocked(w)
    /\ run' = [run EXCEPT ![w] = NoRun]
    /\ UNCHANGED <<tables, active>>

\* The dedicated connection is lost; the process does not notice.
LoseLock(w) ==
    /\ Fault
    /\ lock = w
    /\ lock' = NoWorker
    /\ UNCHANGED <<tables, active, run>>

\* A statement fails without effect.
RegistryFails(w) ==
    /\ Fault
    /\ \/ run[w].stage \in {"resolved", "materialized"} /\ Goto(w, "failing")
       \/ run[w].stage \in {"locked", "failing"} /\ GiveUp(w)
    /\ UNCHANGED <<tables, active, lock>>

-----------------------------------------------------------------------------

\* What a worker does when nothing goes wrong with it.
WorkerStep(w) ==
    \/ Start(w)
    \/ \E S \in SUBSET Events : Claim(w, S, TRUE)
    \/ \E e \in Events : ResolveFails(w, e) \/ \E a \in Answers : Resolve(w, e, a)
    \/ Materialize(w, TRUE)
    \/ Complete(w, TRUE)
    \/ FailEvent(w, TRUE)
    \/ Finish(w)

FaultStep(w) ==
    \/ Crash(w)
    \/ LoseLock(w)
    \/ RegistryFails(w)
    \/ \E S \in SUBSET Events : Claim(w, S, FALSE)
    \/ Materialize(w, FALSE)
    \/ Complete(w, FALSE)
    \/ FailEvent(w, FALSE)

Next ==
    \/ \E E \in SUBSET Events : \E said \in [E -> Contents] : Receive(E, said)
    \/ \E i \in People : SwitchIdentity(i)
    \/ Tick
    \/ \E w \in Workers : WorkerStep(w) \/ FaultStep(w)

Spec == Init /\ [][Next]_vars

\* Time passes, and the loop that starts the command every minute
\* (notification-worker-loop.mjs) keeps starting it; a run goes on.
FairSpec == Spec /\ WF_vars(Tick) /\ \A w \in Workers : WF_vars(WorkerStep(w))

-----------------------------------------------------------------------------
(* What the queue guarantees *)

\* An attempt is concluded only by the worker whose claim is the latest one:
\* a worker whose lease ran out, and whose event was claimed again, changes
\* nothing (WHERE status = 'processing' AND claimed_by = ?).
HolderConcludes ==
    [][\A e \in Events :
         events[e].status = "processing" /\ events'[e].status # "processing" =>
           \E w \in Workers :
              /\ events[e].by = w /\ run[w].event = e /\ run'[w] # run[w]
              /\ run[w].tries[e] = events[e].attempts]_vars

\* An event is set aside only after the allowed number of attempts, and is
\* declared processed only once its resolution is in the registry.
ConclusionIsEarned ==
    \A e \in Events :
      /\ events[e].status = "quarantined" => events[e].attempts >= MaxAttempts
      /\ events[e].status = "processed" => resolution[e] # NoAnswer

\* The queue keeps the promise made to the emitting application.
Outcome(r) == IF r.status \in {"processed", "quarantined"} THEN r.status ELSE "open"

Promise == INSTANCE NotificationPromise WITH
    Handed <- Events, Facts <- Contents, NoFact <- NoContent,
    Decisions <- Answers, Undecided <- NoAnswer,
    fact <- content, decision <- resolution,
    outcome <- [e \in Events |-> Outcome(events[e])]

KeepsPromise == Promise!PromiseSpec

\* Every event received is finally processed or set aside, whatever crashes,
\* lost locks and failures of the registry happen, finitely many times.
EveryEventEnds == Promise!EveryEventEnds

-----------------------------------------------------------------------------
(* What the documents say of the queue, and the code does not ensure *)

\* ADR-016: after the maximum number of attempts an event goes into
\* quarantine (the claim counts an attempt and looks at no maximum: an event
\* whose worker dies is taken again).
AttemptsAreBounded == \A e \in Events : events[e].attempts <= MaxAttempts

-----------------------------------------------------------------------------
(* Why the guarantees hold *)

\* While a worker holds a row, it knows its attempt number.
HolderKnowsItsAttempt ==
    \A w \in Workers, e \in Events :
      /\ run[w].tries[e] > 0 => run[w].tries[e] <= events[e].attempts
      /\ run[w].tries[e] > 0 /\ HeldBy(events[e], w) => run[w].tries[e] = events[e].attempts

WorkerInv(w) ==
    /\ run[w].stage \in {"resolved", "materialized", "failing"} =>
         run[w].event \in Events /\ run[w].tries[run[w].event] > 0
    /\ run[w].stage = "resolved" => run[w].answer \in Answers
    /\ run[w].stage = "materialized" => resolution[run[w].event] # NoAnswer

RowInv(e) ==
    /\ events[e].status = "absent" <=> content[e] = NoContent
    /\ events[e].status = "absent" => events[e] = NoRow /\ resolution[e] = NoAnswer
    /\ events[e].status \in {"absent", "pending", "retry", "processing", "processed", "quarantined"}

Inv ==
    /\ TypeOK
    /\ HolderKnowsItsAttempt
    /\ ConclusionIsEarned
    /\ \A w \in Workers : WorkerInv(w)
    /\ \A e \in Events : RowInv(e)
=============================================================================
