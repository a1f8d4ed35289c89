----------------------- MODULE NotificationQueueProofs -----------------------
(***************************************************************************)
(* Proofs about NotificationQueue for every value of its constants: any    *)
(* number of workers, events, contents and answers, any lease, any delays, *)
(* any size of batch and any number of faults.                             *)
(***************************************************************************)
EXTENDS NotificationQueue, TLAPS

USE QueueAssumption, LeaseAssumption DEF QueueAssumption, LeaseAssumption

-----------------------------------------------------------------------------
(* Rows *)

LEMMA RetryDelayType == ASSUME NEW n \in Nat, n > 0 PROVE RetryDelay(n) \in Nat
<1> DEFINE k == AtMost(n, 8)
<1>1. k \in 1..8
  BY DEF AtMost
<1>2. Doublings[k] \in Nat
  BY <1>1 DEF Doublings
<1> HIDE DEF k
<1>3. ASSUME NEW a \in Nat PROVE BaseDelay * a \in Nat
  OBVIOUS
<1>4. BaseDelay * Doublings[k] \in Nat
  BY <1>2, <1>3
<1> QED
  BY <1>4 DEF RetryDelay, Backoff, AtMost, k

LEMMA NewRows ==
    /\ NoRow \in Row /\ RowOK(NoRow) /\ NoRow.status = "absent" /\ NoRow.attempts = 0
    /\ Received \in Row /\ RowOK(Received)
    /\ Received.status = "pending" /\ Received.attempts = 0
BY DEF NoRow, Received, Idle, Row, RowOK, RowStatus

LEMMA OlderRow ==
    ASSUME NEW r \in Row, RowOK(r)
    PROVE  /\ Older(r) \in Row /\ RowOK(Older(r))
           /\ Older(r).status = r.status /\ Older(r).attempts = r.attempts
           /\ Older(r).by = r.by
<1>1. Older(r) \in Row
  <2>1. OneLess(r.wait) \in Nat /\ OneLess(r.lease) \in Nat
    BY DEF OneLess, Row
  <2> QED
    BY <2>1 DEF Older, Row
<1>2. Older(r).status = r.status /\ Older(r).attempts = r.attempts /\ Older(r).by = r.by
  BY DEF Older, Row
<1> QED
  BY <1>1, <1>2 DEF RowOK

LEMMA ClaimedRow ==
    ASSUME NEW r \in Row, NEW w \in Workers
    PROVE  /\ Claimed(r, w) \in Row /\ RowOK(Claimed(r, w))
           /\ Claimed(r, w).status = "processing" /\ Claimed(r, w).by = w
           /\ Claimed(r, w).attempts = r.attempts + 1
<1>1. Claimed(r, w) \in Row
  <2>1. "processing" \in RowStatus /\ r.attempts + 1 \in Nat
    BY DEF RowStatus, Row
  <2> QED
    BY <2>1 DEF Claimed, Row
<1>2. /\ Claimed(r, w).status = "processing" /\ Claimed(r, w).by = w
      /\ Claimed(r, w).attempts = r.attempts + 1
  BY DEF Claimed, Row
<1> QED
  BY <1>1, <1>2 DEF RowOK

LEMMA ConcludedRow ==
    ASSUME NEW r \in Row, NEW s \in RowStatus, s # "processing", NEW n \in Nat
    PROVE  /\ Concluded(r, s, n) \in Row /\ RowOK(Concluded(r, s, n))
           /\ Concluded(r, s, n).status = s /\ Concluded(r, s, n).by = NoWorker
           /\ Concluded(r, s, n).attempts = r.attempts
BY DEF Concluded, Row, RowOK, RowStatus

LEMMA RunTypes ==
    /\ NoTries \in [Events -> Nat] /\ \A e \in Events : NoTries[e] = 0
    /\ NoRun \in Run /\ NoRun.stage = "off" /\ NoRun.tries = NoTries
BY DEF NoTries, NoRun, Run, Stage

-----------------------------------------------------------------------------
(* Steps that change no row *)

\* A worker that forgets some of its events, and moves, keeps the invariant.
LEMMA MovingKeepsInv ==
    ASSUME Inv, NEW w \in Workers, run' \in [Workers -> Run],
           \A v \in Workers : v # w => run'[v] = run[v],
           \A e \in Events : run'[w].tries[e] \in {0, run[w].tries[e]},
           WorkerInv(w)', UNCHANGED tables, active' \subseteq People,
           lock' \in Workers \cup {NoWorker}, faults' \in 0..MaxFaults
    PROVE  Inv'
<1> USE DEF Inv, tables
<1>1. TypeOK'
  BY DEF TypeOK
<1>2. HolderKnowsItsAttempt'
  BY DEF HolderKnowsItsAttempt, HeldBy
<1>3. ConclusionIsEarned'
  BY DEF ConclusionIsEarned
<1>4. \A v \in Workers : WorkerInv(v)'
  BY DEF WorkerInv
<1>5. \A e \in Events : RowInv(e)'
  BY DEF RowInv
<1> QED
  BY <1>1, <1>2, <1>3, <1>4, <1>5

LEMMA InitInv == Init => Inv
<1> SUFFICES ASSUME Init PROVE Inv
  OBVIOUS
<1>1. TypeOK
  BY NewRows, RunTypes DEF Init, TypeOK
<1>2. HolderKnowsItsAttempt /\ \A w \in Workers : WorkerInv(w)
  BY RunTypes DEF Init, HolderKnowsItsAttempt, WorkerInv
<1>3. ConclusionIsEarned /\ \A e \in Events : RowInv(e)
  BY NewRows DEF Init, ConclusionIsEarned, RowInv
<1> QED
  BY <1>1, <1>2, <1>3 DEF Inv

-----------------------------------------------------------------------------
(* How a worker moves *)

LEMMA FaultType == ASSUME Inv, Fault PROVE faults' \in 0..MaxFaults
BY DEF Inv, TypeOK, Fault

LEMMA HearsType == ASSUME Inv, NEW heard, Hears(heard) PROVE faults' \in 0..MaxFaults
BY DEF Inv, TypeOK, Hears

\* The command of a worker ends, or dies.
LEMMA LeavingKeepsInv ==
    ASSUME Inv, NEW w \in Workers, lock' = Unlocked(w), run' = [run EXCEPT ![w] = NoRun],
           UNCHANGED <<tables, active>>, faults' \in 0..MaxFaults
    PROVE  Inv'
<1>1. /\ run' \in [Workers -> Run] /\ \A v \in Workers : v # w => run'[v] = run[v]
      /\ run'[w].stage = "off" /\ \A e \in Events : run'[w].tries[e] = 0
  BY RunTypes DEF Inv, TypeOK
<1>2. WorkerInv(w)'
  BY <1>1 DEF WorkerInv
<1>3. lock' \in Workers \cup {NoWorker}
  BY DEF Inv, TypeOK, Unlocked
<1>4. active' \subseteq People
  BY DEF Inv, TypeOK
<1> QED
  BY <1>1, <1>2, <1>3, <1>4, MovingKeepsInv

LEMMA GivingUp ==
    ASSUME Inv, NEW w \in Workers, GiveUp(w)
    PROVE  /\ run' \in [Workers -> Run]
           /\ \A v \in Workers : v # w => run'[v] = run[v]
           /\ run'[w].stage = "closing" /\ \A e \in Events : run'[w].tries[e] = 0
BY RunTypes DEF Inv, TypeOK, GiveUp, NoRun, Run, Stage, NoTries

LEMMA Going ==
    ASSUME Inv, NEW w \in Workers, NEW s \in Stage, Goto(w, s)
    PROVE  /\ run' \in [Workers -> Run]
           /\ \A v \in Workers : v # w => run'[v] = run[v]
           /\ run'[w].stage = s /\ run'[w].tries = run[w].tries
           /\ run'[w].event = run[w].event /\ run'[w].answer = run[w].answer
<1> DEFINE x == [run[w] EXCEPT !.stage = s]
<1>1. /\ x \in Run /\ x.stage = s /\ x.tries = run[w].tries
      /\ x.event = run[w].event /\ x.answer = run[w].answer
  <2>1. run[w] \in Run
    BY DEF Inv, TypeOK
  <2> QED
    BY <2>1 DEF Run
<1>2. run' = [run EXCEPT ![w] = x] /\ run \in [Workers -> Run]
  BY DEF Goto, Inv, TypeOK
<1> HIDE DEF x
<1> QED
  BY <1>1, <1>2

LEMMA NextOne ==
    ASSUME Inv, NEW w \in Workers, NextEvent(w), run[w].event \in Events
    PROVE  /\ run' \in [Workers -> Run]
           /\ \A v \in Workers : v # w => run'[v] = run[v]
           /\ run'[w].stage = "batch"
           /\ \A e \in Events :
                run'[w].tries[e] = IF e = run[w].event THEN 0 ELSE run[w].tries[e]
<1> DEFINE x == [run[w] EXCEPT !.stage = "batch", !.event = NoEvent, !.answer = NoAnswer,
                               !.tries[run[w].event] = 0]
           t == [run[w].tries EXCEPT ![run[w].event] = 0]
<1>1. run[w] \in Run /\ run[w].tries \in [Events -> Nat]
  BY DEF Inv, TypeOK, Run
<1>2. /\ t \in [Events -> Nat]
      /\ \A e \in Events : t[e] = IF e = run[w].event THEN 0 ELSE run[w].tries[e]
  BY <1>1
<1>3. x.tries = t /\ x.stage = "batch" /\ x.event = NoEvent /\ x.answer = NoAnswer
  BY <1>1 DEF Run
<1>4. x \in Run
  BY <1>1, <1>2 DEF Run, Stage
<1>5. run' = [run EXCEPT ![w] = x] /\ run \in [Workers -> Run]
  BY DEF NextEvent, Inv, TypeOK
<1> HIDE DEF x, t
<1> QED
  BY <1>2, <1>3, <1>4, <1>5

-----------------------------------------------------------------------------
(* The emitting application, the identities and time *)

LEMMA ReceiveKeepsInv ==
    ASSUME Inv, NEW E \in SUBSET Events, NEW said \in [E -> Contents], Receive(E, said)
    PROVE  Inv'
<1> USE DEF Inv, Receive
<1>1. /\ \A e \in Events : content'[e] = IF e \in E THEN said[e] ELSE content[e]
      /\ \A e \in Events : events'[e] = IF e \in E /\ events[e].status = "absent"
                                          THEN Received ELSE events[e]
  BY DEF TypeOK
<1>2. TypeOK'
  <2>1. content' \in [Events -> Contents \cup {NoContent}]
    BY DEF TypeOK
  <2>2. events' \in [Events -> Row] /\ \A e \in Events : RowOK(events'[e])
    BY NewRows, <1>1 DEF TypeOK
  <2> QED
    BY <2>1, <2>2 DEF TypeOK
<1>3. HolderKnowsItsAttempt'
  <2> SUFFICES ASSUME NEW w \in Workers, NEW e \in Events
               PROVE  /\ run[w].tries[e] > 0 => run[w].tries[e] <= events'[e].attempts
                      /\ run[w].tries[e] > 0 /\ HeldBy(events'[e], w) =>
                           run[w].tries[e] = events'[e].attempts
    BY DEF HolderKnowsItsAttempt
  <2>1. CASE events'[e] = events[e]
    BY <2>1 DEF HolderKnowsItsAttempt
  <2>2. CASE events[e].status = "absent"
    <3>1. events[e].attempts = 0
      BY <2>2, NewRows DEF RowInv
    <3>2. run[w].tries[e] \in Nat
      BY DEF TypeOK, Run
    <3>3. ~(run[w].tries[e] > 0)
      BY <3>1, <3>2 DEF HolderKnowsItsAttempt
    <3> QED
      BY <3>3
  <2> QED
    BY <1>1, <2>1, <2>2
<1>4. ConclusionIsEarned'
  BY <1>1, NewRows DEF ConclusionIsEarned
<1>5. \A w \in Workers : WorkerInv(w)'
  BY DEF WorkerInv
<1>6. \A e \in Events : RowInv(e)'
  BY <1>1, NewRows DEF RowInv, NoConflict
<1> QED
  BY <1>2, <1>3, <1>4, <1>5, <1>6

LEMMA SwitchKeepsInv == ASSUME Inv, NEW i \in People, SwitchIdentity(i) PROVE Inv'
<1> USE DEF Inv, SwitchIdentity
<1>1. TypeOK'
  BY DEF TypeOK
<1>2. HolderKnowsItsAttempt' /\ ConclusionIsEarned'
  BY DEF HolderKnowsItsAttempt, ConclusionIsEarned
<1>3. (\A w \in Workers : WorkerInv(w)') /\ (\A e \in Events : RowInv(e)')
  BY DEF WorkerInv, RowInv
<1> QED
  BY <1>1, <1>2, <1>3

LEMMA TickKeepsInv == ASSUME Inv, Tick PROVE Inv'
<1> USE DEF Inv, Tick
<1>1. /\ events' \in [Events -> Row]
      /\ \A e \in Events : /\ events'[e] = Older(events[e]) /\ RowOK(events'[e])
                            /\ events'[e].status = events[e].status
                            /\ events'[e].attempts = events[e].attempts
                            /\ events'[e].by = events[e].by
  BY OlderRow DEF TypeOK
<1>2. TypeOK'
  BY <1>1 DEF TypeOK
<1>3. HolderKnowsItsAttempt' /\ ConclusionIsEarned'
  BY <1>1 DEF HolderKnowsItsAttempt, ConclusionIsEarned, HeldBy
<1>4. \A w \in Workers : WorkerInv(w)'
  BY DEF WorkerInv
<1>5. \A e \in Events : RowInv(e)'
  <2>1. Older(NoRow) = NoRow
    BY DEF Older, OneLess, NoRow, Idle
  <2> QED
    BY <1>1, <2>1 DEF RowInv
<1> QED
  BY <1>2, <1>3, <1>4, <1>5

-----------------------------------------------------------------------------
(* A run of the consumer *)

LEMMA StartKeepsInv == ASSUME Inv, NEW w \in Workers, Start(w) PROVE Inv'
<1> USE DEF Start
<1>1. /\ run' \in [Workers -> Run] /\ \A v \in Workers : v # w => run'[v] = run[v]
      /\ run'[w].stage = "locked" /\ run'[w].tries = run[w].tries
  BY Going DEF Stage
<1>2. WorkerInv(w)'
  BY <1>1 DEF WorkerInv
<1> QED
  BY <1>1, <1>2, MovingKeepsInv DEF Inv, TypeOK

LEMMA ResolveKeepsInv ==
    ASSUME Inv, NEW w \in Workers, NEW e \in Events, NEW a \in Answers, Resolve(w, e, a)
    PROVE  Inv'
<1> DEFINE x == [run[w] EXCEPT !.stage = "resolved", !.event = e, !.answer = a]
<1>1. /\ x \in Run /\ x.stage = "resolved" /\ x.tries = run[w].tries
      /\ x.event = e /\ x.answer = a
  <2>1. run[w] \in Run /\ "resolved" \in Stage
    BY DEF Inv, TypeOK, Stage
  <2> QED
    BY <2>1 DEF Run
<1>2. run' = [run EXCEPT ![w] = x] /\ run \in [Workers -> Run]
  BY DEF Resolve, Inv, TypeOK
<1> HIDE DEF x
<1>3. /\ run' \in [Workers -> Run] /\ \A v \in Workers : v # w => run'[v] = run[v]
      /\ run'[w] = x
  BY <1>1, <1>2
<1>4. WorkerInv(w)'
  BY <1>1, <1>3 DEF WorkerInv, Remaining, Resolve
<1> QED
  BY <1>1, <1>3, <1>4, MovingKeepsInv DEF Inv, TypeOK, Resolve

LEMMA ResolveFailsKeepsInv ==
    ASSUME Inv, NEW w \in Workers, NEW e \in Events, ResolveFails(w, e)
    PROVE  Inv'
<1> DEFINE x == [run[w] EXCEPT !.stage = "failing", !.event = e]
<1>1. x \in Run /\ x.stage = "failing" /\ x.tries = run[w].tries /\ x.event = e
  <2>1. run[w] \in Run /\ "failing" \in Stage
    BY DEF Inv, TypeOK, Stage
  <2> QED
    BY <2>1 DEF Run
<1>2. run' = [run EXCEPT ![w] = x] /\ run \in [Workers -> Run]
  BY DEF ResolveFails, Inv, TypeOK
<1> HIDE DEF x
<1>3. /\ run' \in [Workers -> Run] /\ \A v \in Workers : v # w => run'[v] = run[v]
      /\ run'[w] = x
  BY <1>1, <1>2
<1>4. WorkerInv(w)'
  BY <1>1, <1>3 DEF WorkerInv, Remaining, ResolveFails
<1> QED
  BY <1>1, <1>3, <1>4, MovingKeepsInv DEF Inv, TypeOK, ResolveFails

LEMMA ClaimKeepsInv ==
    ASSUME Inv, NEW w \in Workers, NEW S \in SUBSET Events, NEW heard \in BOOLEAN,
           Claim(w, S, heard)
    PROVE  Inv'
<1> USE DEF Inv
<1>1. /\ events' \in [Events -> Row] /\ \A e \in Events : RowOK(events'[e])
      /\ \A e \in S : /\ events[e].status \in {"pending", "retry", "processing"}
                      /\ events'[e].status = "processing" /\ events'[e].by = w
                      /\ events'[e].attempts = events[e].attempts + 1
      /\ \A e \in Events \ S : events'[e] = events[e]
  BY ClaimedRow DEF TypeOK, Claim, Claimable
<1>2. /\ run' \in [Workers -> Run] /\ \A v \in Workers : v # w => run'[v] = run[v]
      /\ run'[w].stage \in {"batch", "closing"}
      /\ \A e \in Events : \/ run'[w].tries[e] = 0
                           \/ e \in S /\ run'[w].tries[e] = events'[e].attempts
  <2>1. CASE heard
    <3> DEFINE t == [e \in Events |-> IF e \in S THEN events[e].attempts + 1 ELSE 0]
               x == [run[w] EXCEPT !.stage = "batch", !.tries = t]
    <3>1. t \in [Events -> Nat]
      BY DEF TypeOK, Row
    <3>2. \A e \in Events : t[e] = 0 \/ (e \in S /\ t[e] = events'[e].attempts)
      BY <1>1
    <3> HIDE DEF t
    <3>3. x \in Run /\ x.stage = "batch" /\ x.tries = t
      <4>1. run[w] \in Run /\ "batch" \in Stage
        BY DEF TypeOK, Stage
      <4> QED
        BY <3>1, <4>1 DEF Run
    <3>4. run' = [run EXCEPT ![w] = x] /\ run \in [Workers -> Run]
      BY <2>1 DEF Claim, TypeOK, t
    <3> HIDE DEF x
    <3> QED
      BY <3>2, <3>3, <3>4
  <2>2. CASE ~heard
    BY <2>2, GivingUp DEF Claim
  <2> QED
    BY <2>1, <2>2
<1>3. TypeOK'
  BY <1>1, <1>2, HearsType DEF TypeOK, Claim
<1>4. HolderKnowsItsAttempt'
  <2> SUFFICES ASSUME NEW v \in Workers, NEW e \in Events, run'[v].tries[e] > 0
               PROVE  /\ run'[v].tries[e] <= events'[e].attempts
                      /\ HeldBy(events'[e], v) => run'[v].tries[e] = events'[e].attempts
    BY DEF HolderKnowsItsAttempt
  <2>1. events'[e].attempts \in Nat /\ events[e].attempts \in Nat /\ run'[v].tries[e] \in Nat
    BY <1>3 DEF TypeOK, Row, Run
  <2>2. CASE v = w
    BY <1>2, <2>1, <2>2
  <2>3. CASE v # w
    BY <1>1, <1>2, <2>1, <2>3 DEF HolderKnowsItsAttempt, HeldBy
  <2> QED
    BY <2>2, <2>3
<1>5. ConclusionIsEarned'
  BY <1>1 DEF ConclusionIsEarned, Claim
<1>6. \A v \in Workers : WorkerInv(v)'
  BY <1>2 DEF WorkerInv, Claim
<1>7. \A e \in Events : RowInv(e)'
  BY <1>1 DEF RowInv, Claim
<1> QED
  BY <1>3, <1>4, <1>5, <1>6, <1>7

LEMMA MaterializeKeepsInv ==
    ASSUME Inv, NEW w \in Workers, NEW heard \in BOOLEAN, Materialize(w, heard)
    PROVE  Inv'
<1> USE DEF Inv
<1> DEFINE e == run[w].event
           a == run[w].answer
<1>1. e \in Events /\ a \in Answers /\ run[w].tries[e] > 0
  BY DEF Materialize, WorkerInv
<1>2. /\ run' \in [Workers -> Run] /\ \A v \in Workers : v # w => run'[v] = run[v]
      /\ run'[w].tries = run[w].tries /\ run'[w].event = e
      /\ run'[w].stage \in {"materialized", "failing"}
      /\ run'[w].stage = "materialized" => Materializable(e, a) \/ resolution[e] = a
  <2>1. /\ Goto(w, IF heard /\ (Materializable(e, a) \/ resolution[e] = a)
                     THEN "materialized" ELSE "failing")
        /\ "materialized" \in Stage /\ "failing" \in Stage
    BY DEF Materialize, Stage
  <2> QED
    BY <2>1, Going
<1>3. /\ resolution' \in [Events -> Answers \cup {NoAnswer}]
      /\ \A x \in Events : resolution'[x] =
            IF x = e /\ Materializable(e, a) THEN a ELSE resolution[x]
  BY <1>1 DEF Materialize, TypeOK
<1>4. TypeOK'
  BY <1>2, <1>3, HearsType DEF TypeOK, Materialize
<1>5. HolderKnowsItsAttempt'
  BY <1>2 DEF HolderKnowsItsAttempt, Materialize
<1>6. ConclusionIsEarned'
  BY <1>1, <1>3 DEF ConclusionIsEarned, Materialize
<1>7. \A v \in Workers : WorkerInv(v)'
  BY <1>1, <1>2, <1>3 DEF WorkerInv
<1>8. \A x \in Events : RowInv(x)'
  BY <1>3 DEF RowInv, Materialize, Materializable
<1> QED
  BY <1>4, <1>5, <1>6, <1>7, <1>8

\* A worker that concludes its event at once forgets it or gives up.
LEMMA ConcludingKeepsInv ==
    ASSUME Inv, NEW w \in Workers, NEW e \in Events, NEW s \in {"retry", "processed", "quarantined"},
           NEW n \in Nat,
           HeldBy(events[e], w), events' = [events EXCEPT ![e] = Concluded(@, s, n)],
           s = "quarantined" => events[e].attempts >= MaxAttempts,
           s = "processed" => resolution[e] # NoAnswer,
           run' \in [Workers -> Run], \A v \in Workers : v # w => run'[v] = run[v],
           \A x \in Events : run'[w].tries[x] \in {0, run[w].tries[x]},
           WorkerInv(w)', UNCHANGED <<content, resolution, active, lock>>,
           faults' \in 0..MaxFaults
    PROVE  Inv'
<1> USE DEF Inv
<1>1. /\ events' \in [Events -> Row] /\ \A x \in Events : RowOK(events'[x])
      /\ events'[e].status = s /\ events'[e].by = NoWorker
      /\ events'[e].attempts = events[e].attempts
      /\ \A x \in Events : x # e => events'[x] = events[x]
  <2> DEFINE r == Concluded(events[e], s, n)
  <2>1. /\ r \in Row /\ RowOK(r) /\ r.status = s /\ r.by = NoWorker
        /\ r.attempts = events[e].attempts
    <3>1. events[e] \in Row /\ s \in RowStatus /\ s # "processing"
      BY DEF TypeOK, RowStatus
    <3>2. /\ Concluded(events[e], s, n) \in Row /\ RowOK(Concluded(events[e], s, n))
          /\ Concluded(events[e], s, n).status = s /\ Concluded(events[e], s, n).by = NoWorker
          /\ Concluded(events[e], s, n).attempts = events[e].attempts
      <4> HIDE DEF Inv
      <4> QED
        BY <3>1, ConcludedRow
    <3> QED
      BY <3>2
  <2>2. events' = [events EXCEPT ![e] = r]
    OBVIOUS
  <2> HIDE DEF r
  <2> QED
    BY <2>1, <2>2 DEF TypeOK
<1>2. TypeOK'
  BY <1>1 DEF TypeOK
<1>3. HolderKnowsItsAttempt'
  BY <1>1 DEF HolderKnowsItsAttempt, HeldBy
<1>4. ConclusionIsEarned'
  BY <1>1 DEF ConclusionIsEarned
<1>5. \A v \in Workers : WorkerInv(v)'
  BY DEF WorkerInv
<1>6. \A x \in Events : RowInv(x)'
  BY <1>1 DEF RowInv, HeldBy
<1> QED
  BY <1>2, <1>3, <1>4, <1>5, <1>6

\* The worker is at its event.
LEMMA AtItsEvent ==
    ASSUME Inv, NEW w \in Workers, run[w].stage \in {"resolved", "materialized", "failing"}
    PROVE  /\ run[w].event \in Events
           /\ run[w].tries[run[w].event] \in Nat /\ run[w].tries[run[w].event] > 0
           /\ HeldBy(events[run[w].event], w) =>
                 run[w].tries[run[w].event] = events[run[w].event].attempts
BY DEF Inv, WorkerInv, HolderKnowsItsAttempt, TypeOK, Run

LEMMA CompleteKeepsInv ==
    ASSUME Inv, NEW w \in Workers, NEW heard \in BOOLEAN, Complete(w, heard)
    PROVE  Inv'
<1> DEFINE held == HeldBy(events[run[w].event], w)
<1>1. run[w].event \in Events /\ run[w].tries[run[w].event] > 0
  BY AtItsEvent DEF Complete
<1>2. /\ run' \in [Workers -> Run] /\ \A v \in Workers : v # w => run'[v] = run[v]
      /\ \A x \in Events : run'[w].tries[x] \in {0, run[w].tries[x]}
      /\ WorkerInv(w)'
  <2>1. CASE heard /\ held
    <3>1. NextEvent(w)
      BY <2>1 DEF Complete
    <3> QED
      BY <1>1, <3>1, NextOne DEF WorkerInv
  <2>2. CASE ~(heard /\ held)
    <3>1. Goto(w, "failing") /\ "failing" \in Stage
      BY <2>2 DEF Complete, Stage
    <3> QED
      BY <1>1, <3>1, Going DEF WorkerInv
  <2> QED
    BY <2>1, <2>2
<1>3. faults' \in 0..MaxFaults
  BY HearsType DEF Complete
<1>4. CASE held
  <2>1. resolution[run[w].event] # NoAnswer
    BY DEF Inv, WorkerInv, Complete
  <2>2. events' = [events EXCEPT ![run[w].event] = Concluded(@, "processed", 0)]
    BY <1>4 DEF Complete
  <2> QED
    BY <1>1, <1>2, <1>3, <1>4, <2>1, <2>2, ConcludingKeepsInv DEF Complete
<1>5. CASE ~held
  BY <1>2, <1>3, <1>5, MovingKeepsInv DEF Complete, tables, Inv, TypeOK
<1> QED
  BY <1>4, <1>5

LEMMA FailEventKeepsInv ==
    ASSUME Inv, NEW w \in Workers, NEW heard \in BOOLEAN, FailEvent(w, heard)
    PROVE  Inv'
<1> DEFINE e == run[w].event
           attempt == run[w].tries[e]
           held == HeldBy(events[e], w)
<1>1. /\ e \in Events /\ attempt \in Nat /\ attempt > 0
      /\ held => attempt = events[e].attempts
  BY AtItsEvent DEF FailEvent
<1>2. /\ run' \in [Workers -> Run] /\ \A v \in Workers : v # w => run'[v] = run[v]
      /\ \A x \in Events : run'[w].tries[x] \in {0, run[w].tries[x]}
      /\ WorkerInv(w)'
  <2>1. CASE heard /\ held
    <3>1. NextEvent(w)
      BY <2>1 DEF FailEvent
    <3> QED
      BY <1>1, <3>1, NextOne DEF WorkerInv
  <2>2. CASE ~(heard /\ held)
    <3>1. GiveUp(w)
      BY <2>2 DEF FailEvent
    <3> QED
      BY <3>1, GivingUp DEF WorkerInv
  <2> QED
    BY <2>1, <2>2
<1>3. faults' \in 0..MaxFaults
  BY HearsType DEF FailEvent
<1>4. CASE held /\ Spent(attempt)
  <2>1. events' = [events EXCEPT ![e] = Concluded(@, "quarantined", 0)]
    BY <1>4 DEF FailEvent
  <2>2. events[e].attempts >= MaxAttempts
    BY <1>1, <1>4 DEF Spent
  <2> QED
    BY <1>1, <1>2, <1>3, <1>4, <2>1, <2>2, ConcludingKeepsInv DEF FailEvent
<1>5. CASE held /\ ~Spent(attempt)
  <2>1. events' = [events EXCEPT ![e] = Concluded(@, "retry", RetryDelay(attempt))]
    BY <1>5 DEF FailEvent
  <2>2. RetryDelay(attempt) \in Nat
    BY <1>1, RetryDelayType
  <2> QED
    BY <1>1, <1>2, <1>3, <1>5, <2>1, <2>2, ConcludingKeepsInv DEF FailEvent
<1>6. CASE ~held
  BY <1>2, <1>3, <1>6, MovingKeepsInv DEF FailEvent, tables, Inv, TypeOK
<1> QED
  BY <1>4, <1>5, <1>6

-----------------------------------------------------------------------------
(* The end of a run, and faults *)

LEMMA FinishKeepsInv == ASSUME Inv, NEW w \in Workers, Finish(w) PROVE Inv'
BY LeavingKeepsInv DEF Finish, tables, Inv, TypeOK

LEMMA CrashKeepsInv == ASSUME Inv, NEW w \in Workers, Crash(w) PROVE Inv'
BY LeavingKeepsInv, FaultType DEF Crash, tables

LEMMA LoseLockKeepsInv == ASSUME Inv, NEW w \in Workers, LoseLock(w) PROVE Inv'
<1>1. WorkerInv(w)'
  BY DEF LoseLock, WorkerInv, Inv, tables
<1>2. run' \in [Workers -> Run] /\ \A v \in Workers : run'[v] = run[v]
  BY DEF LoseLock, Inv, TypeOK
<1> QED
  BY <1>1, <1>2, MovingKeepsInv, FaultType DEF LoseLock, Inv, TypeOK

LEMMA RegistryFailsKeepsInv == ASSUME Inv, NEW w \in Workers, RegistryFails(w) PROVE Inv'
<1>1. /\ run' \in [Workers -> Run] /\ \A v \in Workers : v # w => run'[v] = run[v]
      /\ \A x \in Events : run'[w].tries[x] \in {0, run[w].tries[x]}
      /\ WorkerInv(w)'
  <2>1. CASE run[w].stage \in {"resolved", "materialized"} /\ Goto(w, "failing")
    BY <2>1, Going, AtItsEvent DEF Stage, WorkerInv
  <2>2. CASE GiveUp(w)
    BY <2>2, GivingUp DEF WorkerInv
  <2> QED
    BY <2>1, <2>2 DEF RegistryFails
<1> QED
  BY <1>1, MovingKeepsInv, FaultType DEF RegistryFails, Inv, TypeOK

LEMMA StutterKeepsInv == ASSUME Inv, UNCHANGED vars PROVE Inv'
<1> USE DEF Inv, vars
<1>1. TypeOK'
  BY DEF TypeOK
<1>2. HolderKnowsItsAttempt' /\ ConclusionIsEarned'
  BY DEF HolderKnowsItsAttempt, ConclusionIsEarned
<1>3. (\A w \in Workers : WorkerInv(w)') /\ (\A e \in Events : RowInv(e)')
  BY DEF WorkerInv, RowInv
<1> QED
  BY <1>1, <1>2, <1>3

LEMMA StepKeepsInv == Inv /\ [Next]_vars => Inv'
<1> SUFFICES ASSUME Inv, [Next]_vars PROVE Inv'
  OBVIOUS
<1>1. ASSUME NEW E \in SUBSET Events, NEW said \in [E -> Contents], Receive(E, said) PROVE Inv'
  BY <1>1, ReceiveKeepsInv
<1>2. ASSUME NEW i \in People, SwitchIdentity(i) PROVE Inv'
  BY <1>2, SwitchKeepsInv
<1>3. CASE Tick
  BY <1>3, TickKeepsInv
<1>4. ASSUME NEW w \in Workers, WorkerStep(w) PROVE Inv'
  BY <1>4, StartKeepsInv, ClaimKeepsInv, ResolveKeepsInv, ResolveFailsKeepsInv,
     MaterializeKeepsInv, CompleteKeepsInv, FailEventKeepsInv, FinishKeepsInv DEF WorkerStep
<1>5. ASSUME NEW w \in Workers, FaultStep(w) PROVE Inv'
  BY <1>5, CrashKeepsInv, LoseLockKeepsInv, RegistryFailsKeepsInv, ClaimKeepsInv,
     MaterializeKeepsInv, CompleteKeepsInv, FailEventKeepsInv DEF FaultStep
<1>6. CASE UNCHANGED vars
  BY <1>6, StutterKeepsInv
<1> QED
  BY <1>1, <1>2, <1>3, <1>4, <1>5, <1>6 DEF Next

\* The queue of events: a worker that holds an event knows its attempt
\* number, an event is quarantined only after the allowed number of attempts
\* and processed only when its resolution is in the registry - whatever
\* runs overlap, die or lose their lock (notification-consumer.mjs and
\* the statements of mariadb.mjs).
THEOREM QueueInvariant == Spec => []Inv
<1>1. Init => Inv
  BY InitInv
<1>2. Inv /\ [Next]_vars => Inv'
  BY StepKeepsInv
<1> QED
  BY <1>1, <1>2, PTL DEF Spec

\* An event is never quarantined before the allowed number of attempts, nor
\* declared processed without a resolution in the registry.
THEOREM ConclusionsAreEarned == Spec => []ConclusionIsEarned
<1>1. Inv => ConclusionIsEarned
  BY DEF Inv
<1> QED
  BY <1>1, QueueInvariant, PTL

-----------------------------------------------------------------------------
(* Who concludes an attempt *)

LEMMA OthersKeepProcessing ==
    ASSUME Inv, NEW e \in Events, events[e].status = "processing"
    PROVE  /\ Tick => events'[e].status = "processing"
           /\ \A E \in SUBSET Events : \A said \in [E -> Contents] :
                Receive(E, said) => events'[e].status = "processing"
           /\ \A w \in Workers, S \in SUBSET Events, heard \in BOOLEAN :
                Claim(w, S, heard) => events'[e].status = "processing"
<1>1. events[e] \in Row /\ RowOK(events[e])
  BY DEF Inv, TypeOK
<1>2. Older(events[e]).status = "processing"
  BY <1>1, OlderRow
<1>3. \A w \in Workers : Claimed(events[e], w).status = "processing"
  BY <1>1, ClaimedRow
<1> QED
  BY <1>2, <1>3 DEF Tick, Receive, Claim

LEMMA HolderStep ==
    ASSUME Inv, NEW w \in Workers, NEW heard \in BOOLEAN, NEW e \in Events,
           Complete(w, heard) \/ FailEvent(w, heard),
           events[e].status = "processing", events'[e].status # "processing"
    PROVE  /\ events[e].by = w /\ run[w].event = e /\ run'[w] # run[w]
           /\ run[w].tries[e] = events[e].attempts
<1>1. run[w].stage \in {"materialized", "failing"}
  BY DEF Complete, FailEvent
<1>2. run[w].event \in Events
  BY <1>1, AtItsEvent
<1>3. run[w].event = e /\ HeldBy(events[e], w)
  BY <1>2 DEF Complete, FailEvent, Inv, TypeOK
<1>4. run'[w].stage # run[w].stage
  BY <1>1, <1>2, NextOne, Going, GivingUp DEF Complete, FailEvent, Stage
<1> QED
  BY <1>1, <1>3, <1>4, AtItsEvent DEF HeldBy

\* An attempt is concluded only by the worker whose claim is the latest one,
\* which knows the number of that attempt (WHERE status = 'processing' AND
\* claimed_by = ?).
THEOREM OnlyTheHolderConcludes == Spec => HolderConcludes
<1>1. Inv /\ [Next]_vars =>
        [\A e \in Events :
           events[e].status = "processing" /\ events'[e].status # "processing" =>
             \E w \in Workers :
                /\ events[e].by = w /\ run[w].event = e /\ run'[w] # run[w]
                /\ run[w].tries[e] = events[e].attempts]_vars
  <2> SUFFICES ASSUME Inv, Next, NEW e \in Events,
                      events[e].status = "processing", events'[e].status # "processing"
               PROVE  \E w \in Workers :
                         /\ events[e].by = w /\ run[w].event = e /\ run'[w] # run[w]
                         /\ run[w].tries[e] = events[e].attempts
    OBVIOUS
  <2>1. \E w \in Workers : \E heard \in BOOLEAN : Complete(w, heard) \/ FailEvent(w, heard)
    <3>1. events' # events
      OBVIOUS
    <3>2. ~ \E i \in People : SwitchIdentity(i)
      BY <3>1 DEF SwitchIdentity
    <3>3. PICK w \in Workers : WorkerStep(w) \/ FaultStep(w)
      BY <3>2, OthersKeepProcessing DEF Next
    <3>4. ~Start(w) /\ ~Finish(w) /\ ~Crash(w) /\ ~LoseLock(w) /\ ~RegistryFails(w)
      BY <3>1 DEF Start, Finish, Crash, LoseLock, RegistryFails, tables
    <3>5. /\ \A x \in Events : ~ResolveFails(w, x) /\ \A a \in Answers : ~Resolve(w, x, a)
          /\ \A heard \in BOOLEAN : ~Materialize(w, heard)
      BY <3>1 DEF ResolveFails, Resolve, Materialize, tables
    <3> QED
      BY <3>3, <3>4, <3>5, OthersKeepProcessing DEF WorkerStep, FaultStep
  <2> QED
    BY <2>1, HolderStep
<1> QED
  BY <1>1, QueueInvariant, PTL DEF Spec, HolderConcludes

-----------------------------------------------------------------------------
(* The promise made to the emitting application *)

LEMMA OutcomeType ==
    ASSUME NEW r PROVE Outcome(r) = "open" <=> r.status \notin {"processed", "quarantined"}
BY DEF Outcome

LEMMA ReceiveAccepts ==
    ASSUME Inv, NEW E \in SUBSET Events, NEW said \in [E -> Contents], Receive(E, said)
    PROVE  [Promise!PromiseNext]_(Promise!promiseVars)
<1> DEFINE A == {e \in E : events[e].status = "absent"}
           kept == [e \in A |-> said[e]]
<1>1. \A e \in Events : content'[e] = IF e \in A THEN kept[e] ELSE content[e]
  BY DEF Receive, NoConflict
<1>2. \A e \in A : content[e] = NoContent
  BY DEF Inv, RowInv
<1>3. kept \in [A -> Contents] /\ A \in SUBSET Events
  OBVIOUS
<1>4. [e \in Events |-> Outcome(events[e])]' = [e \in Events |-> Outcome(events[e])]
  <2>1. \A e \in Events : Outcome(events'[e]) = Outcome(events[e])
    BY NewRows DEF Receive, Outcome
  <2> QED
    BY <2>1
<1>5. content' = [e \in Events |-> IF e \in A THEN kept[e] ELSE content[e]]
  BY <1>1 DEF Receive
<1> HIDE DEF kept
<1>6. CASE A = {}
  <2>1. content' = content
    BY <1>5, <1>6 DEF Inv, TypeOK
  <2> QED
    BY <1>4, <2>1 DEF Receive, Promise!promiseVars
<1>7. CASE A # {}
  <2> HIDE DEF A
  <2>1. Promise!Accept(A)
    BY <1>2, <1>3, <1>4, <1>5 DEF Promise!Accept, Receive
  <2> QED
    BY <1>3, <1>7, <2>1 DEF Promise!PromiseNext
<1> QED
  BY <1>6, <1>7

\* What a step that writes neither the contents nor the resolutions, and
\* settles no event, is for the application: nothing.
LEMMA OthersStutter ==
    ASSUME content' = content, resolution' = resolution,
           \A e \in Events : Outcome(events'[e]) = Outcome(events[e])
    PROVE  UNCHANGED Promise!promiseVars
<1>1. [e \in Events |-> Outcome(events[e])]' = [e \in Events |-> Outcome(events[e])]
  OBVIOUS
<1> QED
  BY <1>1 DEF Promise!promiseVars

LEMMA MaterializeDecides ==
    ASSUME Inv, NEW w \in Workers, NEW heard \in BOOLEAN, Materialize(w, heard)
    PROVE  [Promise!PromiseNext]_(Promise!promiseVars)
<1>1. PICK e \in Events, a \in Answers : e = run[w].event /\ a = run[w].answer
  BY DEF Inv, WorkerInv, Materialize
<1>2. CASE Materializable(e, a)
  <2>1. resolution' = [resolution EXCEPT ![e] = a]
    BY <1>1, <1>2 DEF Materialize
  <2>2. content[e] # NoContent /\ resolution[e] = NoAnswer /\ Outcome(events[e]) = "open"
    BY <1>2 DEF Materializable, Outcome, Inv, RowInv
  <2>3. Promise!DecideOnce(e, a)
    BY <2>1, <2>2 DEF Promise!DecideOnce, Materialize
  <2> QED
    BY <2>3 DEF Promise!PromiseNext
<1>3. CASE ~Materializable(e, a)
  BY <1>1, <1>3, OthersStutter DEF Materialize
<1> QED
  BY <1>2, <1>3

\* The end of an attempt, seen by the application.
LEMMA ConclusionShows ==
    ASSUME Inv, NEW w \in Workers, NEW e \in Events, HeldBy(events[e], w),
           NEW s \in {"retry", "processed", "quarantined"}, NEW n,
           events' = [events EXCEPT ![e] = Concluded(@, s, n)],
           s = "processed" => resolution[e] # NoAnswer,
           UNCHANGED <<content, resolution>>
    PROVE  [Promise!PromiseNext]_(Promise!promiseVars)
<1> DEFINE outcomes == [x \in Events |-> Outcome(events[x])]
<1>1. events[e] \in Row /\ events[e].status = "processing" /\ content[e] # NoContent
  BY DEF Inv, TypeOK, HeldBy, RowInv
<1>2. Outcome(events[e]) = "open" /\ Concluded(events[e], s, n).status = s
  BY <1>1 DEF Outcome, Concluded, Row
<1>3. /\ events'[e].status = s
      /\ \A x \in Events : x # e => events'[x] = events[x]
  BY <1>2 DEF Inv, TypeOK
<1>4. CASE s = "retry"
  BY <1>2, <1>3, <1>4, OthersStutter DEF Outcome
<1>5. CASE s # "retry"
  <2>1. outcomes' = [outcomes EXCEPT ![e] = s]
    BY <1>3, <1>5 DEF Outcome
  <2>2. Promise!Settle(e) \/ Promise!SetAside(e)
    BY <1>1, <1>2, <1>5, <2>1 DEF Promise!Settle, Promise!SetAside
  <2> QED
    BY <2>2 DEF Promise!PromiseNext
<1> QED
  BY <1>4, <1>5

LEMMA CompleteSettles ==
    ASSUME Inv, NEW w \in Workers, NEW heard \in BOOLEAN, Complete(w, heard)
    PROVE  [Promise!PromiseNext]_(Promise!promiseVars)
<1>1. PICK e \in Events : e = run[w].event /\ resolution[e] # NoAnswer
  BY DEF Inv, WorkerInv, Complete
<1>2. CASE HeldBy(events[e], w)
  <2>1. events' = [events EXCEPT ![e] = Concluded(@, "processed", 0)]
    BY <1>1, <1>2 DEF Complete
  <2> QED
    BY <1>1, <1>2, <2>1, ConclusionShows DEF Complete
<1>3. CASE ~HeldBy(events[e], w)
  BY <1>1, <1>3, OthersStutter DEF Complete
<1> QED
  BY <1>2, <1>3

LEMMA FailEventSetsAside ==
    ASSUME Inv, NEW w \in Workers, NEW heard \in BOOLEAN, FailEvent(w, heard)
    PROVE  [Promise!PromiseNext]_(Promise!promiseVars)
<1>1. PICK e \in Events : e = run[w].event
  BY DEF Inv, WorkerInv, FailEvent
<1>2. CASE HeldBy(events[e], w)
  <2>1. PICK s \in {"retry", "quarantined"}, n \in {0, RetryDelay(run[w].tries[e])} :
           events' = [events EXCEPT ![e] = Concluded(@, s, n)]
    BY <1>1, <1>2 DEF FailEvent
  <2> QED
    BY <1>2, <2>1, ConclusionShows DEF FailEvent
<1>3. CASE ~HeldBy(events[e], w)
  BY <1>1, <1>3, OthersStutter DEF FailEvent
<1> QED
  BY <1>2, <1>3

LEMMA TickAndClaimStutter ==
    ASSUME Inv, \/ Tick
                \/ \E w \in Workers, S \in SUBSET Events, heard \in BOOLEAN : Claim(w, S, heard)
    PROVE  UNCHANGED Promise!promiseVars
<1>1. ASSUME NEW e \in Events PROVE Outcome(events'[e]) = Outcome(events[e])
  <2>1. events[e] \in Row /\ RowOK(events[e])
    BY DEF Inv, TypeOK
  <2>2. CASE Tick
    BY <2>1, <2>2, OlderRow DEF Tick, Outcome
  <2>3. ASSUME NEW w \in Workers, NEW S \in SUBSET Events, NEW heard \in BOOLEAN,
               Claim(w, S, heard)
        PROVE  Outcome(events'[e]) = Outcome(events[e])
    <3>1. Claimed(events[e], w).status = "processing"
      BY <2>1, ClaimedRow
    <3> QED
      BY <2>3, <3>1 DEF Claim, Claimable, Outcome
  <2> QED
    BY <2>2, <2>3
<1>2. content' = content /\ resolution' = resolution
  BY DEF Tick, Claim
<1> QED
  BY <1>1, <1>2, OthersStutter

LEMMA QuietStepsStutter ==
    ASSUME Inv, NEW w \in Workers,
           \/ Start(w) \/ Finish(w) \/ Crash(w) \/ LoseLock(w) \/ RegistryFails(w)
           \/ \E e \in Events : ResolveFails(w, e) \/ \E a \in Answers : Resolve(w, e, a)
    PROVE  UNCHANGED Promise!promiseVars
<1>1. content' = content /\ resolution' = resolution /\ events' = events
  BY DEF Start, Finish, Crash, LoseLock, RegistryFails, ResolveFails, Resolve,
         tables
<1> QED
  BY <1>1, OthersStutter

\* Whatever the workers, the leases, the retries and the faults do, the
\* application sees what it was promised: its event is kept as handed over,
\* decided upon at most once, and processed only after the decision.
THEOREM QueueKeepsItsPromise == Spec => KeepsPromise
<1>1. Init => Promise!PromiseInit
  BY NewRows DEF Init, Promise!PromiseInit, Outcome
<1>2. Inv /\ [Next]_vars => [Promise!PromiseNext]_(Promise!promiseVars)
  <2> SUFFICES ASSUME Inv, [Next]_vars PROVE [Promise!PromiseNext]_(Promise!promiseVars)
    OBVIOUS
  <2>1. ASSUME NEW E \in SUBSET Events, NEW said \in [E -> Contents], Receive(E, said)
        PROVE  [Promise!PromiseNext]_(Promise!promiseVars)
    BY <2>1, ReceiveAccepts
  <2>2. CASE Tick
    BY <2>2, TickAndClaimStutter
  <2>3. ASSUME NEW i \in People, SwitchIdentity(i) PROVE UNCHANGED Promise!promiseVars
    BY <2>3, OthersStutter DEF SwitchIdentity
  <2>4. ASSUME NEW w \in Workers, WorkerStep(w) \/ FaultStep(w)
        PROVE  [Promise!PromiseNext]_(Promise!promiseVars)
    BY <2>4, TickAndClaimStutter, QuietStepsStutter, MaterializeDecides, CompleteSettles,
       FailEventSetsAside DEF WorkerStep, FaultStep
  <2>5. CASE UNCHANGED vars
    BY <2>5, OthersStutter DEF vars
  <2> QED
    BY <2>1, <2>2, <2>3, <2>4, <2>5 DEF Next
<1> QED
  BY <1>1, <1>2, QueueInvariant, PTL DEF Spec, KeepsPromise, Promise!PromiseSpec
=============================================================================
