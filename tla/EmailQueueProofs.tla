-------------------------- MODULE EmailQueueProofs ---------------------------
(***************************************************************************)
(* Proofs about EmailQueue for every value of its constants: any number of *)
(* workers, of deliveries and of recipients, any lease, any delays, any    *)
(* size of batch and any number of faults.                                 *)
(***************************************************************************)
EXTENDS EmailQueue, FiniteSetTheorems, TLAPS

USE DeliveryAssumption, LeaseAssumption DEF DeliveryAssumption, LeaseAssumption

-----------------------------------------------------------------------------
(* Rows (the lemmas of NotificationQueueProofs on the same statements) *)

LEMMA RetryDelayType == ASSUME NEW n \in Nat, n > 0 PROVE RetryDelay(n) \in Nat
<1> DEFINE k == AtMost(n, 20)
<1>1. k \in 1..20
  BY DEF AtMost
<1>2. Doublings[k] \in Nat
  BY <1>1 DEF Doublings
<1> HIDE DEF k
<1>3. ASSUME NEW a \in Nat PROVE BaseDelay * a \in Nat
  OBVIOUS
<1>4. BaseDelay * Doublings[k] \in Nat
  BY <1>2, <1>3
<1> QED
  BY <1>4 DEF RetryDelay, Backoff, k

LEMMA OlderRow ==
    ASSUME NEW r \in Row, RowOK(r)
    PROVE  /\ Older(r) \in Row /\ RowOK(Older(r))
           /\ Older(r).status = r.status /\ Older(r).attempts = r.attempts
           /\ Older(r).by = r.by
<1>1. Older(r) \in Row
  <2>1. OneLess(r.wait) \in Nat /\ OneLess(r.lease) \in Nat
    BY DEF OneLess, Row
  <2> QED
    BY <2>1 DEF Older, Row
<1>2. Older(r).status = r.status /\ Older(r).attempts = r.attempts /\ Older(r).by = r.by
  BY DEF Older, Row
<1> QED
  BY <1>1, <1>2 DEF RowOK

LEMMA ClaimedRow ==
    ASSUME NEW r \in Row, NEW w \in Workers
    PROVE  /\ Claimed(r, w) \in Row /\ RowOK(Claimed(r, w))
           /\ Claimed(r, w).status = "processing" /\ Claimed(r, w).by = w
           /\ Claimed(r, w).attempts = r.attempts + 1
<1>1. Claimed(r, w) \in Row
  <2>1. "processing" \in RowStatus /\ r.attempts + 1 \in Nat
    BY DEF RowStatus, Row
  <2> QED
    BY <2>1 DEF Claimed, Row
<1>2. /\ Claimed(r, w).status = "processing" /\ Claimed(r, w).by = w
      /\ Claimed(r, w).attempts = r.attempts + 1
  BY DEF Claimed, Row
<1> QED
  BY <1>1, <1>2 DEF RowOK

LEMMA ConcludedRow ==
    ASSUME NEW r \in Row, NEW s \in RowStatus, s # "processing", NEW n \in Nat
    PROVE  /\ Concluded(r, s, n) \in Row /\ RowOK(Concluded(r, s, n))
           /\ Concluded(r, s, n).status = s /\ Concluded(r, s, n).by = NoWorker
           /\ Concluded(r, s, n).attempts = r.attempts
BY DEF Concluded, Row, RowOK, RowStatus

LEMMA EnqueuedRow ==
    ASSUME NEW s \in {"absent", "pending", "blocked"}
    PROVE  /\ Idle(s, 0) \in Row /\ RowOK(Idle(s, 0))
           /\ Idle(s, 0).status = s /\ Idle(s, 0).attempts = 0 /\ Idle(s, 0).by = NoWorker
BY DEF Idle, Row, RowOK, RowStatus

LEMMA RunTypes ==
    /\ NoTries \in [Deliveries -> Nat] /\ \A d \in Deliveries : NoTries[d] = 0
    /\ NoRun \in Run /\ NoRun.stage = "off" /\ NoRun.tries = NoTries
BY DEF NoTries, NoRun, Run, Stage

-----------------------------------------------------------------------------
(* Counting *)

LEMMA Fewer ==
    ASSUME NEW S, IsFiniteSet(S), NEW T, T \subseteq S
    PROVE  /\ IsFiniteSet(T) /\ Cardinality(T) \in Nat /\ Cardinality(S) \in Nat
           /\ Cardinality(T) <= Cardinality(S)
BY FS_Subset, FS_CardinalityType

LEMMA OneMore ==
    ASSUME NEW S, IsFiniteSet(S), NEW x, NEW T, T \subseteq S \cup {x}
    PROVE  /\ IsFiniteSet(T) /\ Cardinality(T) \in Nat /\ Cardinality(S) \in Nat
           /\ Cardinality(T) <= Cardinality(S) + 1
<1>1. IsFiniteSet(S \cup {x}) /\ Cardinality(S \cup {x}) <= Cardinality(S) + 1
  <2>1. Cardinality(S) \in Nat
    BY FS_CardinalityType
  <2>2. /\ IsFiniteSet(S \cup {x})
        /\ Cardinality(S \cup {x}) = IF x \in S THEN Cardinality(S) ELSE Cardinality(S) + 1
    BY FS_AddElement
  <2> QED
    BY <2>1, <2>2
<1> QED
  BY <1>1, Fewer, FS_CardinalityType

LEMMA OneUsed ==
    ASSUME NEW S, IsFiniteSet(S), NEW x \in S, NEW T, T \subseteq S \ {x}
    PROVE  /\ IsFiniteSet(T) /\ Cardinality(T) \in Nat /\ Cardinality(S) \in Nat
           /\ Cardinality(T) + 1 <= Cardinality(S)
<1>1. IsFiniteSet(S \ {x}) /\ Cardinality(S \ {x}) = Cardinality(S) - 1
  BY FS_RemoveElement
<1> QED
  BY <1>1, Fewer, FS_CardinalityType

LEMMA Typed ==
    ASSUME Accounts, NEW d \in Deliveries
    PROVE  /\ deliveries[d] \in Row /\ RowOK(deliveries[d])
           /\ deliveries[d].attempts \in Nat /\ sent[d] \in Nat
           /\ \A w \in Workers : run[w] \in Run /\ run[w].tries[d] \in Nat
           /\ IsFiniteSet(Ready(d)) /\ Cardinality(Ready(d)) \in Nat
           /\ sent[d] + Cardinality(Ready(d)) <= deliveries[d].attempts
BY FS_CardinalityType DEF Accounts, TypeOK, Row, Run, AttemptsCoverSends

LEMMA InitAccounts == Init => Accounts
<1> SUFFICES ASSUME Init PROVE Accounts
  OBVIOUS
<1>1. TypeOK
  BY EnqueuedRow, RunTypes DEF Init, TypeOK, NoRow
<1>2. OnlyDueAreSent /\ \A d \in Deliveries : deliveries[d].status = "absent"
  BY EnqueuedRow DEF Init, OnlyDueAreSent, NoRow
<1>3. ASSUME NEW w \in Workers PROVE Remaining(w) = {} /\ WorkerInv(w)
  <2>1. run[w].stage = "off" /\ \A d \in Deliveries : run[w].tries[d] = 0
    BY RunTypes DEF Init
  <2>2. Remaining(w) = {}
    BY <2>1 DEF Remaining
  <2> QED
    BY <2>1, <2>2 DEF WorkerInv
<1>4. AttemptsCoverSends
  <2>1. \A d \in Deliveries : Ready(d) = {}
    BY <1>3 DEF Ready
  <2> QED
    BY <2>1, FS_EmptySet, EnqueuedRow DEF Init, AttemptsCoverSends, NoRow
<1> QED
  BY <1>1, <1>2, <1>3, <1>4 DEF Accounts

-----------------------------------------------------------------------------
(* How a worker moves *)

LEMMA FaultType == ASSUME Accounts, Fault PROVE faults' \in 0..MaxFaults
BY DEF Accounts, TypeOK, Fault

LEMMA HearsType == ASSUME Accounts, NEW heard, Hears(heard) PROVE faults' \in 0..MaxFaults
BY DEF Accounts, TypeOK, Hears

LEMMA GivingUp ==
    ASSUME Accounts, NEW w \in Workers, GiveUp(w)
    PROVE  /\ run' \in [Workers -> Run]
           /\ \A v \in Workers : v # w => run'[v] = run[v]
           /\ run'[w].stage = "closing" /\ \A d \in Deliveries : run'[w].tries[d] = 0
BY RunTypes DEF Accounts, TypeOK, GiveUp, NoRun, Run, Stage, NoTries

LEMMA Going ==
    ASSUME Accounts, NEW w \in Workers, NEW s \in Stage, Goto(w, s)
    PROVE  /\ run' \in [Workers -> Run]
           /\ \A v \in Workers : v # w => run'[v] = run[v]
           /\ run'[w].stage = s /\ run'[w].tries = run[w].tries
           /\ run'[w].delivery = run[w].delivery
<1> DEFINE x == [run[w] EXCEPT !.stage = s]
<1>1. x \in Run /\ x.stage = s /\ x.tries = run[w].tries /\ x.delivery = run[w].delivery
  <2>1. run[w] \in Run
    BY DEF Accounts, TypeOK
  <2> QED
    BY <2>1 DEF Run
<1>2. run' = [run EXCEPT ![w] = x] /\ run \in [Workers -> Run]
  BY DEF Goto, Accounts, TypeOK
<1> HIDE DEF x
<1> QED
  BY <1>1, <1>2

LEMMA NextOne ==
    ASSUME Accounts, NEW w \in Workers, NextDelivery(w), run[w].delivery \in Deliveries
    PROVE  /\ run' \in [Workers -> Run]
           /\ \A v \in Workers : v # w => run'[v] = run[v]
           /\ run'[w].stage = "batch"
           /\ \A d \in Deliveries :
                run'[w].tries[d] = IF d = run[w].delivery THEN 0 ELSE run[w].tries[d]
<1> DEFINE x == [run[w] EXCEPT !.stage = "batch", !.delivery = NoDelivery, !.rejected = FALSE,
                               !.tries[run[w].delivery] = 0]
           t == [run[w].tries EXCEPT ![run[w].delivery] = 0]
<1>1. run[w] \in Run /\ run[w].tries \in [Deliveries -> Nat]
  BY DEF Accounts, TypeOK, Run
<1>2. /\ t \in [Deliveries -> Nat]
      /\ \A d \in Deliveries : t[d] = IF d = run[w].delivery THEN 0 ELSE run[w].tries[d]
  BY <1>1
<1>3. x.tries = t /\ x.stage = "batch" /\ x.delivery = NoDelivery /\ x.rejected = FALSE
  BY <1>1 DEF Run
<1>4. x \in Run
  BY <1>1, <1>2 DEF Run, Stage
<1>5. run' = [run EXCEPT ![w] = x] /\ run \in [Workers -> Run]
  BY DEF NextDelivery, Accounts, TypeOK
<1> HIDE DEF x, t
<1> QED
  BY <1>2, <1>3, <1>4, <1>5

-----------------------------------------------------------------------------
(* Every mail has its own attempt: the steps of one worker *)

\* A worker that forgets some of its deliveries, and moves, keeps the
\* accounts unless it becomes able to send again.
LEMMA MovingKeepsAccounts ==
    ASSUME Accounts, NEW w \in Workers, run' \in [Workers -> Run],
           \A v \in Workers : v # w => run'[v] = run[v],
           \A d \in Deliveries : run'[w].tries[d] \in {0, run[w].tries[d]},
           WorkerInv(w)',
           \A d \in Deliveries : At(w, d) => At(w, d)' \/ run'[w].tries[d] = 0,
           UNCHANGED <<deliveries, sent>>, active' \subseteq People,
           lock' \in Workers \cup {NoWorker}, faults' \in 0..MaxFaults
    PROVE  Accounts'
<1> USE DEF Accounts
<1>1. TypeOK'
  BY DEF TypeOK
<1>2. OnlyDueAreSent'
  BY DEF OnlyDueAreSent
<1>3. \A v \in Workers : WorkerInv(v)'
  BY DEF WorkerInv, Remaining
<1>4. AttemptsCoverSends'
  <2> SUFFICES ASSUME NEW d \in Deliveries
               PROVE  /\ IsFiniteSet(Ready(d)')
                      /\ sent[d] + Cardinality(Ready(d)') <= deliveries[d].attempts
    BY DEF AttemptsCoverSends
  <2>1. Ready(d)' \subseteq Ready(d)
    BY DEF Ready, Remaining, At
  <2> QED
    BY <2>1, Fewer, Typed
<1> QED
  BY <1>1, <1>2, <1>3, <1>4

\* The command of a worker ends, or dies.
LEMMA LeavingKeepsAccounts ==
    ASSUME Accounts, NEW w \in Workers, lock' = Unlocked(w), run' = [run EXCEPT ![w] = NoRun],
           UNCHANGED <<deliveries, sent, active>>, faults' \in 0..MaxFaults
    PROVE  Accounts'
<1>1. /\ run' \in [Workers -> Run] /\ \A v \in Workers : v # w => run'[v] = run[v]
      /\ run'[w].stage = "off" /\ \A d \in Deliveries : run'[w].tries[d] = 0
  BY RunTypes DEF Accounts, TypeOK
<1>2. WorkerInv(w)'
  BY <1>1 DEF WorkerInv, Remaining
<1>3. lock' \in Workers \cup {NoWorker}
  BY DEF Accounts, TypeOK, Unlocked
<1>4. active' \subseteq People
  BY DEF Accounts, TypeOK
<1> QED
  BY <1>1, <1>2, <1>3, <1>4, MovingKeepsAccounts

LEMMA StartKeepsAccounts == ASSUME Accounts, NEW w \in Workers, Start(w) PROVE Accounts'
<1> USE DEF Start
<1>1. /\ run' \in [Workers -> Run] /\ \A v \in Workers : v # w => run'[v] = run[v]
      /\ run'[w].stage = "locked" /\ run'[w].tries = run[w].tries
  BY Going DEF Stage
<1>2. WorkerInv(w)'
  BY <1>1 DEF WorkerInv, Remaining, Accounts
<1> QED
  BY <1>1, <1>2, MovingKeepsAccounts DEF Accounts, TypeOK, At

LEMMA SendFailsKeepsAccounts ==
    ASSUME Accounts, NEW w \in Workers, NEW d \in Deliveries, NEW rejected \in BOOLEAN,
           SendFails(w, d, rejected)
    PROVE  Accounts'
<1> DEFINE x == [run[w] EXCEPT !.delivery = d, !.stage = "failing", !.rejected = rejected]
<1>1. x \in Run /\ x.stage = "failing" /\ x.tries = run[w].tries /\ x.delivery = d
  <2>1. run[w] \in Run /\ "failing" \in Stage
    BY DEF Accounts, TypeOK, Stage
  <2> QED
    BY <2>1 DEF Run
<1>2. run' = [run EXCEPT ![w] = x] /\ run \in [Workers -> Run]
  BY DEF SendFails, Accounts, TypeOK
<1> HIDE DEF x
<1>3. /\ run' \in [Workers -> Run] /\ \A v \in Workers : v # w => run'[v] = run[v]
      /\ run'[w] = x
  BY <1>1, <1>2
<1>4. WorkerInv(w)'
  BY <1>1, <1>3 DEF WorkerInv, Remaining, SendFails, Accounts
<1> QED
  BY <1>1, <1>3, <1>4, MovingKeepsAccounts DEF Accounts, TypeOK, SendFails, At

LEMMA FinishKeepsAccounts == ASSUME Accounts, NEW w \in Workers, Finish(w) PROVE Accounts'
BY LeavingKeepsAccounts DEF Finish, Accounts, TypeOK

LEMMA CrashKeepsAccounts == ASSUME Accounts, NEW w \in Workers, Crash(w) PROVE Accounts'
BY LeavingKeepsAccounts, FaultType DEF Crash

LEMMA LoseLockKeepsAccounts == ASSUME Accounts, NEW w \in Workers, LoseLock(w) PROVE Accounts'
<1>1. WorkerInv(w)'
  BY DEF LoseLock, WorkerInv, Accounts, Remaining
<1>2. run' \in [Workers -> Run] /\ \A v \in Workers : run'[v] = run[v]
  BY DEF LoseLock, Accounts, TypeOK
<1> QED
  BY <1>1, <1>2, MovingKeepsAccounts, FaultType DEF LoseLock, Accounts, TypeOK, At

LEMMA RegistryFailsKeepsAccounts ==
    ASSUME Accounts, NEW w \in Workers, RegistryFails(w) PROVE Accounts'
<1>1. /\ run' \in [Workers -> Run] /\ \A v \in Workers : v # w => run'[v] = run[v]
      /\ \A d \in Deliveries : run'[w].tries[d] \in {0, run[w].tries[d]}
      /\ \A d \in Deliveries : At(w, d) => At(w, d)' \/ run'[w].tries[d] = 0
      /\ WorkerInv(w)'
  <2>1. CASE run[w].stage = "accepted" /\ Goto(w, "failing")
    BY <2>1, Going DEF Stage, WorkerInv, Accounts, Remaining, At, RegistryFails
  <2>2. CASE GiveUp(w)
    BY <2>2, GivingUp DEF WorkerInv, Remaining
  <2> QED
    BY <2>1, <2>2 DEF RegistryFails
<1> QED
  BY <1>1, MovingKeepsAccounts, FaultType DEF RegistryFails, Accounts, TypeOK

-----------------------------------------------------------------------------
(* Every mail has its own attempt: the rows *)

\* Rows that change in nothing the accounts look at.
LEMMA SameRowsKeepAccounts ==
    ASSUME Accounts, deliveries' \in [Deliveries -> Row],
           \A d \in Deliveries : /\ RowOK(deliveries'[d])
                                /\ deliveries'[d].status = deliveries[d].status
                                /\ deliveries'[d].attempts = deliveries[d].attempts,
           UNCHANGED <<sent, lock, run, faults>>, active' \subseteq People
    PROVE  Accounts'
<1> USE DEF Accounts
<1>1. TypeOK'
  BY DEF TypeOK
<1>2. OnlyDueAreSent'
  BY DEF OnlyDueAreSent
<1>3. \A v \in Workers : WorkerInv(v)'
  BY DEF WorkerInv, Remaining
<1>4. AttemptsCoverSends'
  <2>1. \A d \in Deliveries : Ready(d)' = Ready(d)
    BY DEF Ready, Remaining, At
  <2> QED
    BY <2>1 DEF AttemptsCoverSends
<1> QED
  BY <1>1, <1>2, <1>3, <1>4

LEMMA TickKeepsAccounts == ASSUME Accounts, Tick PROVE Accounts'
<1>1. /\ deliveries' \in [Deliveries -> Row]
      /\ \A d \in Deliveries : /\ RowOK(deliveries'[d])
                               /\ deliveries'[d].status = deliveries[d].status
                               /\ deliveries'[d].attempts = deliveries[d].attempts
  BY OlderRow DEF Tick, Accounts, TypeOK
<1> QED
  BY <1>1, SameRowsKeepAccounts DEF Tick, Accounts, TypeOK

LEMMA SwitchKeepsAccounts == ASSUME Accounts, NEW i \in People, SwitchIdentity(i) PROVE Accounts'
BY SameRowsKeepAccounts DEF SwitchIdentity, Accounts, TypeOK

LEMMA EnqueueKeepsAccounts ==
    ASSUME Accounts, NEW d \in Deliveries, NEW status \in RowStatus, Enqueue(d, status)
    PROVE  Accounts'
<1> USE DEF Accounts
<1>1. /\ deliveries' \in [Deliveries -> Row] /\ \A x \in Deliveries : RowOK(deliveries'[x])
      /\ deliveries[d].status = "absent" /\ deliveries'[d].status \in {"pending", "blocked"}
      /\ deliveries'[d].attempts = 0
      /\ \A x \in Deliveries : x # d => deliveries'[x] = deliveries[x]
  BY EnqueuedRow DEF Enqueue, TypeOK
<1>2. \A v \in Workers : d \notin Remaining(v)
  BY <1>1 DEF WorkerInv
<1>3. TypeOK'
  BY <1>1 DEF TypeOK, Enqueue
<1>4. sent[d] = 0 /\ OnlyDueAreSent'
  BY <1>1 DEF OnlyDueAreSent, Enqueue
<1>5. \A v \in Workers : WorkerInv(v)'
  BY <1>1, <1>2 DEF WorkerInv, Remaining, Enqueue
<1>6. AttemptsCoverSends'
  <2> SUFFICES ASSUME NEW x \in Deliveries
               PROVE  /\ IsFiniteSet(Ready(x)')
                      /\ sent[x] + Cardinality(Ready(x)') <= deliveries'[x].attempts
    BY DEF AttemptsCoverSends, Enqueue
  <2>1. Ready(x)' = Ready(x)
    BY DEF Ready, Remaining, At, Enqueue
  <2>2. CASE x = d
    <3>1. Ready(x) = {}
      BY <1>2, <2>2 DEF Ready
    <3> QED
      BY <1>1, <1>4, <2>1, <2>2, <3>1, FS_EmptySet
  <2>3. CASE x # d
    BY <1>1, <2>1, <2>3 DEF AttemptsCoverSends
  <2> QED
    BY <2>2, <2>3
<1> QED
  BY <1>1, <1>3, <1>4, <1>5, <1>6 DEF Enqueue

\* What a claim of S does to the rows and to the worker.
AfterClaim(w, S) ==
    /\ deliveries' \in [Deliveries -> Row] /\ \A d \in Deliveries : RowOK(deliveries'[d])
    /\ \A d \in S : /\ d \notin Historical
                    /\ deliveries[d].status \in {"pending", "retry", "processing"}
                    /\ deliveries'[d].status = "processing" /\ deliveries'[d].by = w
                    /\ deliveries'[d].attempts = deliveries[d].attempts + 1
    /\ \A d \in Deliveries \ S : deliveries'[d] = deliveries[d]
    /\ run' \in [Workers -> Run] /\ \A v \in Workers : v # w => run'[v] = run[v]
    /\ run'[w].stage \in {"batch", "closing"}
    /\ \A d \in Deliveries : run'[w].tries[d] > 0 => d \in S /\ run'[w].stage = "batch"

LEMMA ClaimEffect ==
    ASSUME Accounts, NEW w \in Workers, NEW S \in SUBSET Deliveries, NEW heard \in BOOLEAN,
           Claim(w, S, heard)
    PROVE  /\ AfterClaim(w, S)
           /\ heard => run'[w].stage = "batch" /\ \A d \in S : run'[w].tries[d] > 0
<1> USE DEF Accounts
<1>1. /\ deliveries' \in [Deliveries -> Row] /\ \A d \in Deliveries : RowOK(deliveries'[d])
      /\ \A d \in S : /\ deliveries'[d].status = "processing" /\ deliveries'[d].by = w
                      /\ deliveries'[d].attempts = deliveries[d].attempts + 1
      /\ \A d \in Deliveries \ S : deliveries'[d] = deliveries[d]
  BY ClaimedRow DEF TypeOK, Claim
<1>2. \A d \in S : /\ d \notin Historical
                  /\ deliveries[d].status \in {"pending", "retry", "processing"}
  BY DEF Claim, Deliverable, Claimable
<1>3. /\ run' \in [Workers -> Run] /\ \A v \in Workers : v # w => run'[v] = run[v]
      /\ run'[w].stage \in {"batch", "closing"}
      /\ \A d \in Deliveries : run'[w].tries[d] > 0 => d \in S /\ run'[w].stage = "batch"
      /\ heard => run'[w].stage = "batch" /\ \A d \in S : run'[w].tries[d] > 0
  <2>1. CASE heard
    <3> DEFINE t == [d \in Deliveries |-> IF d \in S THEN deliveries[d].attempts + 1 ELSE 0]
               x == [run[w] EXCEPT !.stage = "batch", !.tries = t]
    <3>1. t \in [Deliveries -> Nat] /\ \A d \in Deliveries : t[d] > 0 <=> d \in S
      BY DEF TypeOK, Row
    <3> HIDE DEF t
    <3>2. x \in Run /\ x.stage = "batch" /\ x.tries = t
      <4>1. run[w] \in Run /\ "batch" \in Stage
        BY DEF TypeOK, Stage
      <4> QED
        BY <3>1, <4>1 DEF Run
    <3>3. run' = [run EXCEPT ![w] = x] /\ run \in [Workers -> Run]
      BY <2>1 DEF Claim, TypeOK, t
    <3> HIDE DEF x
    <3> QED
      BY <2>1, <3>1, <3>2, <3>3
  <2>2. CASE ~heard
    BY <2>2, GivingUp DEF Claim
  <2> QED
    BY <2>1, <2>2
<1> QED
  BY <1>1, <1>2, <1>3 DEF AfterClaim

LEMMA ClaimKeepsAccounts ==
    ASSUME Accounts, NEW w \in Workers, NEW S \in SUBSET Deliveries, NEW heard \in BOOLEAN,
           Claim(w, S, heard)
    PROVE  Accounts'
<1> USE DEF Accounts
<1>0. AfterClaim(w, S)
  BY ClaimEffect
<1>1. TypeOK'
  BY <1>0, HearsType DEF AfterClaim, TypeOK, Claim
<1>2. OnlyDueAreSent'
  BY <1>0 DEF AfterClaim, OnlyDueAreSent, Claim
<1>3. \A v \in Workers : WorkerInv(v)'
  <2> SUFFICES ASSUME NEW v \in Workers PROVE WorkerInv(v)'
    OBVIOUS
  <2>1. \A d \in Deliveries : deliveries[d].status \notin {"absent", "blocked", "pending"} =>
                               deliveries'[d].status \notin {"absent", "blocked", "pending"}
    BY <1>0 DEF AfterClaim
  <2>2. sent' = sent
    BY DEF Claim
  <2>3. CASE v = w
    BY <2>3, <1>0 DEF AfterClaim, WorkerInv, Remaining
  <2>4. CASE v # w
    BY <2>1, <2>2, <2>4, <1>0 DEF AfterClaim, WorkerInv, Remaining
  <2> QED
    BY <2>3, <2>4
<1>4. AttemptsCoverSends'
  <2> SUFFICES ASSUME NEW d \in Deliveries
               PROVE  /\ IsFiniteSet(Ready(d)')
                      /\ sent[d] + Cardinality(Ready(d)') <= deliveries'[d].attempts
    BY DEF AttemptsCoverSends, Claim
  <2>1. CASE d \in S
    <3>1. Ready(d)' \subseteq Ready(d) \cup {w}
      BY <1>0 DEF AfterClaim, Ready, Remaining, At
    <3>2. deliveries'[d].attempts = deliveries[d].attempts + 1
      BY <2>1, <1>0 DEF AfterClaim
    <3>3. IsFiniteSet(Ready(d)') /\ Cardinality(Ready(d)') \in Nat
          /\ Cardinality(Ready(d)') <= Cardinality(Ready(d)) + 1
      BY <3>1, OneMore, Typed
    <3> QED
      BY <3>2, <3>3, Typed
  <2>2. CASE d \notin S
    <3>1. ASSUME NEW v \in Ready(d)' PROVE v \in Ready(d)
      <4>1. v \in Workers /\ run'[v].tries[d] > 0
        BY DEF Ready, Remaining
      <4>2. v # w /\ run'[v] = run[v]
        BY <2>2, <4>1, <1>0 DEF AfterClaim
      <4> QED
        BY <4>2 DEF Ready, Remaining, At
    <3>2. deliveries'[d] = deliveries[d]
      BY <2>2, <1>0 DEF AfterClaim
    <3>3. IsFiniteSet(Ready(d)') /\ Cardinality(Ready(d)') \in Nat
          /\ Cardinality(Ready(d)') <= Cardinality(Ready(d))
      BY <3>1, Fewer, Typed
    <3> QED
      BY <3>2, <3>3, Typed
  <2> QED
    BY <2>1, <2>2
<1>5. \A d \in Deliveries : deliveries'[d].status = "delivered" => sent'[d] >= 1
  BY <1>0 DEF AfterClaim, Claim
<1> QED
  BY <1>1, <1>2, <1>3, <1>4, <1>5

LEMMA SendEffect ==
    ASSUME Accounts, NEW w \in Workers, NEW d \in Deliveries, NEW heard \in BOOLEAN,
           Send(w, d, heard)
    PROVE  /\ run' \in [Workers -> Run] /\ \A v \in Workers : v # w => run'[v] = run[v]
           /\ run'[w].stage \in {"accepted", "failing"} /\ run'[w].delivery = d
           /\ run'[w].tries = run[w].tries
           /\ heard => run'[w].stage = "accepted"
           /\ sent' \in [Deliveries -> Nat] /\ sent'[d] = sent[d] + 1
           /\ \A x \in Deliveries : x # d => sent'[x] = sent[x]
<1> USE DEF Accounts
<1>1. PICK s \in {"accepted", "failing"} :
         s = IF heard THEN "accepted" ELSE "failing"
  OBVIOUS
<1> DEFINE x == [run[w] EXCEPT !.delivery = d, !.stage = s]
<1>2. x \in Run /\ x.stage = s /\ x.tries = run[w].tries /\ x.delivery = d
  <2>1. run[w] \in Run /\ s \in Stage
    BY DEF TypeOK, Stage
  <2> QED
    BY <2>1 DEF Run
<1>3. run' = [run EXCEPT ![w] = x] /\ run \in [Workers -> Run]
  BY <1>1 DEF Send, TypeOK
<1> HIDE DEF x
<1>4. /\ run' \in [Workers -> Run] /\ \A v \in Workers : v # w => run'[v] = run[v]
      /\ run'[w] = x
  BY <1>2, <1>3
<1>5. /\ sent' \in [Deliveries -> Nat] /\ sent'[d] = sent[d] + 1
      /\ \A y \in Deliveries : y # d => sent'[y] = sent[y]
  BY DEF Send, TypeOK
<1> QED
  BY <1>1, <1>2, <1>4, <1>5

LEMMA SendKeepsAccounts ==
    ASSUME Accounts, NEW w \in Workers, NEW d \in Deliveries, NEW heard \in BOOLEAN,
           Send(w, d, heard)
    PROVE  Accounts'
<1> USE DEF Accounts
<1>1. /\ run' \in [Workers -> Run] /\ \A v \in Workers : v # w => run'[v] = run[v]
      /\ run'[w].stage \in {"accepted", "failing"} /\ run'[w].delivery = d
      /\ run'[w].tries = run[w].tries
      /\ sent' \in [Deliveries -> Nat] /\ sent'[d] = sent[d] + 1
      /\ \A x \in Deliveries : x # d => sent'[x] = sent[x]
  BY SendEffect
<1>2. run[w].stage = "batch" /\ d \in Remaining(w) /\ deliveries' = deliveries
  BY DEF Send
<1>3. /\ d \notin Historical /\ deliveries[d].status \notin {"absent", "blocked", "pending"}
  BY <1>2 DEF WorkerInv
<1>4. \A x \in Deliveries : sent[x] \in Nat /\ sent'[x] >= sent[x]
  BY <1>1 DEF TypeOK
<1>5. TypeOK'
  BY <1>1, HearsType DEF TypeOK, Send
<1>6. OnlyDueAreSent'
  BY <1>1, <1>2, <1>3 DEF OnlyDueAreSent
<1>7. \A v \in Workers : WorkerInv(v)'
  <2> SUFFICES ASSUME NEW v \in Workers PROVE WorkerInv(v)'
    OBVIOUS
  <2>1. CASE v = w
    BY <1>1, <1>2, <1>4, <2>1 DEF WorkerInv, Remaining
  <2>2. CASE v # w
    <3>1. run'[v] = run[v] /\ Remaining(v)' = Remaining(v)
      BY <1>1, <2>2 DEF Remaining
    <3>2. run[v].stage = "accepted" => run[v].delivery \in Deliveries
      BY DEF WorkerInv, Remaining
    <3>3. run[v].stage = "accepted" => sent'[run[v].delivery] >= 1
      BY <1>1, <3>2 DEF WorkerInv, TypeOK
    <3> QED
      BY <1>2, <3>1, <3>3 DEF WorkerInv
  <2> QED
    BY <2>1, <2>2
<1>8. AttemptsCoverSends'
  <2> SUFFICES ASSUME NEW x \in Deliveries
               PROVE  /\ IsFiniteSet(Ready(x)')
                      /\ sent'[x] + Cardinality(Ready(x)') <= deliveries[x].attempts
    BY <1>2 DEF AttemptsCoverSends
  <2>1. CASE x = d
    <3>1. w \in Ready(d)
      BY <1>2 DEF Ready, At
    <3>2. Ready(d)' \subseteq Ready(d) \ {w}
      BY <1>1 DEF Ready, Remaining, At
    <3>3. /\ IsFiniteSet(Ready(d)') /\ Cardinality(Ready(d)') \in Nat
          /\ Cardinality(Ready(d)') + 1 <= Cardinality(Ready(d))
      BY <3>1, <3>2, OneUsed, Typed
    <3> QED
      BY <1>1, <2>1, <3>3, Typed
  <2>2. CASE x # d
    <3>1. Ready(x)' \subseteq Ready(x)
      BY <1>1, <1>2, <2>2 DEF Ready, Remaining, At
    <3>2. /\ IsFiniteSet(Ready(x)') /\ Cardinality(Ready(x)') \in Nat
          /\ Cardinality(Ready(x)') <= Cardinality(Ready(x))
      BY <3>1, Fewer, Typed
    <3> QED
      BY <1>1, <2>2, <3>2, Typed
  <2> QED
    BY <2>1, <2>2
<1>9. \A x \in Deliveries : deliveries'[x].status = "delivered" => sent'[x] >= 1
  BY <1>1, <1>2, <1>4
<1> QED
  BY <1>5, <1>6, <1>7, <1>8, <1>9

\* A worker that concludes its delivery at once forgets it or gives up.
LEMMA ConcludingKeepsAccounts ==
    ASSUME Accounts, NEW w \in Workers, NEW d \in Deliveries, d \in Remaining(w),
           NEW s \in {"retry", "delivered", "quarantined"}, NEW n \in Nat,
           deliveries' = [deliveries EXCEPT ![d] = Concluded(@, s, n)],
           s = "delivered" => sent[d] >= 1,
           run' \in [Workers -> Run], \A v \in Workers : v # w => run'[v] = run[v],
           \A x \in Deliveries : run'[w].tries[x] \in {0, run[w].tries[x]},
           \A x \in Deliveries : At(w, x) => At(w, x)' \/ run'[w].tries[x] = 0,
           run'[w].stage \in {"accepted", "failing"} => run'[w].delivery = d /\ run'[w].tries[d] > 0,
           run'[w].stage = "accepted" => sent[d] >= 1,
           run'[w].stage \in {"off", "locked", "closing"} =>
             \A x \in Deliveries : run'[w].tries[x] = 0,
           UNCHANGED <<sent, active, lock>>, faults' \in 0..MaxFaults
    PROVE  Accounts'
<1> USE DEF Accounts
<1>1. /\ deliveries' \in [Deliveries -> Row] /\ \A x \in Deliveries : RowOK(deliveries'[x])
      /\ deliveries'[d].status = s /\ deliveries'[d].attempts = deliveries[d].attempts
      /\ \A x \in Deliveries : x # d => deliveries'[x] = deliveries[x]
  <2> DEFINE r == Concluded(deliveries[d], s, n)
  <2>1. r \in Row /\ RowOK(r) /\ r.status = s /\ r.attempts = deliveries[d].attempts
    <3>1. deliveries[d] \in Row /\ s \in RowStatus /\ s # "processing"
      BY DEF TypeOK, RowStatus
    <3> QED
      BY <3>1, ConcludedRow
  <2>2. deliveries' = [deliveries EXCEPT ![d] = r]
    OBVIOUS
  <2> HIDE DEF r
  <2> QED
    BY <2>1, <2>2 DEF TypeOK
<1>2. TypeOK'
  BY <1>1 DEF TypeOK
<1>3. OnlyDueAreSent'
  BY <1>1 DEF OnlyDueAreSent
<1>4. \A v \in Workers : WorkerInv(v)'
  <2> SUFFICES ASSUME NEW v \in Workers PROVE WorkerInv(v)'
    OBVIOUS
  <2>1. Remaining(v)' \subseteq Remaining(v)
    BY DEF Remaining
  <2>2. \A x \in Remaining(v)' :
          x \notin Historical /\ deliveries'[x].status \notin {"absent", "blocked", "pending"}
    BY <1>1, <2>1 DEF WorkerInv, Remaining
  <2>3. CASE v = w
    BY <2>2, <2>3 DEF WorkerInv, Remaining
  <2>4. CASE v # w
    BY <2>2, <2>4 DEF WorkerInv, Remaining
  <2> QED
    BY <2>3, <2>4
<1>5. AttemptsCoverSends'
  <2> SUFFICES ASSUME NEW x \in Deliveries
               PROVE  /\ IsFiniteSet(Ready(x)')
                      /\ sent[x] + Cardinality(Ready(x)') <= deliveries'[x].attempts
    BY DEF AttemptsCoverSends
  <2>1. Ready(x)' \subseteq Ready(x)
    BY DEF Ready, Remaining, At
  <2>2. /\ IsFiniteSet(Ready(x)') /\ Cardinality(Ready(x)') \in Nat
        /\ Cardinality(Ready(x)') <= Cardinality(Ready(x))
    BY <2>1, Fewer, Typed
  <2>3. deliveries'[x].attempts = deliveries[x].attempts
    BY <1>1
  <2> QED
    BY <2>2, <2>3, Typed
<1>6. \A x \in Deliveries : deliveries'[x].status = "delivered" => sent'[x] >= 1
  BY <1>1
<1> QED
  BY <1>2, <1>3, <1>4, <1>5, <1>6

\* The worker is at its delivery.
LEMMA AtItsDelivery ==
    ASSUME Accounts, NEW w \in Workers, run[w].stage \in {"accepted", "failing"}
    PROVE  /\ run[w].delivery \in Deliveries /\ run[w].delivery \in Remaining(w)
           /\ run[w].tries[run[w].delivery] \in Nat /\ run[w].tries[run[w].delivery] > 0
           /\ run[w].stage = "accepted" => sent[run[w].delivery] >= 1
BY DEF Accounts, WorkerInv, Remaining, TypeOK, Run

LEMMA CompleteKeepsAccounts ==
    ASSUME Accounts, NEW w \in Workers, NEW heard \in BOOLEAN, Complete(w, heard)
    PROVE  Accounts'
<1>1. PICK d \in Deliveries : d = run[w].delivery
  BY AtItsDelivery DEF Complete
<1>2. d \in Remaining(w) /\ run[w].tries[d] > 0 /\ sent[d] >= 1
  BY <1>1, AtItsDelivery DEF Complete
<1>3. /\ run' \in [Workers -> Run] /\ \A v \in Workers : v # w => run'[v] = run[v]
      /\ \A x \in Deliveries : run'[w].tries[x] \in {0, run[w].tries[x]}
      /\ \A x \in Deliveries : At(w, x) => At(w, x)' \/ run'[w].tries[x] = 0
      /\ run'[w].stage \in {"batch", "failing"}
      /\ run'[w].stage = "failing" => run'[w].delivery = d /\ run'[w].tries[d] > 0
  <2>1. CASE NextDelivery(w)
    BY <1>1, <2>1, NextOne DEF At
  <2>2. CASE Goto(w, "failing")
    BY <1>1, <1>2, <2>2, Going DEF Stage, At
  <2> QED
    BY <2>1, <2>2 DEF Complete
<1>4. faults' \in 0..MaxFaults
  BY HearsType DEF Complete
<1>5. CASE HeldBy(deliveries[d], w)
  <2>1. deliveries' = [deliveries EXCEPT ![d] = Concluded(@, "delivered", 0)]
    BY <1>1, <1>5 DEF Complete
  <2>2. /\ run'[w].stage \notin {"off", "locked", "closing", "accepted"}
        /\ UNCHANGED <<sent, active, lock>>
    BY <1>3 DEF Complete
  <2> QED
    BY <1>2, <1>3, <1>4, <2>1, <2>2, ConcludingKeepsAccounts
<1>6. CASE ~HeldBy(deliveries[d], w)
  <2>1. deliveries' = deliveries
    BY <1>1, <1>6 DEF Complete
  <2>2. WorkerInv(w)'
    BY <1>2, <1>3, <2>1 DEF WorkerInv, Remaining, Accounts
  <2>3. sent' = sent /\ active' \subseteq People /\ lock' \in Workers \cup {NoWorker}
    BY DEF Complete, Accounts, TypeOK
  <2> QED
    BY <1>3, <1>4, <2>1, <2>2, <2>3, MovingKeepsAccounts
<1> QED
  BY <1>5, <1>6

LEMMA FailDeliveryKeepsAccounts ==
    ASSUME Accounts, NEW w \in Workers, NEW heard \in BOOLEAN, FailDelivery(w, heard)
    PROVE  Accounts'
<1>1. PICK d \in Deliveries : d = run[w].delivery
  BY AtItsDelivery DEF FailDelivery
<1>2. d \in Remaining(w) /\ RetryDelay(run[w].tries[d]) \in Nat
  BY <1>1, AtItsDelivery, RetryDelayType DEF FailDelivery
<1>3. /\ run' \in [Workers -> Run] /\ \A v \in Workers : v # w => run'[v] = run[v]
      /\ \A x \in Deliveries : run'[w].tries[x] \in {0, run[w].tries[x]}
      /\ \A x \in Deliveries : At(w, x) => run'[w].tries[x] = 0
      /\ run'[w].stage \in {"batch", "closing"}
      /\ run'[w].stage = "closing" => \A x \in Deliveries : run'[w].tries[x] = 0
  <2>1. CASE NextDelivery(w)
    BY <1>1, <2>1, NextOne DEF At
  <2>2. CASE GiveUp(w)
    BY <2>2, GivingUp
  <2> QED
    BY <2>1, <2>2 DEF FailDelivery
<1>4. faults' \in 0..MaxFaults
  BY HearsType DEF FailDelivery
<1>5. CASE HeldBy(deliveries[d], w)
  <2>1. PICK s \in {"retry", "quarantined"}, n \in {0, RetryDelay(run[w].tries[d])} :
           deliveries' = [deliveries EXCEPT ![d] = Concluded(@, s, n)]
    BY <1>1, <1>5 DEF FailDelivery
  <2>2. n \in Nat
    BY <1>2
  <2>3. /\ run'[w].stage \notin {"off", "locked", "failing", "accepted"}
        /\ UNCHANGED <<sent, active, lock>>
    BY <1>3 DEF FailDelivery
  <2> QED
    BY <1>2, <1>3, <1>4, <2>1, <2>2, <2>3, ConcludingKeepsAccounts
<1>6. CASE ~HeldBy(deliveries[d], w)
  <2>1. deliveries' = deliveries
    BY <1>1, <1>6 DEF FailDelivery
  <2>2. WorkerInv(w)'
    BY <1>3, <2>1 DEF WorkerInv, Remaining, Accounts
  <2>3. sent' = sent /\ active' \subseteq People /\ lock' \in Workers \cup {NoWorker}
    BY DEF FailDelivery, Accounts, TypeOK
  <2> QED
    BY <1>3, <1>4, <2>1, <2>2, <2>3, MovingKeepsAccounts
<1> QED
  BY <1>5, <1>6

LEMMA StepKeepsAccounts == Accounts /\ [Next]_vars => Accounts'
<1> SUFFICES ASSUME Accounts, [Next]_vars PROVE Accounts'
  OBVIOUS
<1>1. ASSUME NEW d \in Deliveries, NEW status \in RowStatus, Enqueue(d, status) PROVE Accounts'
  BY <1>1, EnqueueKeepsAccounts
<1>2. ASSUME NEW i \in People, SwitchIdentity(i) PROVE Accounts'
  BY <1>2, SwitchKeepsAccounts
<1>3. CASE Tick
  BY <1>3, TickKeepsAccounts
<1>4. ASSUME NEW w \in Workers, WorkerStep(w) PROVE Accounts'
  BY <1>4, StartKeepsAccounts, ClaimKeepsAccounts, SendKeepsAccounts, SendFailsKeepsAccounts,
     CompleteKeepsAccounts, FailDeliveryKeepsAccounts, FinishKeepsAccounts DEF WorkerStep
<1>5. ASSUME NEW w \in Workers, FaultStep(w) PROVE Accounts'
  BY <1>5, CrashKeepsAccounts, LoseLockKeepsAccounts, RegistryFailsKeepsAccounts,
     ClaimKeepsAccounts, SendKeepsAccounts, CompleteKeepsAccounts, FailDeliveryKeepsAccounts
     DEF FaultStep
<1>6. CASE UNCHANGED vars
  BY <1>6, SameRowsKeepAccounts DEF vars, Accounts, TypeOK
<1> QED
  BY <1>1, <1>2, <1>3, <1>4, <1>5, <1>6 DEF Next

\* The attempts counter of a delivery bounds the mails sent for it, whatever
\* runs overlap, die or lose an answer, and what is recorded as delivered
\* has been sent (notification-email-delivery.mjs and its statements).
THEOREM SendsNeverExceedAttempts == Spec => []SendsAreCounted
<1>1. Accounts => SendsAreCounted
  BY Typed DEF SendsAreCounted, Accounts
<1> QED
  BY <1>1, InitAccounts, StepKeepsAccounts, PTL DEF Spec

\* Nothing is ever sent for a delivery that was blocked at its creation, or
\* of an event older than the floor.
THEOREM NothingUndueIsSent == Spec => []OnlyDueAreSent
<1>1. Accounts => OnlyDueAreSent
  BY DEF Accounts
<1> QED
  BY <1>1, InitAccounts, StepKeepsAccounts, PTL DEF Spec

-----------------------------------------------------------------------------
(* One mail at most as long as nothing fails *)

Calm == /\ \A w \in Workers : UndisturbedWorker(w)
        /\ \A d \in Deliveries : UndisturbedDelivery(d)

\* The lock leaves one run at a time.
LEMMA Alone ==
    ASSUME Accounts, Calm, NEW w \in Workers, lock = w \/ lock = NoWorker,
           NEW v \in Workers, v # w
    PROVE  run[v].stage = "off" /\ Remaining(v) = {}
BY DEF Accounts, Calm, UndisturbedWorker, WorkerInv

\* What is left to a worker that is not sending has not been sent.
LEMMA LeftIsUnsent ==
    ASSUME Accounts, Calm, NEW w \in Workers, run[w].stage = "batch", NEW d \in Remaining(w)
    PROVE  sent[d] = 0 /\ deliveries[d].status = "processing" /\ deliveries[d].by = w
BY DEF Calm, UndisturbedWorker, UndisturbedDelivery, HeldBy, Remaining

\* Rows keep their status and holder; workers and mails do not move.
LEMMA SameRowsStayCalm ==
    ASSUME Calm, UNCHANGED <<sent, lock, run>>,
           \A d \in Deliveries : /\ deliveries'[d].status = deliveries[d].status
                                /\ deliveries'[d].by = deliveries[d].by
    PROVE  Calm'
<1>1. \A w \in Workers : Remaining(w)' = Remaining(w) /\ Remaining(w) \subseteq Deliveries
  BY DEF Remaining
<1>2. \A w \in Workers : UndisturbedWorker(w)'
  BY <1>1 DEF Calm, UndisturbedWorker, HeldBy
<1>3. \A d \in Deliveries : UndisturbedDelivery(d)'
  BY DEF Calm, UndisturbedDelivery, Remaining
<1> QED
  BY <1>2, <1>3 DEF Calm

LEMMA TickStaysCalm == ASSUME Accounts, Calm, Tick PROVE Calm'
<1>1. \A d \in Deliveries : /\ deliveries'[d].status = deliveries[d].status
                           /\ deliveries'[d].by = deliveries[d].by
  BY OlderRow DEF Tick, Accounts, TypeOK
<1> QED
  BY <1>1, SameRowsStayCalm DEF Tick

LEMMA EnqueueStaysCalm ==
    ASSUME Accounts, Calm, NEW d \in Deliveries, NEW status \in RowStatus, Enqueue(d, status)
    PROVE  Calm'
<1>1. /\ deliveries[d].status = "absent" /\ deliveries'[d].status \in {"pending", "blocked"}
      /\ \A x \in Deliveries : x # d => deliveries'[x] = deliveries[x]
      /\ UNCHANGED <<sent, lock, run>>
  BY EnqueuedRow DEF Enqueue, Accounts, TypeOK
<1>2. \A w \in Workers : d \notin Remaining(w) /\ Remaining(w)' = Remaining(w)
  BY <1>1 DEF Accounts, WorkerInv, Remaining
<1>3. \A w \in Workers : UndisturbedWorker(w)'
  BY <1>1, <1>2 DEF Calm, UndisturbedWorker, HeldBy, Remaining
<1>4. sent[d] = 0
  BY <1>1 DEF Accounts, OnlyDueAreSent
<1>5. ASSUME NEW x \in Deliveries PROVE UndisturbedDelivery(x)'
  <2>1. CASE x = d
    BY <1>1, <1>4, <2>1 DEF UndisturbedDelivery
  <2>2. CASE x # d
    BY <1>1, <2>2 DEF Calm, UndisturbedDelivery, Remaining
  <2> QED
    BY <2>1, <2>2
<1> QED
  BY <1>3, <1>5 DEF Calm

LEMMA StartStaysCalm ==
    ASSUME Accounts, Calm, NEW w \in Workers, Start(w) PROVE Calm'
<1>1. /\ \A v \in Workers : v # w => run'[v] = run[v]
      /\ run'[w].stage = "locked" /\ run'[w].tries = run[w].tries
      /\ lock = NoWorker /\ lock' = w /\ UNCHANGED <<deliveries, sent>>
  BY Going DEF Start, Stage, LockFree
<1>2. \A v \in Workers : Remaining(v)' = {} /\ Remaining(v) = {}
  BY <1>1, Alone DEF Remaining, Start, Accounts, WorkerInv
<1>3. \A v \in Workers : v # w => run'[v].stage = "off"
  BY <1>1, Alone
<1>4. \A v \in Workers : UndisturbedWorker(v)'
  BY <1>1, <1>2, <1>3 DEF UndisturbedWorker
<1>5. \A d \in Deliveries : deliveries[d].status # "processing"
  BY <1>2 DEF Calm, UndisturbedDelivery, Accounts, TypeOK, RowOK
<1>6. \A d \in Deliveries : UndisturbedDelivery(d)'
  BY <1>1, <1>5 DEF Calm, UndisturbedDelivery
<1> QED
  BY <1>4, <1>6 DEF Calm

LEMMA FinishStaysCalm ==
    ASSUME Accounts, Calm, NEW w \in Workers, Finish(w) PROVE Calm'
<1>1. run[w].stage = "batch" /\ Remaining(w) = {} /\ lock = w
  BY DEF Finish, Calm, UndisturbedWorker
<1>2. /\ \A v \in Workers : v # w => run'[v] = run[v]
      /\ run'[w].stage = "off" /\ \A d \in Deliveries : run'[w].tries[d] = 0
      /\ UNCHANGED <<deliveries, sent>>
  BY RunTypes DEF Finish, Accounts, TypeOK
<1>3. \A v \in Workers : Remaining(v)' = {} /\ Remaining(v) = {} /\ run'[v].stage = "off"
  BY <1>1, <1>2, Alone DEF Remaining
<1>4. \A v \in Workers : UndisturbedWorker(v)'
  BY <1>3 DEF UndisturbedWorker
<1>5. \A d \in Deliveries : deliveries[d].status # "processing"
  BY <1>3 DEF Calm, UndisturbedDelivery, Accounts, TypeOK, RowOK
<1>6. \A d \in Deliveries : UndisturbedDelivery(d)'
  BY <1>2, <1>5 DEF Calm, UndisturbedDelivery
<1> QED
  BY <1>4, <1>6 DEF Calm

LEMMA ClaimStaysCalm ==
    ASSUME Accounts, Calm, NEW w \in Workers, NEW S \in SUBSET Deliveries, Claim(w, S, TRUE)
    PROVE  Calm'
<1>1. /\ AfterClaim(w, S) /\ run'[w].stage = "batch" /\ \A d \in S : run'[w].tries[d] > 0
  BY ClaimEffect
<1>2. run[w].stage = "locked" /\ lock = w /\ lock' = w /\ sent' = sent
  BY DEF Claim, Calm, UndisturbedWorker
<1>3. \A v \in Workers : Remaining(v) = {}
  BY <1>2, Alone DEF Accounts, WorkerInv
<1>4. \A d \in Deliveries : deliveries[d].status # "processing"
  BY <1>3 DEF Calm, UndisturbedDelivery, Accounts, TypeOK, RowOK
<1>5. Remaining(w)' = S
  BY <1>1 DEF AfterClaim, Remaining
<1>6. ASSUME NEW v \in Workers, v # w PROVE UndisturbedWorker(v)'
  <2>1. run'[v] = run[v] /\ run[v].stage = "off" /\ Remaining(v)' = {}
    BY <1>1, <1>2, <1>6, Alone DEF AfterClaim, Remaining
  <2> QED
    BY <2>1 DEF UndisturbedWorker
<1>7. UndisturbedWorker(w)'
  BY <1>1, <1>2, <1>5 DEF UndisturbedWorker, AfterClaim, HeldBy
<1>8. ASSUME NEW d \in Deliveries PROVE UndisturbedDelivery(d)'
  <2>1. CASE d \in S
    <3>1. sent[d] = 0
      BY <1>1, <1>4, <2>1 DEF Calm, UndisturbedDelivery, AfterClaim
    <3> QED
      BY <1>1, <1>2, <1>5, <2>1, <3>1 DEF UndisturbedDelivery, AfterClaim
  <2>2. CASE d \notin S
    BY <1>1, <1>2, <1>4, <2>2 DEF Calm, UndisturbedDelivery, AfterClaim
  <2> QED
    BY <2>1, <2>2
<1> QED
  BY <1>6, <1>7, <1>8 DEF Calm

\* A delivery that is not the one of the worker keeps its place.
LEMMA ElsewhereStaysCalm ==
    ASSUME Accounts, Calm, NEW w \in Workers, lock = w, lock' = lock,
           NEW x \in Deliveries, deliveries'[x] = deliveries[x], sent'[x] = sent[x],
           run' \in [Workers -> Run], \A v \in Workers : v # w => run'[v] = run[v],
           run'[w].tries[x] = run[w].tries[x],
           run[w].stage = "accepted" => run[w].delivery # x
    PROVE  UndisturbedDelivery(x)'
<1>1. CASE deliveries[x].status = "processing"
  <2>1. deliveries[x].by \in Workers /\ x \in Remaining(deliveries[x].by)
    BY <1>1 DEF Calm, UndisturbedDelivery, Accounts, TypeOK, RowOK
  <2>2. deliveries[x].by = w
    BY <2>1, Alone
  <2>3. x \in Remaining(w)'
    BY <2>1, <2>2 DEF Remaining
  <2>4. sent[x] = 0
    BY <1>1, <2>2 DEF Calm, UndisturbedDelivery
  <2> QED
    BY <1>1, <2>2, <2>3, <2>4 DEF UndisturbedDelivery
<1>2. CASE deliveries[x].status # "processing"
  BY <1>2 DEF Calm, UndisturbedDelivery
<1> QED
  BY <1>1, <1>2

LEMMA OthersStayCalm ==
    ASSUME Accounts, Calm, NEW w \in Workers, lock = w, lock' = lock,
           \A v \in Workers : v # w => run'[v] = run[v],
           NEW v \in Workers, v # w
    PROVE  UndisturbedWorker(v)'
<1>1. run'[v] = run[v] /\ run[v].stage = "off" /\ Remaining(v)' = {}
  BY Alone DEF Remaining
<1> QED
  BY <1>1 DEF UndisturbedWorker

LEMMA SendStaysCalm ==
    ASSUME Accounts, Calm, NEW w \in Workers, NEW d \in Deliveries, Send(w, d, TRUE)
    PROVE  Calm'
<1>1. /\ run' \in [Workers -> Run] /\ \A v \in Workers : v # w => run'[v] = run[v]
      /\ run'[w].stage = "accepted" /\ run'[w].delivery = d /\ run'[w].tries = run[w].tries
      /\ sent'[d] = sent[d] + 1 /\ \A x \in Deliveries : x # d => sent'[x] = sent[x]
  BY SendEffect
<1>2. /\ run[w].stage = "batch" /\ d \in Remaining(w) /\ lock = w
      /\ deliveries' = deliveries /\ lock' = lock
  BY DEF Send, Calm, UndisturbedWorker
<1>3. sent[d] = 0 /\ deliveries[d].status = "processing" /\ deliveries[d].by = w
  BY <1>2, LeftIsUnsent
<1>4. Remaining(w)' = Remaining(w)
  BY <1>1 DEF Remaining
<1>5. UndisturbedWorker(w)'
  BY <1>1, <1>2, <1>4 DEF Calm, UndisturbedWorker
<1>6. \A v \in Workers : v # w => UndisturbedWorker(v)'
  BY <1>1, <1>2, OthersStayCalm
<1>7. UndisturbedDelivery(d)'
  BY <1>1, <1>2, <1>3, <1>4 DEF UndisturbedDelivery
<1>8. \A x \in Deliveries : x # d => UndisturbedDelivery(x)'
  BY <1>1, <1>2, ElsewhereStaysCalm
<1> QED
  BY <1>5, <1>6, <1>7, <1>8 DEF Calm

LEMMA SendFailsStaysCalm ==
    ASSUME Accounts, Calm, NEW w \in Workers, NEW d \in Deliveries, NEW rejected \in BOOLEAN,
           SendFails(w, d, rejected)
    PROVE  Calm'
<1> DEFINE x == [run[w] EXCEPT !.delivery = d, !.stage = "failing", !.rejected = rejected]
<1>1. x \in Run /\ x.stage = "failing" /\ x.tries = run[w].tries /\ x.delivery = d
  <2>1. run[w] \in Run /\ "failing" \in Stage
    BY DEF Accounts, TypeOK, Stage
  <2> QED
    BY <2>1 DEF Run
<1>2. run' = [run EXCEPT ![w] = x] /\ run \in [Workers -> Run]
  BY DEF SendFails, Accounts, TypeOK
<1> HIDE DEF x
<1>3. /\ run' \in [Workers -> Run] /\ \A v \in Workers : v # w => run'[v] = run[v]
      /\ run'[w].stage = "failing" /\ run'[w].tries = run[w].tries /\ run'[w].delivery = d
  BY <1>1, <1>2
<1>4. /\ run[w].stage = "batch" /\ d \in Remaining(w) /\ lock = w
      /\ deliveries' = deliveries /\ lock' = lock /\ sent' = sent
  BY DEF SendFails, Calm, UndisturbedWorker
<1>5. sent[d] = 0 /\ Remaining(w)' = Remaining(w)
  BY <1>3, <1>4, LeftIsUnsent DEF Remaining
<1>6. UndisturbedWorker(w)'
  BY <1>3, <1>4, <1>5 DEF Calm, UndisturbedWorker
<1>7. \A v \in Workers : v # w => UndisturbedWorker(v)'
  BY <1>3, <1>4, OthersStayCalm
<1>8. \A y \in Deliveries : UndisturbedDelivery(y)'
  BY <1>3, <1>4, ElsewhereStaysCalm
<1> QED
  BY <1>6, <1>7, <1>8 DEF Calm

\* A worker concludes its delivery and goes to the next one.
LEMMA ConcludingStaysCalm ==
    ASSUME Accounts, Calm, NEW w \in Workers, run[w].stage \in {"accepted", "failing"},
           NEW d \in Deliveries, d = run[w].delivery,
           NEW s \in {"retry", "delivered", "quarantined"}, NEW n,
           run[w].stage = "accepted" => s = "delivered",
           deliveries' = [deliveries EXCEPT ![d] = Concluded(@, s, n)],
           NextDelivery(w), UNCHANGED <<sent, lock>>
    PROVE  Calm'
<1>1. /\ run' \in [Workers -> Run] /\ \A v \in Workers : v # w => run'[v] = run[v]
      /\ run'[w].stage = "batch"
      /\ \A x \in Deliveries : run'[w].tries[x] = IF x = d THEN 0 ELSE run[w].tries[x]
  BY NextOne
<1>2. lock = w /\ (run[w].stage = "failing" => sent[d] = 0) /\ sent[d] \in {0, 1}
  BY DEF Calm, UndisturbedWorker, UndisturbedDelivery
<1>3. deliveries[d] \in Row /\ deliveries \in [Deliveries -> Row]
  BY DEF Accounts, TypeOK
<1>4. /\ deliveries'[d].status = s
      /\ \A x \in Deliveries : x # d => deliveries'[x] = deliveries[x]
  BY <1>3 DEF Concluded, Row
<1>5. Remaining(w)' = Remaining(w) \ {d}
  BY <1>1 DEF Remaining
<1>6. UndisturbedWorker(w)'
  BY <1>1, <1>2, <1>4, <1>5 DEF Calm, UndisturbedWorker, HeldBy, Remaining
<1>7. \A v \in Workers : v # w => UndisturbedWorker(v)'
  BY <1>1, <1>2, OthersStayCalm
<1>8. UndisturbedDelivery(d)'
  BY <1>2, <1>4 DEF UndisturbedDelivery
<1>9. \A x \in Deliveries : x # d => UndisturbedDelivery(x)'
  BY <1>1, <1>2, <1>4, ElsewhereStaysCalm
<1> QED
  BY <1>6, <1>7, <1>8, <1>9 DEF Calm

LEMMA CompleteStaysCalm ==
    ASSUME Accounts, Calm, NEW w \in Workers, Complete(w, TRUE) PROVE Calm'
<1>1. PICK d \in Deliveries : d = run[w].delivery
  BY AtItsDelivery DEF Complete
<1>2. HeldBy(deliveries[d], w)
  BY <1>1, AtItsDelivery DEF Complete, Calm, UndisturbedWorker
<1>3. /\ run[w].stage = "accepted" /\ NextDelivery(w) /\ UNCHANGED <<sent, lock>>
      /\ deliveries' = [deliveries EXCEPT ![d] = Concluded(@, "delivered", 0)]
  BY <1>1, <1>2 DEF Complete
<1> QED
  BY <1>1, <1>3, ConcludingStaysCalm

LEMMA FailDeliveryStaysCalm ==
    ASSUME Accounts, Calm, NEW w \in Workers, FailDelivery(w, TRUE) PROVE Calm'
<1>1. PICK d \in Deliveries : d = run[w].delivery
  BY AtItsDelivery DEF FailDelivery
<1>2. HeldBy(deliveries[d], w)
  BY <1>1, AtItsDelivery DEF FailDelivery, Calm, UndisturbedWorker
<1>3. run[w].stage = "failing" /\ NextDelivery(w) /\ UNCHANGED <<sent, lock>>
  BY <1>1, <1>2 DEF FailDelivery
<1>4. PICK s \in {"retry", "quarantined"}, n \in {0, RetryDelay(run[w].tries[d])} :
         deliveries' = [deliveries EXCEPT ![d] = Concluded(@, s, n)]
  BY <1>1, <1>2 DEF FailDelivery
<1> QED
  BY <1>1, <1>3, <1>4, ConcludingStaysCalm

LEMMA InitCalm == Init => Calm
<1> SUFFICES ASSUME Init PROVE Calm
  OBVIOUS
<1>1. ASSUME NEW w \in Workers PROVE UndisturbedWorker(w)
  <2>1. run[w].stage = "off" /\ Remaining(w) = {}
    BY RunTypes DEF Init, Remaining
  <2> QED
    BY <2>1 DEF UndisturbedWorker
<1>2. ASSUME NEW d \in Deliveries PROVE UndisturbedDelivery(d)
  BY EnqueuedRow DEF Init, NoRow, UndisturbedDelivery
<1> QED
  BY <1>1, <1>2 DEF Calm

LEMMA StepStaysCalm == Accounts /\ Undisturbed /\ [Next]_vars => Undisturbed'
<1> SUFFICES ASSUME Accounts, Undisturbed, [Next]_vars, faults' = 0 PROVE Calm'
  BY DEF Undisturbed, Calm
<1>1. faults \in Nat /\ (faults = 0 => Calm)
  BY DEF Undisturbed, Calm, Accounts, TypeOK
<1>2. ASSUME NEW w \in Workers, FaultStep(w) PROVE FALSE
  <2>1. Fault \/ Hears(FALSE)
    BY <1>2 DEF FaultStep, Crash, LoseLock, RegistryFails, Claim, Send, Complete, FailDelivery
  <2>2. faults' = faults + 1
    BY <2>1 DEF Fault, Hears
  <2> QED
    BY <1>1, <2>2
<1>3. faults = 0 /\ Calm
  <2>1. ASSUME NEW w \in Workers, WorkerStep(w) PROVE faults' = faults
    BY <2>1 DEF WorkerStep, Start, Claim, Send, SendFails, Complete, FailDelivery, Finish, Hears
  <2>2. faults' = faults
    BY <1>2, <2>1 DEF Next, Enqueue, SwitchIdentity, Tick, vars
  <2> QED
    BY <1>1, <2>2
<1>4. ASSUME NEW d \in Deliveries, NEW status \in RowStatus, Enqueue(d, status) PROVE Calm'
  BY <1>3, <1>4, EnqueueStaysCalm
<1>5. ASSUME NEW i \in People, SwitchIdentity(i) PROVE Calm'
  BY <1>3, <1>5, SameRowsStayCalm DEF SwitchIdentity
<1>6. CASE Tick
  BY <1>3, <1>6, TickStaysCalm
<1>7. ASSUME NEW w \in Workers, WorkerStep(w) PROVE Calm'
  BY <1>3, <1>7, StartStaysCalm, ClaimStaysCalm, SendStaysCalm, SendFailsStaysCalm,
     CompleteStaysCalm, FailDeliveryStaysCalm, FinishStaysCalm DEF WorkerStep
<1>8. CASE UNCHANGED vars
  BY <1>3, <1>8, SameRowsStayCalm DEF vars
<1> QED
  BY <1>2, <1>4, <1>5, <1>6, <1>7, <1>8 DEF Next

\* The accounts of the queue, and the calm that lasts until the first fault.
THEOREM DeliveryInvariant == Spec => []Inv
<1>1. Init => Inv
  BY InitAccounts, InitCalm DEF Inv, Undisturbed, Calm
<1>2. Inv /\ [Next]_vars => Inv'
  BY StepKeepsAccounts, StepStaysCalm DEF Inv
<1> QED
  BY <1>1, <1>2, PTL DEF Spec

\* At most one mail leaves for a delivery as long as no process dies, no
\* lock is lost and no answer is lost, even when leases run out: the lock
\* is what ensures it (acquireNotificationProcessingLock).
THEOREM OneMailWithoutFaults == Spec => []SentOnce
<1>1. Inv => SentOnce
  BY DEF Inv, Undisturbed, UndisturbedDelivery, SentOnce
<1> QED
  BY <1>1, DeliveryInvariant, PTL
=============================================================================
