------------------------- MODULE IdentityLinksProofs -------------------------
(***************************************************************************)
(* Proofs about IdentityLinks for every value of its constants: any number *)
(* of principals, identities, requests, logins and decisions.              *)
(***************************************************************************)
EXTENDS IdentityLinks, TLAPS

USE LinksAssumption DEF LinksAssumption

\* The rows that several transactions may lock.
Shared == {row \in Row : row[1] \in {"links", "range"}}

\* What each lock is a lock of.
LEMMA RowsAreApart ==
    /\ \A r : <<"request", r>> \in Row <=> r \in Requests
    /\ \A i : <<"identity", i>> \in Row <=> i \in Identities
    /\ \A r : <<"request", r>>[1] \notin {"links", "range"}
    /\ \A i : <<"identity", i>>[1] \notin {"links", "range"}
BY DEF Row

LEMMA IdleType == Idle \in WorkRecord
BY DEF Idle, WorkRecord

\* One worker moves to x, the others stay where they are.
LEMMA Moves ==
    ASSUME TypeOK, NEW p \in Workers, NEW x, Become(p, x)
    PROVE  \A q \in Workers : work'[q] = IF q = p THEN x ELSE work[q]
BY DEF TypeOK, Become

\* A worker that moves without writing keeps the invariant when it takes no
\* row of another and what it then holds is proper.
LEMMA MovingKeepsInv ==
    ASSUME Inv, NEW p \in Workers, NEW x \in WorkRecord, Become(p, x),
           Free(p, x.locks \ Shared), IsAbout(x), ReadIsStill(x), UNCHANGED registry
    PROVE  Inv'
<1> USE DEF Inv, registry
<1>1. TypeOK'
  BY DEF TypeOK, Become
<1>2. \A q \in Workers : work'[q] = IF q = p THEN x ELSE work[q]
  BY Moves
<1>3. Exclusive'
  <2> SUFFICES ASSUME NEW q \in Workers, NEW s \in Workers, q # s,
                      NEW row \in work'[q].locks \cap work'[s].locks
               PROVE  row[1] \in {"links", "range"}
    BY DEF Exclusive
  <2>1. row \in Row
    BY <1>1 DEF TypeOK, WorkRecord
  <2>2. CASE q # p /\ s # p
    BY <2>2, <1>2 DEF Exclusive
  <2>3. CASE q = p
    BY <2>1, <2>3, <1>2 DEF Free, Shared
  <2>4. CASE s = p
    BY <2>1, <2>4, <1>2 DEF Free, Shared
  <2> QED
    BY <2>2, <2>3, <2>4
<1>4. \A q \in Workers : IsAbout(work[q])' /\ ReadIsStill(work[q])'
  BY <1>2 DEF IsAbout, ReadIsStill, ActiveOf
<1>5. RequestsLast' /\ OneActiveRequest' /\ LinkedByOneApproval'
  BY DEF RequestsLast, OneActiveRequest, LinkedByOneApproval, Of
<1> QED
  BY <1>1, <1>3, <1>4, <1>5

LEMMA InitInv == Init => Inv
<1> SUFFICES ASSUME Init PROVE Inv
  OBVIOUS
<1>1. TypeOK
  BY IdleType DEF Init, TypeOK, NoRequest, RequestRecord
<1>2. Exclusive /\ \A p \in Workers : IsAbout(work[p]) /\ ReadIsStill(work[p])
  BY DEF Init, Exclusive, IsAbout, ReadIsStill, Idle
<1>3. RequestsLast /\ OneActiveRequest /\ LinkedByOneApproval
  BY DEF Init, RequestsLast, OneActiveRequest, LinkedByOneApproval, Of, NoRequest
<1> QED
  BY <1>1, <1>2, <1>3 DEF Inv

-----------------------------------------------------------------------------
(* What does not write *)

\* A worker that answers forgets everything and holds nothing.
LEMMA AnsweringKeepsInv ==
    ASSUME Inv, NEW p \in Workers, Answer(p), UNCHANGED registry PROVE Inv'
BY MovingKeepsInv, IdleType DEF Answer, Idle, Free, IsAbout, ReadIsStill

LEMMA ArriveKeepsInv ==
    ASSUME Inv, NEW p \in Workers, NEW x \in Principals, Arrive(p, x) PROVE Inv'
<1> DEFINE y == [Idle EXCEPT !.stage = "unlinked", !.principal = x]
<1>1. y \in WorkRecord /\ y.locks = {}
  BY IdleType DEF Idle, WorkRecord
<1>2. IsAbout(y) /\ ReadIsStill(y)
  BY DEF Idle, IsAbout, ReadIsStill, Inv, TypeOK
<1>3. Become(p, y) /\ UNCHANGED registry
  BY DEF Arrive
<1> HIDE DEF y
<1> QED
  BY <1>1, <1>2, <1>3, MovingKeepsInv DEF Free

LEMMA LookKeepsInv == ASSUME Inv, NEW p \in Workers, Look(p) PROVE Inv'
<1> DEFINE y == [work[p] EXCEPT !.stage = "asking", !.at = clock]
<1>1. CASE Answer(p)
  BY <1>1, AnsweringKeepsInv DEF Look
<1>2. CASE Become(p, y)
  <2>1. /\ y \in WorkRecord /\ y.locks = work[p].locks
        /\ y.stage = "asking" /\ y.principal = work[p].principal /\ y.at = clock
    BY DEF Inv, TypeOK, WorkRecord
  <2>2. work[p].principal \in Principals /\ clock \in Nat
    BY DEF Look, Inv, TypeOK, IsAbout
  <2>4. IsAbout(y) /\ ReadIsStill(y)
    BY <2>1, <2>2 DEF IsAbout, ReadIsStill
  <2>3. Free(p, y.locks \ Shared)
    BY <2>1 DEF Inv, TypeOK, WorkRecord, Exclusive, Free, Shared
  <2> HIDE DEF y
  <2> QED
    BY <1>2, <2>1, <2>3, <2>4, MovingKeepsInv DEF Look
<1> QED
  BY <1>1, <1>2 DEF Look

LEMMA ScanKeepsInv == ASSUME Inv, NEW p \in Workers, Scan(p) PROVE Inv'
<1> DEFINE x == work[p].principal
           linked == {<<"link", y>> : y \in {y \in Principals : links[y] # None}}
           y == [work[p] EXCEPT !.stage = "scanned",
                                !.locks = linked \cup {<<"links">>, <<"range", x>>}]
<1>1. x \in Principals /\ work[p].at <= clock
  BY DEF Scan, Inv, IsAbout, ReadIsStill
<1>2. y \in WorkRecord
  BY <1>1 DEF Inv, TypeOK, WorkRecord, Row
<1>3. IsAbout(y) /\ ReadIsStill(y)
  BY <1>1 DEF Scan, Inv, TypeOK, WorkRecord, IsAbout, ReadIsStill
<1>4. Free(p, y.locks \ Shared)
  <2>1. y.locks \ Shared \subseteq linked
    BY <1>1 DEF Inv, TypeOK, WorkRecord, Shared, Row
  <2> QED
    BY <2>1 DEF Scan, Free
<1>5. Become(p, y) /\ UNCHANGED registry
  BY DEF Scan
<1> HIDE DEF y
<1> QED
  BY <1>2, <1>3, <1>4, <1>5, MovingKeepsInv

LEMMA DecideKeepsInv ==
    ASSUME Inv, NEW p \in Workers, NEW r \in Requests, NEW i \in Identities \cup {None},
           NEW d \in {"approved", "rejected"}, Decide(p, r, d, i)
    PROVE  Inv'
<1> DEFINE y == [Idle EXCEPT !.stage = "deciding", !.at = clock, !.request = r,
                             !.decision = d, !.target = i]
<1>1. y \in WorkRecord /\ y.locks = {}
  BY IdleType DEF Idle, WorkRecord, Inv, TypeOK
<1>2. IsAbout(y) /\ ReadIsStill(y)
  BY DEF Decide, Idle, IsAbout, ReadIsStill, Inv, TypeOK
<1>3. Become(p, y) /\ UNCHANGED registry
  BY DEF Decide
<1> HIDE DEF y
<1> QED
  BY <1>1, <1>2, <1>3, MovingKeepsInv DEF Free

LEMMA LockRequestKeepsInv == ASSUME Inv, NEW p \in Workers, LockRequest(p) PROVE Inv'
<1> DEFINE r == work[p].request
           y == [work[p] EXCEPT !.stage = "locked", !.locks = {<<"request", r>>}]
<1>1. r \in Requests
  BY DEF LockRequest, Inv, IsAbout
<1>2. y \in WorkRecord /\ Free(p, y.locks)
  <2>1. {<<"request", r>>} \subseteq Row
    BY <1>1, RowsAreApart
  <2> QED
    BY <2>1 DEF LockRequest, Inv, TypeOK, WorkRecord
<1>3. IsAbout(y) /\ ReadIsStill(y)
  BY DEF LockRequest, Inv, TypeOK, WorkRecord, IsAbout, ReadIsStill, Pending
<1>4. Become(p, y) /\ UNCHANGED registry
  BY DEF LockRequest
<1> HIDE DEF y
<1> QED
  BY <1>2, <1>3, <1>4, MovingKeepsInv DEF Free

LEMMA LockIdentityKeepsInv == ASSUME Inv, NEW p \in Workers, LockIdentity(p) PROVE Inv'
<1> DEFINE i == work[p].target
           y == [work[p] EXCEPT !.stage = "linking", !.locks = @ \cup {<<"identity", i>>}]
<1>1. i \in Identities
  BY DEF LockIdentity, Inv, IsAbout
<1>2. y \in WorkRecord /\ y.locks = work[p].locks \cup {<<"identity", i>>}
  <2>1. {<<"identity", i>>} \subseteq Row
    BY <1>1, RowsAreApart
  <2> QED
    BY <2>1 DEF Inv, TypeOK, WorkRecord
<1>3. IsAbout(y) /\ ReadIsStill(y)
  BY DEF LockIdentity, Inv, TypeOK, WorkRecord, IsAbout, ReadIsStill
<1>4. Free(p, y.locks \ Shared)
  <2>1. Free(p, work[p].locks \ Shared)
    BY DEF Inv, TypeOK, WorkRecord, Exclusive, Free, Shared
  <2> QED
    BY <1>2, <2>1 DEF LockIdentity, Free
<1>5. Become(p, y) /\ UNCHANGED registry
  BY DEF LockIdentity
<1> HIDE DEF y
<1> QED
  BY <1>2, <1>3, <1>4, <1>5, MovingKeepsInv

\* Time passes.
LEMMA TickKeepsInv == ASSUME Inv, Tick PROVE Inv'
<1>1. clock \in Nat /\ clock' = clock + 1 /\ UNCHANGED <<status, requests, links, work>>
  BY DEF Tick, Inv, TypeOK
<1>2. TypeOK'
  BY <1>1 DEF Inv, TypeOK
<1>3. \A p \in Workers : IsAbout(work[p])' /\ ReadIsStill(work[p])'
  BY <1>1 DEF Inv, TypeOK, WorkRecord, IsAbout, ReadIsStill, ActiveOf
<1> QED
  BY <1>1, <1>2, <1>3 DEF Inv, Exclusive, RequestsLast, OneActiveRequest, LinkedByOneApproval, Of

\* The status of an identity changes only when no approval has locked it.
LEMMA SetStatusKeepsInv ==
    ASSUME Inv, NEW i \in Identities, NEW new \in {"active", "suspended", "disabled"},
           SetStatus(i, new)
    PROVE  Inv'
<1>1. UNCHANGED <<clock, requests, links, work>>
  BY DEF SetStatus
<1>2. TypeOK'
  BY DEF SetStatus, Inv, TypeOK
<1>3. \A p \in Workers : IsAbout(work[p])' /\ ReadIsStill(work[p])'
  <2>1. ASSUME NEW p \in Workers, work[p].stage = "linking" PROVE status'[work[p].target] = "active"
    BY <2>1 DEF SetStatus, Inv, TypeOK, IsAbout, ReadIsStill
  <2> QED
    BY <1>1, <2>1 DEF Inv, IsAbout, ReadIsStill, ActiveOf
<1> QED
  BY <1>1, <1>2, <1>3 DEF Inv, Exclusive, RequestsLast, OneActiveRequest, LinkedByOneApproval, Of

-----------------------------------------------------------------------------
(* What writes *)

\* A worker that commits answers: the others hold what they held.
LEMMA CommitKeepsLocks ==
    ASSUME Inv, NEW p \in Workers, Answer(p)
    PROVE  /\ \A q \in Workers : work'[q] = IF q = p THEN Idle ELSE work[q]
           /\ work' \in [Workers -> WorkRecord] /\ Exclusive'
<1>1. \A q \in Workers : work'[q] = IF q = p THEN Idle ELSE work[q]
  BY Moves DEF Inv, Answer
<1>2. work' \in [Workers -> WorkRecord]
  BY IdleType DEF Inv, TypeOK, Answer, Become
<1> QED
  BY <1>1, <1>2 DEF Inv, Exclusive, Idle

LEMMA NewRequestIs ==
    ASSUME NEW x \in Principals, NEW t \in Nat
    PROVE  LET new == NewRequest(x, t) IN
           /\ new \in RequestRecord /\ new.status = "pending" /\ new.principal = x
           /\ new.from = t /\ new.until = t + Ttl
<1>1. NoRequest \in RequestRecord /\ t + Ttl \in Nat
  BY DEF NoRequest, RequestRecord
<1> QED
  BY <1>1 DEF NewRequest, RequestRecord

\* A request saved begins when the last active one of its principal has ended.
LEMMA InsertKeepsInv ==
    ASSUME Inv, NEW p \in Workers, NEW r \in Requests, Insert(p, r) PROVE Inv'
<1> DEFINE x == work[p].principal
           t == work[p].at
           new == NewRequest(x, t)
<1>1. /\ x \in Principals /\ t \in Nat /\ links[x] = None /\ ActiveOf(x, t) = {}
      /\ requests[r].status = "absent" /\ Answer(p) /\ UNCHANGED <<clock, status, links>>
  BY DEF Insert, Inv, TypeOK, WorkRecord, IsAbout, ReadIsStill
<1>2. /\ new \in RequestRecord /\ new.status = "pending" /\ new.principal = x
      /\ new.from = t /\ new.until = t + Ttl
  BY <1>1, NewRequestIs
<1>3. \A s \in Requests : requests'[s] = IF s = r THEN new ELSE requests[s]
  BY DEF Insert, Inv, TypeOK
<1>4. /\ \A q \in Workers : work'[q] = IF q = p THEN Idle ELSE work[q]
      /\ work' \in [Workers -> WorkRecord] /\ Exclusive'
  BY <1>1, CommitKeepsLocks
<1>9. TypeOK'
  <2>1. requests' \in [Requests -> RequestRecord]
    BY <1>2 DEF Insert, Inv, TypeOK
  <2> QED
    BY <1>1, <1>4, <2>1 DEF Inv, TypeOK
<1> HIDE DEF new
<1>5. \A q \in Workers : IsAbout(work[q])' /\ ReadIsStill(work[q])'
  <2> SUFFICES ASSUME NEW q \in Workers, q # p PROVE IsAbout(work[q])' /\ ReadIsStill(work[q])'
    <3>1. work'[p] = Idle
      BY <1>4
    <3>2. IsAbout(work[p])' /\ ReadIsStill(work[p])'
      BY <3>1 DEF IsAbout, ReadIsStill, Idle
    <3> QED
      BY <3>2
  <2>1. work'[q] = work[q] /\ IsAbout(work[q]) /\ ReadIsStill(work[q])
    BY <1>4 DEF Inv
  <2>2. work[q].stage = "scanned" => work[q].principal # x
    BY <2>1 DEF Insert, Free, ReadIsStill
  <2>3. work[q].stage = "scanned" => ActiveOf(work[q].principal, work[q].at)' = {}
    BY <1>2, <1>3, <2>1, <2>2 DEF ReadIsStill, ActiveOf
  <2>4. work[q].stage \in {"locked", "linking"} => work[q].request # r
    BY <1>1, <2>1 DEF ReadIsStill
  <2> QED
    BY <1>1, <1>3, <2>1, <2>3, <2>4 DEF IsAbout, ReadIsStill
<1>6. RequestsLast'
  BY <1>1, <1>2, <1>3 DEF Inv, RequestsLast
<1>7. OneActiveRequest'
  <2> SUFFICES ASSUME NEW y \in Principals, NEW s \in Of(y, "pending")', NEW u \in Of(y, "pending")',
                      s # u
               PROVE  \/ requests'[s].until <= requests'[u].from
                      \/ requests'[u].until <= requests'[s].from
    BY DEF OneActiveRequest
  <2>1. ASSUME NEW v \in Requests, v # r, requests[v].status = "pending", requests[v].principal = x
        PROVE  requests[v].until <= t
    BY <1>1, <2>1 DEF ActiveOf, Inv, TypeOK, RequestRecord
  <2>2. CASE s # r /\ u # r
    BY <1>3, <2>2 DEF Inv, OneActiveRequest, Of
  <2>3. CASE s = r
    BY <1>2, <1>3, <2>1, <2>3 DEF Of
  <2>4. CASE u = r
    BY <1>2, <1>3, <2>1, <2>4 DEF Of
  <2> QED
    BY <2>2, <2>3, <2>4
<1>8. LinkedByOneApproval'
  <2>1. \A y \in Principals : Of(y, "approved")' = Of(y, "approved")
    BY <1>1, <1>2, <1>3 DEF Of
  <2>2. \A y \in Principals : \A s \in Of(y, "approved") : requests'[s] = requests[s]
    BY <1>1, <1>3 DEF Of
  <2> QED
    BY <1>1, <2>1, <2>2 DEF Inv, LinkedByOneApproval
<1> QED
  BY <1>4, <1>5, <1>6, <1>7, <1>8, <1>9 DEF Inv

\* A decision changes a request that is pending and that no other decision has
\* locked: no window is added, and what the others have read stands as long as
\* the links of those who have scanned them do.
LEMMA DecidingKeepsInv ==
    ASSUME Inv, NEW p \in Workers, work[p].stage \in {"locked", "linking"}, Answer(p),
           NEW new \in RequestRecord, new.status \in {"approved", "rejected"},
           requests' = [requests EXCEPT ![work[p].request] = new],
           new.principal = requests[work[p].request].principal,
           new.from = requests[work[p].request].from, new.until = requests[work[p].request].until,
           links' \in [Principals -> Identities \cup {None}], LinkedByOneApproval',
           \A q \in Workers \ {p} : work[q].stage = "scanned" => links' = links,
           UNCHANGED <<clock, status>>
    PROVE  Inv'
<1> DEFINE r == work[p].request
<1>1. /\ \A q \in Workers : work'[q] = IF q = p THEN Idle ELSE work[q]
      /\ work' \in [Workers -> WorkRecord] /\ Exclusive'
  BY CommitKeepsLocks
<1>2. r \in Requests /\ requests[r].status = "pending" /\ <<"request", r>> \in work[p].locks
  BY DEF Inv, IsAbout, ReadIsStill
<1>3. \A s \in Requests : requests'[s] = IF s = r THEN new ELSE requests[s]
  BY <1>2 DEF Inv, TypeOK
<1>4. TypeOK'
  BY <1>1, <1>2 DEF Inv, TypeOK
<1>5. \A q \in Workers : IsAbout(work[q])' /\ ReadIsStill(work[q])'
  <2> SUFFICES ASSUME NEW q \in Workers, q # p PROVE IsAbout(work[q])' /\ ReadIsStill(work[q])'
    <3>1. work'[p] = Idle
      BY <1>1
    <3>2. IsAbout(work[p])' /\ ReadIsStill(work[p])'
      BY <3>1 DEF IsAbout, ReadIsStill, Idle
    <3> QED
      BY <3>2
  <2>1. work'[q] = work[q] /\ IsAbout(work[q]) /\ ReadIsStill(work[q])
    BY <1>1 DEF Inv
  <2>2. work[q].stage = "scanned" => ActiveOf(work[q].principal, work[q].at)' = {}
    BY <1>3, <2>1 DEF ReadIsStill, ActiveOf
  <2>3. <<"request", r>> \notin work[q].locks
    BY <1>2, RowsAreApart DEF Inv, Exclusive
  <2>4. work[q].stage \in {"locked", "linking"} => work[q].request # r
    BY <2>1, <2>3 DEF ReadIsStill
  <2> QED
    BY <1>3, <2>1, <2>2, <2>4 DEF IsAbout, ReadIsStill
<1>6. RequestsLast'
  BY <1>2, <1>3 DEF Inv, RequestsLast
<1>7. OneActiveRequest'
  BY <1>3 DEF Inv, OneActiveRequest, Of
<1> QED
  BY <1>1, <1>4, <1>5, <1>6, <1>7 DEF Inv

LEMMA RejectKeepsInv == ASSUME Inv, NEW p \in Workers, Reject(p) PROVE Inv'
<1> DEFINE r == work[p].request
           new == [requests[r] EXCEPT !.status = "rejected"]
<1>1. r \in Requests /\ requests[r].status = "pending" /\ requests[r] \in RequestRecord
  BY DEF Reject, Inv, TypeOK, IsAbout, ReadIsStill
<1>2. /\ new \in RequestRecord /\ new.status = "rejected" /\ new.principal = requests[r].principal
      /\ new.from = requests[r].from /\ new.until = requests[r].until
  BY <1>1 DEF RequestRecord
<1>3. /\ requests' = [requests EXCEPT ![r] = new] /\ Answer(p)
      /\ UNCHANGED <<clock, status, links>> /\ work[p].stage = "locked"
  BY DEF Reject
<1> HIDE DEF new
<1>4. LinkedByOneApproval'
  <2>1. \A s \in Requests : requests'[s] = IF s = r THEN new ELSE requests[s]
    BY <1>1, <1>3 DEF Inv, TypeOK
  <2>2. \A y \in Principals : Of(y, "approved")' = Of(y, "approved")
    BY <1>1, <1>2, <2>1 DEF Of
  <2>3. \A y \in Principals : \A s \in Of(y, "approved") : requests'[s] = requests[s]
    BY <1>1, <2>1 DEF Of
  <2> QED
    BY <1>3, <2>2, <2>3 DEF Inv, LinkedByOneApproval
<1> QED
  BY <1>1, <1>2, <1>3, <1>4, DecidingKeepsInv DEF Inv, TypeOK

LEMMA ApproveKeepsInv == ASSUME Inv, NEW p \in Workers, Approve(p) PROVE Inv'
<1>1. PICK r \in Requests, i \in Identities :
         /\ r = work[p].request /\ i = work[p].target
         /\ requests[r].status = "pending" /\ requests[r] \in RequestRecord
  BY DEF Approve, Inv, TypeOK, IsAbout, ReadIsStill
<1>2. PICK x \in Principals : x = requests[r].principal
  BY <1>1 DEF Inv, RequestsLast
<1> DEFINE new == [requests[r] EXCEPT !.status = "approved", !.target = i]
<1>3. /\ new \in RequestRecord /\ new.status = "approved" /\ new.principal = x
      /\ new.from = requests[r].from /\ new.until = requests[r].until /\ new.target = i
  BY <1>1, <1>2 DEF RequestRecord
<1>4. /\ requests' = [requests EXCEPT ![r] = new] /\ links' = [links EXCEPT ![x] = i]
      /\ Answer(p) /\ UNCHANGED <<clock, status>> /\ work[p].stage = "linking"
      /\ links[x] = None /\ Free(p, {<<"links">>})
  BY <1>1, <1>2 DEF Approve, Linkable, Inv, TypeOK
<1> HIDE DEF new
<1>5. links' \in [Principals -> Identities \cup {None}]
  BY <1>1, <1>4 DEF Inv, TypeOK
<1>6. LinkedByOneApproval'
  <2>1. \A s \in Requests : requests'[s] = IF s = r THEN new ELSE requests[s]
    BY <1>1, <1>4 DEF Inv, TypeOK
  <2>2. \A y \in Principals : links'[y] = IF y = x THEN i ELSE links[y]
    BY <1>4 DEF Inv, TypeOK
  <2>3. Of(x, "approved") = {}
    BY <1>2, <1>4 DEF Inv, LinkedByOneApproval
  <2>4. Of(x, "approved")' = {r}
    BY <1>1, <1>2, <1>3, <2>1, <2>3 DEF Of
  <2>5. \A y \in Principals : y # x => Of(y, "approved")' = Of(y, "approved")
    BY <1>1, <1>2, <1>3, <2>1 DEF Of
  <2>6. \A y \in Principals : \A s \in Of(y, "approved") : requests'[s] = requests[s]
    BY <1>1, <2>1 DEF Of
  <2> QED
    BY <1>1, <1>2, <1>3, <2>1, <2>2, <2>4, <2>5, <2>6 DEF Inv, LinkedByOneApproval
<1>7. \A q \in Workers \ {p} : work[q].stage # "scanned"
  BY <1>4 DEF Free, Inv, ReadIsStill
<1> QED
  BY <1>1, <1>2, <1>3, <1>4, <1>5, <1>6, <1>7, DecidingKeepsInv

-----------------------------------------------------------------------------
(* The theorems *)

LEMMA StepKeepsInv == Inv /\ [Next]_vars => Inv'
<1> SUFFICES ASSUME Inv, [Next]_vars PROVE Inv'
  OBVIOUS
<1>1. CASE Tick
  BY <1>1, TickKeepsInv
<1>2. ASSUME NEW i \in Identities, NEW new \in {"active", "suspended", "disabled"}, SetStatus(i, new)
      PROVE  Inv'
  BY <1>2, SetStatusKeepsInv
<1>3. ASSUME NEW p \in Workers, Step(p) PROVE Inv'
  <2>1. ASSUME NEW x \in Principals, Arrive(p, x) PROVE Inv'
    BY <2>1, ArriveKeepsInv
  <2>2. CASE Look(p)
    BY <2>2, LookKeepsInv
  <2>3. CASE Scan(p)
    BY <2>3, ScanKeepsInv
  <2>4. ASSUME NEW r \in Requests, Insert(p, r) PROVE Inv'
    BY <2>4, InsertKeepsInv
  <2>5. ASSUME NEW r \in Requests, NEW i \in Identities \cup {None},
               NEW d \in {"approved", "rejected"}, Decide(p, r, d, i)
        PROVE  Inv'
    BY <2>5, DecideKeepsInv
  <2>6. CASE LockRequest(p)
    BY <2>6, LockRequestKeepsInv
  <2>7. CASE LockIdentity(p)
    BY <2>7, LockIdentityKeepsInv
  <2>8. CASE Approve(p)
    BY <2>8, ApproveKeepsInv
  <2>9. CASE Reject(p)
    BY <2>9, RejectKeepsInv
  <2>10. CASE Fail(p)
    BY <2>10, AnsweringKeepsInv DEF Fail
  <2> QED
    BY <1>3, <2>1, <2>2, <2>3, <2>4, <2>5, <2>6, <2>7, <2>8, <2>9, <2>10 DEF Step
<1>4. CASE UNCHANGED vars
  <2>1. TypeOK' /\ Exclusive'
    BY <1>4 DEF vars, Inv, TypeOK, Exclusive
  <2>2. \A p \in Workers : IsAbout(work[p])' /\ ReadIsStill(work[p])'
    BY <1>4 DEF vars, Inv, IsAbout, ReadIsStill, ActiveOf
  <2>3. RequestsLast' /\ OneActiveRequest' /\ LinkedByOneApproval'
    BY <1>4 DEF vars, Inv, RequestsLast, OneActiveRequest, LinkedByOneApproval, Of
  <2> QED
    BY <2>1, <2>2, <2>3 DEF Inv
<1> QED
  BY <1>1, <1>2, <1>3, <1>4 DEF Next

\* What every login and every decision holds, reads and makes stays proper.
THEOREM LinksInvariant == Spec => []Inv
BY InitInv, StepKeepsInv, PTL DEF Spec

\* However many logins of one principal run together, its pending requests
\* never overlap.
THEOREM WindowsAreDisjoint == Spec => []OneActiveRequest
<1>1. Inv => OneActiveRequest
  BY DEF Inv
<1> QED
  BY <1>1, LinksInvariant, PTL

\* A link is there if and only if exactly one request of its principal has been
\* approved, for the identity of the link.
THEOREM LinksComeFromOneApproval == Spec => []LinkedByOneApproval
<1>1. Inv => LinkedByOneApproval
  BY DEF Inv
<1> QED
  BY <1>1, LinksInvariant, PTL

\* What has been decided, and what has been linked, stays so; a link is made to
\* an identity that is active at that moment.
THEOREM DecisionsAreFinal == Spec => DecisionsStand
<1> DEFINE Stand ==
       /\ \A r \in Requests :
             requests[r].status \in {"approved", "rejected"} => requests'[r] = requests[r]
       /\ \A x \in Principals :
             links'[x] # links[x] => links[x] = None /\ status[links'[x]] = "active"
<1>1. Inv /\ [Next]_vars => Stand
  <2> SUFFICES ASSUME Inv, [Next]_vars PROVE Stand
    OBVIOUS
  <2>1. CASE UNCHANGED <<requests, links>>
    BY <2>1
  <2>2. ASSUME NEW p \in Workers, NEW r \in Requests, Insert(p, r) PROVE Stand
    BY <2>2 DEF Insert, Inv, TypeOK
  <2>3. ASSUME NEW p \in Workers, Approve(p) PROVE Stand
    <3>1. /\ work[p].request \in Requests /\ requests[work[p].request].status = "pending"
          /\ status[work[p].target] = "active"
      BY <2>3 DEF Approve, Inv, IsAbout, ReadIsStill
    <3> QED
      BY <2>3, <3>1 DEF Approve, Linkable, Inv, TypeOK
  <2>4. ASSUME NEW p \in Workers, Reject(p) PROVE Stand
    <3>1. work[p].request \in Requests /\ requests[work[p].request].status = "pending"
      BY <2>4 DEF Reject, Inv, IsAbout, ReadIsStill
    <3> QED
      BY <2>4, <3>1 DEF Reject, Inv, TypeOK
  <2> QED
    BY <2>1, <2>2, <2>3, <2>4 DEF Next, Step, Tick, SetStatus, Arrive, Look, Scan, Decide,
                                  LockRequest, LockIdentity, Fail, registry, vars
<1> QED
  BY <1>1, LinksInvariant, PTL DEF Spec, DecisionsStand
=============================================================================
