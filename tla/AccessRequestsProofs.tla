------------------------ MODULE AccessRequestsProofs --------------------------
(***************************************************************************)
(* Proofs about AccessRequests for every value of its constants.           *)
(***************************************************************************)
EXTENDS AccessRequests, TLAPS

USE AccessAssumption DEF AccessAssumption

\* The rows that hold what a decision reads and writes are locked by one.
LEMMA RowsAreNotShared ==
    /\ \A r, a : <<"line", r, a>> \notin Shared
    /\ \A r : <<"request", r>> \notin Shared
    /\ \A i, a : <<"grant", i, a>> \notin Shared
    /\ <<"audit head">> \notin Shared
<1>1. \A z \in Shared : z[1] \in {"range", "gap", "share"}
  BY DEF Shared
<1>2. \A r, a : <<"line", r, a>>[1] = "line" /\ <<"request", r>>[1] = "request"
                  /\ <<"grant", r, a>>[1] = "grant" /\ <<"audit head">>[1] = "audit head"
  OBVIOUS
<1> QED
  BY <1>1, <1>2

LEMMA IdleType == Idle \in WorkRecord
BY DEF Idle, WorkRecord, Stage, Deciding, NoneSeen, LineStatus

LEMMA SummaryType ==
    ASSUME NEW seen PROVE Summary(seen) \in {"pending", "approved", "partially_approved", "refused"}
BY DEF Summary

\* One assignment decided leaves assignments.
LEMMA GrantsType ==
    ASSUME TypeOK, NEW i \in Identities, NEW a \in Applications, NEW g \in GrantRecord
    PROVE  [grants EXCEPT ![i][a] = g] \in [Identities -> [Applications -> GrantRecord]]
<1>1. grants[i] \in [Applications -> GrantRecord]
  BY DEF TypeOK
<1>2. [grants[i] EXCEPT ![a] = g] \in [Applications -> GrantRecord]
  BY <1>1
<1>3. [grants EXCEPT ![i][a] = g] = [grants EXCEPT ![i] = [grants[i] EXCEPT ![a] = g]]
  BY DEF TypeOK
<1> QED
  BY <1>2, <1>3 DEF TypeOK

-----------------------------------------------------------------------------
(* The registry does not change *)

\* A worker that moves on without writing keeps the invariant, if no other has
\* locked the rows it locks and if what it holds is proper.
LEMMA MovingKeepsInv ==
    ASSUME Inv, NEW p \in Workers, NEW x \in WorkRecord, Become(p, x),
           \A q \in Workers \ {p} : work[q].locks \cap x.locks \subseteq Shared,
           x.stage \in {"submitted", "scanned"} => x.email \in Emails /\ x.asked # {},
           x.stage = "scanned" =>
              <<"range", x.email>> \in x.locks /\ Twins(x.email, x.asked) = {},
           x.stage \in {"read", "ready"} \cup Deciding =>
              /\ x.request \in Requests /\ x.application \in Applications /\ x.decider \in Identities
              /\ lines[x.request][x.application].status # "none"
              /\ x.stage \in {"read", "line"} => x.decision = "approved"
              /\ x.stage # "read" => (x.target # None <=> x.decision = "approved"),
           x.stage \in Deciding =>
              /\ <<"line", x.request, x.application>> \in x.locks
              /\ lines[x.request][x.application].status = "pending",
           x.stage = "counted" =>
              /\ <<"request", x.request>> \in x.locks
              /\ x.seen = [Statuses(x.request) EXCEPT ![x.application] = x.decision],
           UNCHANGED <<status, grants, requests, lines>>
    PROVE  Inv'
<1> USE DEF Inv
<1>1. TypeOK'
  BY DEF TypeOK, Become
<1>2. \A q \in Workers : work'[q] = IF q = p THEN x ELSE work[q]
  BY DEF TypeOK, Become
<1>3. Exclusive'
  BY <1>2 DEF Exclusive
<1>4. DepositsAreProper'
  <2>1. \A e, asked : Twins(e, asked)' = Twins(e, asked)
    BY DEF Twins, PendingOf, AskedIn
  <2> QED
    BY <1>2, <2>1 DEF DepositsAreProper
<1>5. DecisionsAreProper'
  <2>1. \A q \in Workers : q # p => Seen(q)' = Seen(q) /\ LineRow(q)' = LineRow(q)
    BY <1>2 DEF Seen, Statuses, LineRow
  <2>2. /\ LineRow(p)' = <<"line", x.request, x.application>>
        /\ Seen(p)' = [Statuses(x.request) EXCEPT ![x.application] = x.decision]
    BY <1>2 DEF Seen, Statuses, LineRow
  <2> QED
    BY <1>2, <2>1, <2>2 DEF DecisionsAreProper, Deciding
<1>6. LinesAreProper' /\ StatusIsSummary' /\ NoTwins'
  BY DEF LinesAreProper, StatusIsSummary, NoTwins, Statuses, PendingOf, AskedIn
<1> QED
  BY <1>1, <1>3, <1>4, <1>5, <1>6

\* What happens to the identities and to the assignments does not concern the
\* requests.
LEMMA EnvironmentKeepsInv == Inv /\ Environment => Inv'
<1> SUFFICES ASSUME Inv, Environment PROVE Inv'
  OBVIOUS
<1>1. UNCHANGED <<requests, lines, work>>
  BY DEF Environment, SetStatus, Disable, DecideGrant
<1>2. TypeOK'
  <2>1. ASSUME NEW i \in Identities, NEW new \in {"active", "suspended"}, SetStatus(i, new) PROVE TypeOK'
    BY <2>1 DEF SetStatus, Inv, TypeOK
  <2>2. \A i \in Identities, a \in Applications : grants[i][a] \in GrantRecord
    BY DEF Inv, TypeOK
  <2>3. \A i \in Identities, a \in Applications : grants[i][a].version + 1 \in Nat
    BY <2>2 DEF GrantRecord
  <2>4. ASSUME NEW i \in Identities, Disable(i) PROVE TypeOK'
    <3> DEFINE f == [a \in Applications |->
                       IF grants[i][a].status = "active"
                          THEN [status |-> "revoked", version |-> grants[i][a].version + 1]
                          ELSE grants[i][a]]
    <3>1. f \in [Applications -> GrantRecord]
      BY <2>2, <2>3 DEF GrantRecord
    <3>2. grants' = [grants EXCEPT ![i] = f]
      BY <2>4 DEF Disable
    <3> HIDE DEF f
    <3> QED
      BY <2>4, <3>1, <3>2 DEF Disable, Inv, TypeOK
  <2>5. ASSUME NEW i \in Identities, NEW a \in Applications, NEW new \in {"active", "revoked"},
               DecideGrant(i, a, new) PROVE TypeOK'
    <3> DEFINE g == [status |-> new, version |-> grants[i][a].version + 1]
    <3>1. g \in GrantRecord
      BY <2>3 DEF GrantRecord
    <3>2. grants' = [grants EXCEPT ![i][a] = g]
      BY <2>5 DEF DecideGrant
    <3> HIDE DEF g
    <3>3. grants' \in [Identities -> [Applications -> GrantRecord]]
      BY <3>1, <3>2, GrantsType DEF Inv
    <3> QED
      BY <2>5, <3>3 DEF DecideGrant, Inv, TypeOK
  <2> QED
    BY <2>1, <2>4, <2>5 DEF Environment
<1> QED
  BY <1>1, <1>2 DEF Inv, Exclusive, DepositsAreProper, DecisionsAreProper, LinesAreProper,
                    StatusIsSummary, NoTwins, Twins, PendingOf, AskedIn, Statuses, Seen, LineRow

LEMMA InitInv == Init => Inv
<1> SUFFICES ASSUME Init PROVE Inv
  OBVIOUS
<1>1. TypeOK
  BY IdleType DEF Init, TypeOK, GrantRecord, RequestRecord, NoLines, NoLine, LineRecord, LineStatus
<1>2. Exclusive /\ DepositsAreProper /\ DecisionsAreProper
  BY DEF Init, Exclusive, DepositsAreProper, DecisionsAreProper, Idle, Deciding
<1>3. LinesAreProper /\ StatusIsSummary /\ NoTwins
  BY DEF Init, LinesAreProper, StatusIsSummary, NoTwins, NoLines, NoLine, PendingOf
<1> QED
  BY <1>1, <1>2, <1>3 DEF Inv

-----------------------------------------------------------------------------
(* The steps of a worker *)

\* A worker that has answered holds nothing.
LEMMA AnsweringKeepsInv ==
    ASSUME Inv, NEW p \in Workers, Answer(p), UNCHANGED <<status, grants, requests, lines>>
    PROVE  Inv'
BY MovingKeepsInv, IdleType DEF Answer, Idle, Deciding

LEMMA WorkType ==
    ASSUME Inv, NEW p \in Workers
    PROVE  /\ work[p] \in WorkRecord
           /\ work[p].stage \in Stage /\ work[p].email \in Emails \cup {None}
           /\ work[p].asked \in SUBSET Applications
           /\ work[p].request \in Requests \cup {None}
           /\ work[p].application \in Applications \cup {None}
           /\ work[p].decision \in {"approved", "refused"}
           /\ work[p].target \in Identities \cup {None}
           /\ work[p].decider \in Identities \cup {None}
           /\ work[p].gap \in Gaps \cup {None}
           /\ work[p].creates \in BOOLEAN
           /\ work[p].version \in Nat
           /\ work[p].locks \in SUBSET Row
BY DEF Inv, TypeOK, WorkRecord

\* Depositing, until the scan.
LEMMA SubmitKeepsInv ==
    ASSUME Inv, NEW p \in Workers, NEW e \in Emails, NEW asked \in SUBSET Applications,
           Submit(p, e, asked)
    PROVE  Inv'
<1> DEFINE x == [Idle EXCEPT !.stage = "submitted", !.email = e, !.asked = asked]
<1>1. x \in WorkRecord
  BY IdleType DEF WorkRecord, Stage
<1>2. x.stage = "submitted" /\ x.email = e /\ x.asked = asked /\ x.locks = {}
  BY DEF Idle
<1>3. Become(p, x) /\ asked # {} /\ UNCHANGED <<status, grants, requests, lines>>
  BY DEF Submit
<1> HIDE DEF x
<1> QED
  BY <1>1, <1>2, <1>3, MovingKeepsInv DEF Deciding

LEMMA ScanKeepsInv ==
    ASSUME Inv, NEW p \in Workers, Scan(p) PROVE Inv'
<1> DEFINE e == work[p].email
           rows == {<<"request", r>> : r \in PendingOf(e)}
                      \cup {<<"line", r, a>> : r \in PendingOf(e), a \in Applications}
           held == rows \cup {<<"range", e>>}
           x == [work[p] EXCEPT !.stage = "scanned", !.locks = held]
<1>1. e \in Emails /\ work[p].asked # {}
  BY DEF Inv, DepositsAreProper, Scan
<1>2. held \in SUBSET Row
  <2>1. \A r \in PendingOf(e) : r \in Requests
    BY DEF PendingOf
  <2>2. ASSUME NEW r \in PendingOf(e) PROVE <<"request", r>> \in Row
    BY <2>1 DEF Row
  <2>3. ASSUME NEW r \in PendingOf(e), NEW a \in Applications PROVE <<"line", r, a>> \in Row
    BY <2>1 DEF Row
  <2>4. <<"range", e>> \in Row
    BY <1>1 DEF Row
  <2>5. held \subseteq Row
    BY <2>2, <2>3, <2>4
  <2> QED
    BY <2>5
<1>3. work[p] \in WorkRecord /\ "scanned" \in Stage
  BY WorkType DEF Stage
<1>4. /\ x \in WorkRecord
      /\ x.stage = "scanned" /\ x.email = e /\ x.asked = work[p].asked
      /\ x.locks = held
  <2> HIDE DEF held
  <2> QED
    BY <1>2, <1>3 DEF WorkRecord
<1>5. /\ \A q \in Workers \ {p} : work[q].locks \cap x.locks \subseteq Shared
      /\ <<"range", e>> \in x.locks
  BY <1>1, <1>4 DEF Scan, Free, Shared
<1>6. CASE Twins(e, work[p].asked) = {}
  <2>1. Become(p, x) /\ UNCHANGED <<status, grants, requests, lines>>
    BY <1>6 DEF Scan
  <2> HIDE DEF x, held
  <2> QED
    BY <1>1, <1>4, <1>5, <1>6, <2>1, MovingKeepsInv DEF Deciding
<1>7. CASE Twins(e, work[p].asked) # {}
  BY <1>7, AnsweringKeepsInv DEF Scan
<1> QED
  BY <1>6, <1>7

\* Deciding, until the commit.
LEMMA ReadLineKeepsInv ==
    ASSUME Inv, NEW p \in Workers, NEW d \in Identities, NEW r \in Requests, NEW a \in Applications,
           NEW c \in {"approved", "refused"}, ReadLine(p, d, r, a, c)
    PROVE  Inv'
<1> DEFINE x == [Idle EXCEPT !.request = r, !.application = a, !.decision = c, !.decider = d,
                             !.stage = IF c = "approved" THEN "read" ELSE "ready"]
<1>1. x \in WorkRecord
  BY IdleType DEF WorkRecord, Stage
<1>2. /\ x.stage = IF c = "approved" THEN "read" ELSE "ready"
      /\ x.request = r /\ x.application = a /\ x.decision = c /\ x.decider = d
      /\ x.target = None /\ x.locks = {}
  BY DEF Idle
<1>3. Become(p, x) /\ lines[r][a].status = "pending" /\ UNCHANGED <<status, grants, requests, lines>>
  BY DEF ReadLine
<1> HIDE DEF x
<1> QED
  BY <1>1, <1>2, <1>3, MovingKeepsInv DEF Deciding

LEMMA PrepareKeepsInv ==
    ASSUME Inv, NEW p \in Workers, NEW i \in Identities, Prepare(p, i) PROVE Inv'
<1> DEFINE g == grants[i][work[p].application]
           creating == g.status # "active"
           x == [work[p] EXCEPT !.stage = "ready", !.target = i, !.version = g.version,
                                !.creates = creating]
<1>1. /\ work[p].request \in Requests /\ work[p].application \in Applications
      /\ work[p].decider \in Identities
      /\ lines[work[p].request][work[p].application].status # "none"
      /\ work[p].decision = "approved"
  BY DEF Inv, DecisionsAreProper, Prepare
<1>2. g \in GrantRecord
  BY <1>1 DEF Inv, TypeOK
<1>3. g.version \in Nat /\ creating \in BOOLEAN /\ "ready" \in Stage
  BY <1>2 DEF GrantRecord, Stage
<1>4. /\ x \in WorkRecord
      /\ x.stage = "ready" /\ x.request = work[p].request /\ x.application = work[p].application
      /\ x.decision = work[p].decision /\ x.decider = work[p].decider
      /\ x.target = i /\ x.locks = work[p].locks
  <2> DEFINE v == g.version
  <2>1. x = [work[p] EXCEPT !.stage = "ready", !.target = i, !.version = v, !.creates = creating]
    OBVIOUS
  <2>2. v \in Nat /\ work[p] \in WorkRecord
    BY <1>3, WorkType
  <2> HIDE DEF g, creating, v, x
  <2>3. /\ x.stage = "ready" /\ x.request = work[p].request /\ x.application = work[p].application
        /\ x.decision = work[p].decision /\ x.decider = work[p].decider
        /\ x.target = i /\ x.locks = work[p].locks
    BY <2>1, <2>2 DEF WorkRecord
  <2>4. x \in WorkRecord
    BY <1>3, <2>1, <2>2 DEF WorkRecord
  <2> QED
    BY <2>3, <2>4
<1>5. Become(p, x) /\ UNCHANGED <<status, grants, requests, lines>>
  BY DEF Prepare
<1>6. \A q \in Workers \ {p} : work[q].locks \cap x.locks \subseteq Shared
  BY <1>4 DEF Inv, Exclusive
<1> HIDE DEF x
<1> QED
  BY <1>1, <1>4, <1>5, <1>6, MovingKeepsInv DEF Deciding

\* A decision goes on under more locks, those it has waited for or those others
\* may have too, until it counts.
LEMMA LockingKeepsInv ==
    ASSUME Inv, NEW p \in Workers, NEW s \in Deciding, s # "counted", NEW g \in Gaps \cup {None},
           NEW rows \in SUBSET Row, rows \subseteq Wanted(p) \cup Shared,
           work[p].stage \in {"ready"} \cup Deciding,
           lines[work[p].request][work[p].application].status = "pending",
           LineRow(p) \in work[p].locks \cup rows,
           s = "line" => work[p].decision = "approved",
           Lock(p, rows, [work[p] EXCEPT !.stage = s, !.gap = g]),
           UNCHANGED <<status, grants, requests, lines>>
    PROVE  Inv'
<1> DEFINE held == work[p].locks \cup rows
           x == [[work[p] EXCEPT !.stage = s, !.gap = g] EXCEPT !.locks = @ \cup rows]
<1>1. /\ work[p].request \in Requests /\ work[p].application \in Applications
      /\ work[p].decider \in Identities
      /\ work[p].target # None <=> work[p].decision = "approved"
  BY DEF Inv, DecisionsAreProper, Deciding
<1>2. work[p] \in WorkRecord /\ held \in SUBSET Row /\ s \in Stage
  BY WorkType DEF Stage
<1>3. /\ x \in WorkRecord
      /\ x.stage = s /\ x.request = work[p].request /\ x.application = work[p].application
      /\ x.decision = work[p].decision /\ x.decider = work[p].decider
      /\ x.target = work[p].target /\ x.locks = held
  <2>1. x = [work[p] EXCEPT !.stage = s, !.gap = g, !.locks = held]
    BY WorkType DEF WorkRecord
  <2> HIDE DEF held, x
  <2> QED
    BY <1>2, <2>1 DEF WorkRecord
<1>4. Become(p, x) /\ Free(p, Wanted(p))
  BY DEF Lock
<1>5. \A q \in Workers \ {p} : work[q].locks \cap x.locks \subseteq Shared
  <2> HIDE DEF x
  <2> QED
    BY <1>3, <1>4 DEF Free, Inv, Exclusive
<1>6. <<"line", x.request, x.application>> \in x.locks
  <2> HIDE DEF x
  <2> QED
    BY <1>3 DEF LineRow
<1>7. x.stage \notin {"read", "submitted", "scanned", "counted"}
  <2> HIDE DEF x
  <2> QED
    BY <1>3 DEF Deciding
<1> HIDE DEF x, held
<1> QED
  BY <1>1, <1>3, <1>4, <1>5, <1>6, <1>7, MovingKeepsInv

LEMMA LockLineKeepsInv ==
    ASSUME Inv, NEW p \in Workers, LockLine(p) PROVE Inv'
<1> DEFINE s == IF work[p].decision = "approved" THEN "line" ELSE "decision"
           g == work[p].gap
           rows == {LineRow(p)}
<1>1. /\ work[p].stage = "ready" /\ work[p].request \in Requests /\ work[p].application \in Applications
      /\ lines[work[p].request][work[p].application].status = "pending"
      /\ UNCHANGED <<status, grants, requests, lines>>
  BY DEF Inv, DecisionsAreProper, LockLine
<1>2. [work[p] EXCEPT !.stage = s, !.gap = g] = [work[p] EXCEPT !.stage = s]
  BY WorkType DEF WorkRecord
<1>3. Lock(p, rows, [work[p] EXCEPT !.stage = s])
  BY DEF LockLine
<1>4. rows \in SUBSET Row /\ rows \subseteq Wanted(p) \cup Shared /\ LineRow(p) \in rows
  BY <1>1 DEF LineRow, Row, Wanted
<1>5. s \in Deciding /\ s # "counted" /\ (s = "line" => work[p].decision = "approved")
  BY DEF Deciding
<1>6. g \in Gaps \cup {None}
  BY WorkType
<1> HIDE DEF s, g, rows
<1>7. Lock(p, rows, [work[p] EXCEPT !.stage = s, !.gap = g])
  BY <1>2, <1>3
<1>8. work[p].stage \in {"ready"} \cup Deciding /\ LineRow(p) \in work[p].locks \cup rows
  BY <1>1, <1>4
<1> QED
  BY <1>1, <1>4, <1>5, <1>6, <1>7, <1>8, LockingKeepsInv

LEMMA LockTargetKeepsInv ==
    ASSUME Inv, NEW p \in Workers, NEW g \in Gaps \cup {None}, LockTarget(p, g) PROVE Inv'
<1> DEFINE s == IF work[p].creates THEN "target" ELSE "decision"
           rows == TargetRows(p) \cup GapRow(g)
<1>1. /\ work[p].stage = "line" /\ work[p].request \in Requests /\ work[p].application \in Applications
      /\ lines[work[p].request][work[p].application].status = "pending"
      /\ work[p].target # None /\ LineRow(p) \in work[p].locks
      /\ UNCHANGED <<status, grants, requests, lines>>
  BY DEF Inv, DecisionsAreProper, LockTarget, Deciding
<1>2. work[p].target \in Identities
  BY <1>1, WorkType
<1>3. Lock(p, rows, [work[p] EXCEPT !.stage = s, !.gap = g])
  BY DEF LockTarget, AfterTarget
<1>4. rows \in SUBSET Row
  <2>1. <<"identity", work[p].target>> \in Row
    BY <1>2 DEF Row
  <2>3. GapRow(g) \subseteq Row
    <3>1. CASE g = None
      BY <3>1 DEF GapRow
    <3>2. CASE g \in Gaps
      <4>1. <<"gap", g>> \in Row
        BY <3>2 DEF Row
      <4> QED
        BY <3>2, <4>1 DEF GapRow
    <3> QED
      BY <3>1, <3>2
  <2>2. <<"grant", work[p].target, work[p].application>> \in Row
    BY <1>1, <1>2 DEF Row
  <2> QED
    BY <2>1, <2>2, <2>3 DEF TargetRows
<1>5. rows \subseteq Wanted(p) \cup Shared
  <2>1. GapRow(g) \subseteq Shared
    BY DEF GapRow, Shared
  <2>2. Wanted(p) = TargetRows(p) \cup {<<"share", work[p].target>>}
    BY <1>1 DEF Wanted
  <2> QED
    BY <2>1, <2>2
<1>6. s \in Deciding /\ s # "counted" /\ s # "line"
  BY DEF Deciding
<1>7. work[p].stage \in {"ready"} \cup Deciding
  BY <1>1 DEF Deciding
<1> HIDE DEF s, rows
<1> QED
  BY <1>1, <1>3, <1>4, <1>5, <1>6, <1>7, LockingKeepsInv

LEMMA SaveGrantKeepsInv ==
    ASSUME Inv, NEW p \in Workers, SaveGrant(p) PROVE Inv'
<1> DEFINE g == work[p].gap
           rows == {<<"audit head">>}
<1>1. /\ work[p].stage = "target" /\ work[p].decider \in Identities
      /\ lines[work[p].request][work[p].application].status = "pending"
      /\ LineRow(p) \in work[p].locks
      /\ UNCHANGED <<status, grants, requests, lines>>
  BY DEF Inv, DecisionsAreProper, SaveGrant, Deciding
<1>2. [work[p] EXCEPT !.stage = "decision", !.gap = g] = [work[p] EXCEPT !.stage = "decision"]
  BY WorkType DEF WorkRecord
<1>3. Lock(p, rows, [work[p] EXCEPT !.stage = "decision"])
  BY DEF SaveGrant
<1>4. rows \in SUBSET Row /\ rows \subseteq Wanted(p) \cup Shared
  BY <1>1 DEF Row, Wanted
<1>5. "decision" \in Deciding /\ work[p].stage \in {"ready"} \cup Deciding
  BY <1>1 DEF Deciding
<1>6. g \in Gaps \cup {None}
  BY WorkType
<1> HIDE DEF g, rows
<1>7. Lock(p, rows, [work[p] EXCEPT !.stage = "decision", !.gap = g])
  BY <1>2, <1>3
<1> QED
  BY <1>1, <1>4, <1>5, <1>6, <1>7, LockingKeepsInv

LEMMA MarkLineKeepsInv ==
    ASSUME Inv, NEW p \in Workers, MarkLine(p) PROVE Inv'
<1> DEFINE g == work[p].gap
           rows == {<<"share", work[p].decider>>}
<1>1. /\ work[p].stage = "decision" /\ work[p].decider \in Identities
      /\ lines[work[p].request][work[p].application].status = "pending"
      /\ LineRow(p) \in work[p].locks
      /\ UNCHANGED <<status, grants, requests, lines>>
  BY DEF Inv, DecisionsAreProper, MarkLine, Deciding
<1>2. [work[p] EXCEPT !.stage = "decided", !.gap = g] = [work[p] EXCEPT !.stage = "decided"]
  BY WorkType DEF WorkRecord
<1>3. Lock(p, rows, [work[p] EXCEPT !.stage = "decided"])
  BY DEF MarkLine
<1>4. rows \in SUBSET Row /\ rows \subseteq Wanted(p) \cup Shared
  BY <1>1 DEF Row, Shared
<1>5. "decided" \in Deciding /\ work[p].stage \in {"ready"} \cup Deciding
  BY <1>1 DEF Deciding
<1>6. g \in Gaps \cup {None}
  BY WorkType
<1> HIDE DEF g, rows
<1>7. Lock(p, rows, [work[p] EXCEPT !.stage = "decided", !.gap = g])
  BY <1>2, <1>3
<1> QED
  BY <1>1, <1>4, <1>5, <1>6, <1>7, LockingKeepsInv

LEMMA CountKeepsInv ==
    ASSUME Inv, NEW p \in Workers, Count(p) PROVE Inv'
<1> DEFINE rows == {<<"request", work[p].request>>}
           held == work[p].locks \cup rows
           counts == Seen(p)
           x == [[work[p] EXCEPT !.stage = "counted", !.seen = counts] EXCEPT !.locks = @ \cup rows]
<1>1. /\ work[p].request \in Requests /\ work[p].application \in Applications
      /\ lines[work[p].request][work[p].application].status = "pending"
      /\ work[p].target # None <=> work[p].decision = "approved"
      /\ work[p].decider \in Identities
      /\ <<"line", work[p].request, work[p].application>> \in work[p].locks
  BY DEF Inv, DecisionsAreProper, Count, LineRow, Deciding
<1>2. UNCHANGED <<status, grants, requests, lines>> /\ Free(p, rows) /\ Become(p, x)
  BY DEF Count, Lock, Wanted
<1>3. work[p] \in WorkRecord /\ held \in SUBSET Row /\ "counted" \in Stage
  <2>1. <<"request", work[p].request>> \in Row
    BY <1>1 DEF Row
  <2> QED
    BY <2>1, WorkType DEF Stage, Deciding
<1>4. counts \in [Applications -> LineStatus \cup {"none"}]
  BY <1>1, WorkType DEF Seen, Statuses, Inv, TypeOK, LineRecord, LineStatus
<1>5. /\ x \in WorkRecord
      /\ x.stage = "counted" /\ x.request = work[p].request /\ x.application = work[p].application
      /\ x.decision = work[p].decision /\ x.decider = work[p].decider
      /\ x.target = work[p].target /\ x.locks = held
      /\ x.seen = counts
  <2>1. x = [work[p] EXCEPT !.stage = "counted", !.seen = counts, !.locks = held]
    <3> HIDE DEF counts, rows
    <3> QED
      BY WorkType DEF WorkRecord
  <2> HIDE DEF held, x, counts
  <2> QED
    BY <1>3, <1>4, <2>1 DEF WorkRecord
<1>6. \A q \in Workers \ {p} : work[q].locks \cap x.locks \subseteq Shared
  <2> HIDE DEF rows, x
  <2> QED
    BY <1>2, <1>5 DEF Free, Inv, Exclusive
<1>7. /\ <<"line", x.request, x.application>> \in x.locks
      /\ <<"request", x.request>> \in x.locks
      /\ x.seen = [Statuses(x.request) EXCEPT ![x.application] = x.decision]
  <2> HIDE DEF x
  <2> QED
    BY <1>1, <1>5 DEF Seen
<1> HIDE DEF x
<1> QED
  BY <1>1, <1>2, <1>5, <1>6, <1>7, MovingKeepsInv DEF Deciding

-----------------------------------------------------------------------------
(* The two steps that write requests *)

\* The lock of the range keeps every other deposit of the address from being
\* scanned: no twin has been made since.
LEMMA InsertKeepsInv ==
    ASSUME Inv, NEW p \in Workers, NEW r \in Requests, Insert(p, r) PROVE Inv'
<1> DEFINE e == work[p].email
           made == [status |-> "pending", email |-> e]
           ln == [a \in Applications |->
                    IF a \in work[p].asked THEN [NoLine EXCEPT !.status = "pending"] ELSE NoLine]
<1>1. /\ e \in Emails /\ work[p].asked # {} /\ work[p].asked \subseteq Applications
      /\ Twins(e, work[p].asked) = {}
      /\ requests[r].status = "absent"
  BY WorkType DEF Inv, DepositsAreProper, Insert
<1>2. /\ requests' = [requests EXCEPT ![r] = made]
      /\ lines' = [lines EXCEPT ![r] = ln]
      /\ UNCHANGED <<status, grants>>
      /\ \A q \in Workers \ {p} : <<"range", e>> \notin work[q].locks
      /\ Become(p, Idle)
  BY DEF Insert, Free, Answer
<1>3. \A q \in Workers : work'[q] = IF q = p THEN Idle ELSE work[q]
  BY <1>2 DEF Inv, TypeOK, Become
<1>4. made \in RequestRecord /\ made.status = "pending" /\ made.email = e
  BY <1>1 DEF RequestRecord
<1>5. /\ ln \in [Applications -> LineRecord]
      /\ \A a \in Applications : /\ ln[a].status = IF a \in work[p].asked THEN "pending" ELSE "none"
                                 /\ ln[a].target = None
  BY DEF LineRecord, LineStatus, NoLine
<1> HIDE DEF made, ln
<1>6. /\ \A u \in Requests : requests'[u] = IF u = r THEN made ELSE requests[u]
      /\ \A u \in Requests : lines'[u] = IF u = r THEN ln ELSE lines[u]
  BY <1>2 DEF Inv, TypeOK
<1>7. TypeOK'
  <2>1. /\ requests' \in [Requests -> RequestRecord]
        /\ lines' \in [Requests -> [Applications -> LineRecord]]
        /\ work' \in [Workers -> WorkRecord]
    BY <1>2, <1>4, <1>5, IdleType DEF Inv, TypeOK, Become
  <2>2. \A u \in Requests, a \in Applications :
           lines'[u][a].status = "approved" <=> lines'[u][a].target # None
    BY <1>5, <1>6 DEF Inv, TypeOK
  <2>3. UNCHANGED <<status, grants>>
    BY <1>2
  <2>4. /\ status \in [Identities -> {"active", "suspended", "disabled"}]
        /\ grants \in [Identities -> [Applications -> GrantRecord]]
    BY DEF Inv, TypeOK
  <2> QED
    BY <2>1, <2>2, <2>3, <2>4 DEF TypeOK
<1>8. Exclusive'
  BY <1>3 DEF Inv, Exclusive, Idle
<1>9. /\ \A u \in Requests \ {r} : AskedIn(u)' = AskedIn(u)
      /\ AskedIn(r)' = work[p].asked
  BY <1>1, <1>5, <1>6 DEF AskedIn
<1>10. \A f : PendingOf(f)' = IF f = e THEN PendingOf(f) \cup {r} ELSE PendingOf(f)
  BY <1>1, <1>4, <1>6 DEF PendingOf
<1>11. r \notin PendingOf(e)
  BY <1>1 DEF PendingOf
<1>12. DepositsAreProper'
  <2>1. ASSUME NEW q \in Workers, work'[q].stage = "scanned" PROVE Twins(work[q].email, work[q].asked)' = {}
    <3>1. q # p /\ work'[q] = work[q] /\ work[q].stage = "scanned"
      BY <1>3, <2>1 DEF Idle
    <3>2. work[q].email # e /\ Twins(work[q].email, work[q].asked) = {}
      BY <1>2, <3>1 DEF Inv, DepositsAreProper
    <3>3. \A u \in PendingOf(work[q].email) : u # r
      BY <1>1 DEF PendingOf
    <3>4. PendingOf(work[q].email) \subseteq Requests
      BY DEF PendingOf
    <3> QED
      BY <1>9, <1>10, <3>1, <3>2, <3>3, <3>4 DEF Twins
  <2> QED
    BY <1>3, <2>1 DEF Inv, DepositsAreProper, Idle
<1>13. DecisionsAreProper'
  <2>1. ASSUME NEW q \in Workers, work'[q].stage \in {"read", "ready"} \cup Deciding
        PROVE  /\ work'[q] = work[q] /\ work[q].request \in Requests \ {r}
               /\ work[q].application \in Applications
               /\ lines'[work[q].request] = lines[work[q].request]
               /\ Seen(q)' = Seen(q) /\ LineRow(q)' = LineRow(q)
    <3>1. q # p /\ work'[q] = work[q]
      BY <1>3, <2>1 DEF Idle, Deciding
    <3>2. work[q].request \in Requests \ {r} /\ work[q].application \in Applications
      <4>1. /\ work[q].request \in Requests /\ work[q].application \in Applications
            /\ lines[work[q].request][work[q].application].status # "none"
        BY <2>1, <3>1 DEF Inv, DecisionsAreProper
      <4>2. \A a \in Applications : lines[r][a].status = "none"
        BY <1>1 DEF Inv, LinesAreProper
      <4> QED
        BY <4>1, <4>2
    <3>3. lines'[work[q].request] = lines[work[q].request]
      BY <1>6, <3>2
    <3>4. Seen(q)' = Seen(q)
      BY <3>1, <3>3 DEF Seen, Statuses
    <3>5. LineRow(q)' = LineRow(q)
      BY <3>1 DEF LineRow
    <3> QED
      BY <3>1, <3>2, <3>3, <3>4, <3>5
  <2> QED
    BY <2>1 DEF Inv, DecisionsAreProper, Deciding
<1>14. LinesAreProper'
  BY <1>4, <1>6 DEF Inv, LinesAreProper
<1>15. StatusIsSummary'
  <2>1. \A u \in Requests \ {r} : Statuses(u)' = Statuses(u)
    BY <1>6 DEF Statuses
  <2>2. Summary(Statuses(r)') = "pending"
    BY <1>1, <1>5, <1>6 DEF Summary, Statuses
  <2> QED
    BY <1>4, <1>6, <2>1, <2>2 DEF Inv, StatusIsSummary
<1>16. NoTwins'
  <2> SUFFICES ASSUME NEW u \in Requests, NEW v \in Requests, u # v,
                      NEW f, u \in PendingOf(f)', v \in PendingOf(f)'
               PROVE  AskedIn(u)' # AskedIn(v)'
    BY DEF NoTwins
  <2>1. \A w \in PendingOf(e) : AskedIn(w) # work[p].asked
    BY <1>1 DEF Twins
  <2>2. CASE r \notin {u, v}
    BY <1>9, <1>10, <2>2 DEF Inv, NoTwins, PendingOf
  <2>3. CASE r \in {u, v}
    BY <1>4, <1>6, <1>9, <1>10, <2>1, <2>3 DEF PendingOf
  <2> QED
    BY <2>2, <2>3
<1> QED
  BY <1>7, <1>8, <1>12, <1>13, <1>14, <1>15, <1>16 DEF Inv

\* The line was pending, so its request was: what a commit writes follows from
\* the lines it counted under the lock of the request.
LEMMA CommitKeepsInv ==
    ASSUME Inv, NEW p \in Workers, Commit(p) PROVE Inv'
<1> DEFINE r == work[p].request
           a == work[p].application
           d == Decided(p)
           sum == Summary(work[p].seen)
<1>1. /\ r \in Requests /\ a \in Applications
      /\ lines[r][a].status = "pending"
      /\ work[p].target # None <=> work[p].decision = "approved"
      /\ <<"line", r, a>> \in work[p].locks /\ <<"request", r>> \in work[p].locks
      /\ work[p].seen = [Statuses(r) EXCEPT ![a] = work[p].decision]
  BY DEF Inv, DecisionsAreProper, Commit, LineRow, Seen, Deciding
<1>2. /\ requests' = [requests EXCEPT ![r].status = sum]
      /\ lines' = [lines EXCEPT ![r][a] = d]
      /\ status' = status /\ Become(p, Idle)
  BY DEF Commit, Answer
<1>3. \A q \in Workers : work'[q] = IF q = p THEN Idle ELSE work[q]
  BY <1>2 DEF Inv, TypeOK, Become
<1>4. /\ d \in LineRecord /\ d.status \in {"approved", "refused"}
      /\ d.status = work[p].decision /\ (d.status = "approved" <=> d.target # None)
  BY <1>1, WorkType DEF Decided, LineRecord, LineStatus
<1>5. sum \in {"pending", "approved", "partially_approved", "refused"}
  BY SummaryType
<1>6. requests[r].status = "pending"
  <2>1. requests[r].status # "absent"
    BY <1>1 DEF Inv, LinesAreProper
  <2>2. requests[r].status = Summary(Statuses(r))
    BY <1>1, <2>1 DEF Inv, StatusIsSummary
  <2>3. Statuses(r)[a] = "pending"
    BY <1>1 DEF Statuses
  <2> QED
    BY <1>1, <2>2, <2>3 DEF Summary
<1> HIDE DEF d, sum
<1>7. /\ \A u \in Requests : /\ requests'[u].status = IF u = r THEN sum ELSE requests[u].status
                             /\ requests'[u].email = requests[u].email
      /\ requests' \in [Requests -> RequestRecord]
  <2> DEFINE rec == [requests[r] EXCEPT !.status = sum]
  <2>1. requests[r] \in RequestRecord
    BY <1>1 DEF Inv, TypeOK
  <2>2. rec \in RequestRecord /\ rec.status = sum /\ rec.email = requests[r].email
    BY <1>5, <2>1 DEF RequestRecord
  <2>3. requests' = [requests EXCEPT ![r] = rec]
    BY <1>2
  <2> HIDE DEF rec
  <2> QED
    BY <1>1, <2>2, <2>3 DEF Inv, TypeOK
<1>8. /\ \A u \in Requests, b \in Applications :
            lines'[u][b] = IF u = r /\ b = a THEN d ELSE lines[u][b]
      /\ lines' \in [Requests -> [Applications -> LineRecord]]
  <2> DEFINE ln == [lines[r] EXCEPT ![a] = d]
  <2>1. lines[r] \in [Applications -> LineRecord]
    BY <1>1 DEF Inv, TypeOK
  <2>2. /\ ln \in [Applications -> LineRecord]
        /\ \A b \in Applications : ln[b] = IF b = a THEN d ELSE lines[r][b]
    BY <1>1, <1>4, <2>1
  <2>3. lines' = [lines EXCEPT ![r] = ln]
    BY <1>1, <1>2 DEF Inv, TypeOK
  <2> HIDE DEF ln
  <2> QED
    BY <1>1, <2>2, <2>3 DEF Inv, TypeOK
<1>9. TypeOK'
  <2>1. grants' \in [Identities -> [Applications -> GrantRecord]]
    <3>1. CASE work[p].creates /\ work[p].target \in Identities
      <4> DEFINE g == [status |-> "active", version |-> work[p].version + 1]
      <4>1. g \in GrantRecord
        BY WorkType DEF GrantRecord
      <4>2. grants' = [grants EXCEPT ![work[p].target][a] = g]
        BY <3>1 DEF Commit
      <4> HIDE DEF g
      <4> QED
        BY <1>1, <3>1, <4>1, <4>2, GrantsType DEF Inv
    <3>2. CASE work[p].creates /\ work[p].target \notin Identities
      <4>1. grants' = [grants EXCEPT ![work[p].target][a] =
                          [status |-> "active", version |-> work[p].version + 1]]
        BY <3>2 DEF Commit
      <4>2. grants' = grants
        BY <3>2, <4>1 DEF Inv, TypeOK
      <4> QED
        BY <4>2 DEF Inv, TypeOK
    <3>3. CASE ~ work[p].creates
      BY <3>3 DEF Commit, Inv, TypeOK
    <3> QED
      BY <3>1, <3>2, <3>3
  <2>2. work' \in [Workers -> WorkRecord]
    BY <1>2, IdleType DEF Inv, TypeOK, Become
  <2>3. \A u \in Requests, b \in Applications :
           lines'[u][b].status = "approved" <=> lines'[u][b].target # None
    BY <1>4, <1>8 DEF Inv, TypeOK
  <2> QED
    BY <1>2, <1>7, <1>8, <2>1, <2>2, <2>3 DEF Inv, TypeOK
<1>10. Exclusive'
  BY <1>3 DEF Inv, Exclusive, Idle
<1>11. \A u : AskedIn(u)' = {b \in Applications : lines'[u][b].status # "none"}
  BY DEF AskedIn
<1>12. \A u \in Requests : AskedIn(u)' = AskedIn(u)
  BY <1>1, <1>4, <1>8 DEF AskedIn
<1>13. \A e : PendingOf(e)' \subseteq PendingOf(e)
  BY <1>6, <1>7 DEF PendingOf
<1>14. DepositsAreProper'
  <2>1. \A e, asked : Twins(e, asked)' \subseteq Twins(e, asked)
    BY <1>12, <1>13 DEF Twins, PendingOf
  <2> QED
    BY <1>3, <2>1 DEF Inv, DepositsAreProper, Idle
<1>15. DecisionsAreProper'
  <2>1. ASSUME NEW q \in Workers, work'[q].stage \in {"read", "ready"} \cup Deciding
        PROVE  /\ q # p /\ work'[q] = work[q]
               /\ work[q].request \in Requests /\ work[q].application \in Applications
               /\ work[q].decider \in Identities
               /\ lines[work[q].request][work[q].application].status # "none"
               /\ lines'[work[q].request][work[q].application].status # "none"
               /\ work[q].stage \in {"read", "line"} => work[q].decision = "approved"
               /\ work[q].stage # "read" => (work[q].target # None <=> work[q].decision = "approved")
    <3>1. q # p /\ work'[q] = work[q]
      BY <1>3, <2>1 DEF Idle, Deciding
    <3>2. /\ work[q].request \in Requests /\ work[q].application \in Applications
          /\ work[q].decider \in Identities
          /\ lines[work[q].request][work[q].application].status # "none"
          /\ work[q].stage \in {"read", "line"} => work[q].decision = "approved"
          /\ work[q].stage # "read" => (work[q].target # None <=> work[q].decision = "approved")
      BY <2>1, <3>1 DEF Inv, DecisionsAreProper
    <3>3. lines'[work[q].request][work[q].application].status # "none"
      BY <1>4, <1>8, <3>2
    <3> QED
      BY <3>1, <3>2, <3>3
  <2>2. ASSUME NEW q \in Workers, work'[q].stage \in Deciding
        PROVE  /\ LineRow(q)' \in work'[q].locks
               /\ lines'[work[q].request][work[q].application].status = "pending"
    <3>1. /\ q # p /\ work'[q] = work[q]
          /\ work[q].request \in Requests /\ work[q].application \in Applications
      BY <2>1, <2>2
    <3>2. /\ <<"line", work[q].request, work[q].application>> \in work[q].locks
          /\ lines[work[q].request][work[q].application].status = "pending"
      BY <2>2, <3>1 DEF Inv, DecisionsAreProper, LineRow
    <3>3. <<"line", work[q].request, work[q].application>> # <<"line", r, a>>
      BY <1>1, <3>1, <3>2, RowsAreNotShared DEF Inv, Exclusive
    <3>4. lines'[work[q].request][work[q].application] = lines[work[q].request][work[q].application]
      BY <1>8, <3>1, <3>3
    <3> QED
      BY <3>1, <3>2, <3>4 DEF LineRow
  <2>3. ASSUME NEW q \in Workers, work'[q].stage = "counted"
        PROVE  /\ <<"request", work'[q].request>> \in work'[q].locks
               /\ work'[q].seen = Seen(q)'
    <3>1. q # p /\ work'[q] = work[q] /\ work[q].request \in Requests
      BY <2>1, <2>3 DEF Deciding
    <3>2. <<"request", work[q].request>> \in work[q].locks /\ work[q].seen = Seen(q)
      BY <2>3, <3>1 DEF Inv, DecisionsAreProper
    <3>3. work[q].request # r
      BY <1>1, <3>1, <3>2, RowsAreNotShared DEF Inv, Exclusive
    <3>4. Statuses(work[q].request)' = Statuses(work[q].request)
      BY <1>8, <3>1, <3>3 DEF Statuses
    <3>5. Seen(q)' = Seen(q)
      BY <3>1, <3>4 DEF Seen, Statuses
    <3> QED
      BY <3>1, <3>2, <3>5
  <2> QED
    BY <2>1, <2>2, <2>3 DEF DecisionsAreProper, Deciding
<1>16. LinesAreProper'
  BY <1>5, <1>7, <1>8 DEF Inv, LinesAreProper
<1>17. StatusIsSummary'
  <2>1. \A u \in Requests \ {r} : Statuses(u)' = Statuses(u)
    BY <1>8 DEF Statuses
  <2>2. [b \in Applications |-> lines'[r][b].status] = work[p].seen
    <3> DEFINE before == Statuses(r)
    <3>1. before \in [Applications -> {lines[r][b].status : b \in Applications}]
      BY DEF Statuses
    <3>2. \A b \in Applications : lines'[r][b].status = [before EXCEPT ![a] = work[p].decision][b]
      BY <1>1, <1>4, <1>8, <3>1 DEF Statuses
    <3> HIDE DEF before
    <3> QED
      BY <1>1, <3>1, <3>2 DEF before
  <2>3. ASSUME NEW u \in Requests, requests'[u].status # "absent"
        PROVE  requests'[u].status = Summary([b \in Applications |-> lines'[u][b].status])
    <3>1. CASE u = r
      BY <1>1, <1>7, <2>2, <3>1 DEF sum
    <3>2. CASE u # r
      <4>1. requests'[u].status = requests[u].status
        BY <1>7, <3>2
      <4>2. requests[u].status = Summary(Statuses(u))
        BY <2>3, <4>1 DEF Inv, StatusIsSummary
      <4>3. Statuses(u) = [b \in Applications |-> lines'[u][b].status]
        BY <2>1, <3>2 DEF Statuses
      <4> QED
        BY <4>1, <4>2, <4>3
    <3> QED
      BY <3>1, <3>2
  <2> QED
    BY <2>3 DEF StatusIsSummary, Statuses, Summary
<1>18. NoTwins'
  <2> SUFFICES ASSUME NEW u \in Requests, NEW v \in Requests, u # v,
                      NEW f, u \in PendingOf(f)', v \in PendingOf(f)'
               PROVE  AskedIn(u)' # AskedIn(v)'
    BY DEF NoTwins
  <2>1. u \in PendingOf(f) /\ v \in PendingOf(f)
    BY <1>13
  <2>2. AskedIn(u) # AskedIn(v)
    BY <2>1 DEF Inv, NoTwins, PendingOf
  <2> QED
    BY <1>12, <2>2
<1> QED
  BY <1>9, <1>10, <1>14, <1>15, <1>16, <1>17, <1>18 DEF Inv

-----------------------------------------------------------------------------
(* The theorems *)

LEMMA StepKeepsInv == Inv /\ [Next]_vars => Inv'
<1> SUFFICES ASSUME Inv, [Next]_vars PROVE Inv'
  OBVIOUS
<1>1. CASE Environment
  BY <1>1, EnvironmentKeepsInv
<1>2. ASSUME NEW p \in Workers, Step(p) PROVE Inv'
  <2>1. CASE \E e \in Emails, asked \in SUBSET Applications : Submit(p, e, asked)
    BY <2>1, SubmitKeepsInv
  <2>2. CASE Scan(p)
    BY <2>2, ScanKeepsInv
  <2>3. CASE \E r \in Requests : Insert(p, r)
    BY <2>3, InsertKeepsInv
  <2>4. CASE \E d \in Identities, r \in Requests, a \in Applications, c \in {"approved", "refused"} :
               ReadLine(p, d, r, a, c)
    BY <2>4, ReadLineKeepsInv
  <2>5. CASE \E i \in Identities : Prepare(p, i)
    BY <2>5, PrepareKeepsInv
  <2>6. CASE LockLine(p)
    BY <2>6, LockLineKeepsInv
  <2>7. CASE \E g \in Gaps \cup {None} : LockTarget(p, g)
    BY <2>7, LockTargetKeepsInv
  <2>11. CASE SaveGrant(p)
    BY <2>11, SaveGrantKeepsInv
  <2>12. CASE MarkLine(p)
    BY <2>12, MarkLineKeepsInv
  <2>8. CASE Count(p)
    BY <2>8, CountKeepsInv
  <2>9. CASE Commit(p)
    BY <2>9, CommitKeepsInv
  <2>10. CASE Fail(p)
    BY <2>10, AnsweringKeepsInv DEF Fail
  <2> QED
    BY <1>2, <2>1, <2>2, <2>3, <2>4, <2>5, <2>6, <2>7, <2>8, <2>9, <2>10, <2>11, <2>12 DEF Step
<1>3. CASE UNCHANGED vars
  <2>1. UNCHANGED <<status, grants, requests, lines, work>>
    BY <1>3 DEF vars
  <2>2. TypeOK' /\ Exclusive' /\ LinesAreProper'
    BY <2>1 DEF Inv, TypeOK, Exclusive, LinesAreProper
  <2>3. DepositsAreProper' /\ NoTwins'
    BY <2>1 DEF Inv, DepositsAreProper, NoTwins, Twins, PendingOf, AskedIn
  <2>4. DecisionsAreProper' /\ StatusIsSummary'
    BY <2>1 DEF Inv, DecisionsAreProper, StatusIsSummary, Statuses, Seen, LineRow
  <2> QED
    BY <2>2, <2>3, <2>4 DEF Inv
<1> QED
  BY <1>1, <1>2, <1>3 DEF Next

\* Whatever deposits and decisions are under way, the requests, the lines and
\* what their transactions hold stay proper.
THEOREM AccessInvariant == Spec => []Inv
<1> QED
  BY InitInv, StepKeepsInv, PTL DEF Spec

\* A request has the status of its lines, although two of them may be decided
\* at the same time.
THEOREM RequestsFollowTheirLines == Spec => []StatusIsSummary
<1>1. Inv => StatusIsSummary
  BY DEF Inv
<1> QED
  BY <1>1, AccessInvariant, PTL

\* Two pending requests of an address never ask for the same applications,
\* although they may be deposited at the same time.
THEOREM DepositsMakeOneRequest == Spec => []NoTwins
<1>1. Inv => NoTwins
  BY DEF Inv
<1> QED
  BY <1>1, AccessInvariant, PTL

\* A decided line is not decided again.
THEOREM LinesAreDecidedOnce == Spec => DecidedOnce
<1>1. ASSUME Inv, [Next]_vars,
             NEW r \in Requests, NEW a \in Applications, lines[r][a].status \in {"approved", "refused"}
      PROVE  lines'[r][a] = lines[r][a]
  <2>1. ASSUME NEW p \in Workers, NEW u \in Requests, Insert(p, u) PROVE lines'[r][a] = lines[r][a]
    <3>1. requests[u].status = "absent" /\ \E f : lines' = [lines EXCEPT ![u] = f]
      BY <2>1 DEF Insert
    <3>2. lines[u][a].status = "none"
      BY <1>1, <3>1 DEF Inv, LinesAreProper
    <3>3. u # r
      BY <1>1, <3>2
    <3> QED
      BY <1>1, <3>1, <3>3 DEF Inv, TypeOK
  <2>2. ASSUME NEW p \in Workers, Commit(p) PROVE lines'[r][a] = lines[r][a]
    <3> DEFINE u == work[p].request
               b == work[p].application
    <3>1. work[p].stage = "counted" /\ lines' = [lines EXCEPT ![u][b] = Decided(p)]
      BY <2>2 DEF Commit
    <3>2. u \in Requests /\ b \in Applications /\ lines[u][b].status = "pending"
      BY <1>1, <3>1 DEF Inv, DecisionsAreProper, Deciding
    <3>3. r # u \/ a # b
      BY <1>1, <3>2
    <3> HIDE DEF u, b
    <3>4. lines' = [lines EXCEPT ![u] = [lines[u] EXCEPT ![b] = Decided(p)]]
      BY <3>1
    <3>5. lines[u] \in [Applications -> LineRecord]
      BY <1>1, <3>2 DEF Inv, TypeOK
    <3> QED
      BY <1>1, <3>2, <3>3, <3>4, <3>5 DEF Inv, TypeOK
  <2>3. ASSUME NEW p \in Workers, Step(p) PROVE UNCHANGED lines \/ (\E u \in Requests : Insert(p, u)) \/ Commit(p)
    <3>1. CASE \E e \in Emails, asked \in SUBSET Applications : Submit(p, e, asked)
      BY <3>1 DEF Submit
    <3>2. CASE \E d \in Identities, u \in Requests, b \in Applications, c \in {"approved", "refused"} :
                 ReadLine(p, d, u, b, c)
      BY <3>2 DEF ReadLine
    <3>3. CASE \E i \in Identities : Prepare(p, i)
      BY <3>3 DEF Prepare
    <3>4. CASE \E u \in Requests : Insert(p, u)
      BY <3>4
    <3>5. CASE Scan(p)
      BY <3>5, Zenon DEF Scan
    <3>6. CASE LockLine(p)
      BY <3>6, Zenon DEF LockLine
    <3>7. CASE \E g \in Gaps \cup {None} : LockTarget(p, g)
      BY <3>7, Zenon DEF LockTarget
    <3>8. CASE SaveGrant(p) \/ MarkLine(p) \/ Count(p) \/ Fail(p)
      BY <3>8 DEF SaveGrant, MarkLine, Count, Fail
    <3> QED
      BY <2>3, <3>1, <3>2, <3>3, <3>4, <3>5, <3>6, <3>7, <3>8 DEF Step
  <2>4. CASE Environment
    BY <2>4 DEF Environment, SetStatus, Disable, DecideGrant
  <2>5. CASE UNCHANGED vars
    BY <2>5 DEF vars
  <2>6. CASE \E p \in Workers : Step(p)
    BY <2>1, <2>2, <2>3, <2>6
  <2> QED
    BY <1>1, <2>4, <2>5, <2>6 DEF Next
<1>2. Inv /\ [Next]_vars =>
         [\A r \in Requests, a \in Applications :
            lines[r][a].status \in {"approved", "refused"} => lines'[r][a] = lines[r][a]]_vars
  BY <1>1
<1> QED
  BY <1>2, AccessInvariant, PTL DEF Spec, DecidedOnce

-----------------------------------------------------------------------------
(* The locks of a decision, and when two of them wait for each other *)

\* HoldsItsRows, of the memory of one worker.
TargetOf(x) ==
    LET line == <<"line", x.request, x.application>> IN
    IF x.decision = "approved"
       THEN {line} \cup {<<"identity", x.target>>, <<"grant", x.target, x.application>>}
                   \cup GapRow(x.gap)
       ELSE {line}

SavedOf(x) == TargetOf(x) \cup (IF x.creates THEN {<<"audit head">>} ELSE {})
MarkedOf(x) == SavedOf(x) \cup {<<"share", x.decider>>}

Proper(x) ==
    /\ x.stage \in {"idle", "submitted", "read", "ready"} => x.locks = {}
    /\ x.stage = "line" => x.locks = {<<"line", x.request, x.application>>}
    /\ x.stage = "target" => x.locks = TargetOf(x) /\ x.creates
    /\ x.stage = "decision" => x.locks = SavedOf(x)
    /\ x.stage = "decided" => x.locks = MarkedOf(x)
    /\ x.stage = "counted" => x.locks = MarkedOf(x) \cup {<<"request", x.request>>}
    /\ x.creates => x.decision = "approved"
    /\ x.gap # None => x.creates /\ x.stage \in Deciding \ {"line"}

\* Rows of different kinds are different rows.
LEMMA KindsAreApart ==
    /\ <<"audit head">>[1] = "audit head"
    /\ \A r, a : <<"line", r, a>>[1] = "line" /\ <<"grant", r, a>>[1] = "grant"
    /\ \A r : /\ <<"request", r>>[1] = "request" /\ <<"range", r>>[1] = "range"
              /\ <<"identity", r>>[1] = "identity" /\ <<"share", r>>[1] = "share"
              /\ <<"gap", r>>[1] = "gap"
OBVIOUS

LEMMA HoldsIsProper ==
    /\ HoldsItsRows <=> \A p \in Workers : Proper(work[p])
    /\ HoldsItsRows' <=> \A p \in Workers : Proper(work'[p])
BY DEF HoldsItsRows, Proper, MarkedOf, SavedOf, TargetOf, TargetRows, LineRow

LEMMA IdleIsProper ==
    /\ Proper(Idle)
    /\ Idle.stage = "idle" /\ Idle.creates = FALSE /\ Idle.gap = None /\ Idle.locks = {}
BY DEF Proper, Idle

\* A step of p changes the memory of p only, and keeps it proper.
LEMMA StepIsProper ==
    ASSUME Inv, NEW p \in Workers, Step(p), Proper(work[p])
    PROVE  Proper(work'[p]) /\ \A q \in Workers : q # p => work'[q] = work[q]
<1>1. ASSUME NEW x, Become(p, x) PROVE work'[p] = x /\ \A q \in Workers : q # p => work'[q] = work[q]
  BY <1>1 DEF Become, Inv, TypeOK
<1>2. ASSUME Answer(p) PROVE Proper(work'[p]) /\ \A q \in Workers : q # p => work'[q] = work[q]
  BY <1>1, <1>2, IdleIsProper DEF Answer
<1>3. ASSUME NEW e \in Emails, NEW asked \in SUBSET Applications, Submit(p, e, asked)
      PROVE  Proper(work'[p]) /\ \A q \in Workers : q # p => work'[q] = work[q]
  <2> DEFINE x == [Idle EXCEPT !.stage = "submitted", !.email = e, !.asked = asked]
  <2>1. Become(p, x)
    BY <1>3 DEF Submit
  <2>2. x.stage = "submitted" /\ x.locks = {} /\ x.creates = FALSE /\ x.gap = None
    BY DEF Idle
  <2>3. Proper(x)
    BY <2>2 DEF Proper
  <2> QED
    BY <1>1, <2>1, <2>3
<1>4. ASSUME Scan(p)
      PROVE  Proper(work'[p]) /\ \A q \in Workers : q # p => work'[q] = work[q]
  <2>1. CASE Twins(work[p].email, work[p].asked) # {}
    BY <1>2, <1>4, <2>1 DEF Scan
  <2>2. CASE Twins(work[p].email, work[p].asked) = {}
    <3> DEFINE e == work[p].email
               held == {<<"request", r>> : r \in PendingOf(e)}
                          \cup {<<"line", r, a>> : r \in PendingOf(e), a \in Applications}
                          \cup {<<"range", e>>}
               x == [work[p] EXCEPT !.stage = "scanned", !.locks = held]
    <3>1. Become(p, x) /\ work[p].stage = "submitted"
      BY <1>4, <2>2 DEF Scan
    <3> HIDE DEF held
    <3>2. /\ x.stage = "scanned" /\ x.creates = work[p].creates /\ x.decision = work[p].decision
          /\ x.gap = work[p].gap
      BY WorkType DEF WorkRecord
    <3>3. work[p].gap = None
      BY <3>1 DEF Proper, Deciding
    <3>4. Proper(x)
      BY <3>2, <3>3 DEF Proper
    <3> QED
      BY <1>1, <3>1, <3>4
  <2> QED
    BY <2>1, <2>2
<1>5. ASSUME NEW r \in Requests, Insert(p, r)
      PROVE  Proper(work'[p]) /\ \A q \in Workers : q # p => work'[q] = work[q]
  BY <1>2, <1>5 DEF Insert
<1>6. ASSUME NEW d \in Identities, NEW r \in Requests, NEW a \in Applications,
             NEW c \in {"approved", "refused"}, ReadLine(p, d, r, a, c)
      PROVE  Proper(work'[p]) /\ \A q \in Workers : q # p => work'[q] = work[q]
  <2> DEFINE x == [Idle EXCEPT !.request = r, !.application = a, !.decision = c, !.decider = d,
                               !.stage = IF c = "approved" THEN "read" ELSE "ready"]
  <2>1. Become(p, x)
    BY <1>6 DEF ReadLine
  <2>2. x.stage \in {"read", "ready"} /\ x.locks = {} /\ x.creates = FALSE /\ x.gap = None
    BY DEF Idle
  <2>3. Proper(x)
    BY <2>2 DEF Proper
  <2> QED
    BY <1>1, <2>1, <2>3
<1>7. ASSUME NEW i \in Identities, Prepare(p, i)
      PROVE  Proper(work'[p]) /\ \A q \in Workers : q # p => work'[q] = work[q]
  <2> DEFINE g == grants[i][work[p].application]
             new == g.status # "active"
             x == [work[p] EXCEPT !.stage = "ready", !.target = i, !.version = g.version,
                                  !.creates = new]
  <2>1. Become(p, x) /\ work[p].stage = "read"
    BY <1>7 DEF Prepare
  <2>2. work[p].decision = "approved" /\ work[p].locks = {} /\ work[p].gap = None
    BY <2>1 DEF Inv, DecisionsAreProper, Proper, Deciding
  <2>3. x.stage = "ready" /\ x.locks = {} /\ x.decision = "approved" /\ x.gap = None
    BY <2>2, WorkType DEF WorkRecord
  <2>4. Proper(x)
    BY <2>3 DEF Proper
  <2> QED
    BY <1>1, <2>1, <2>4
<1>8. ASSUME LockLine(p)
      PROVE  Proper(work'[p]) /\ \A q \in Workers : q # p => work'[q] = work[q]
  <2> DEFINE s == IF work[p].decision = "approved" THEN "line" ELSE "decision"
             x == [[work[p] EXCEPT !.stage = s] EXCEPT !.locks = @ \cup {LineRow(p)}]
  <2>1. Become(p, x) /\ work[p].stage = "ready"
    BY <1>8 DEF LockLine, Lock
  <2>2. work[p].locks = {} /\ work[p].gap = None /\ (work[p].creates => work[p].decision = "approved")
    BY <2>1 DEF Proper, Deciding
  <2>3. /\ x.stage = s /\ x.locks = {<<"line", work[p].request, work[p].application>>}
        /\ x.request = work[p].request /\ x.application = work[p].application
        /\ x.decision = work[p].decision /\ x.creates = work[p].creates /\ x.gap = None
    BY <2>2, WorkType DEF WorkRecord, LineRow
  <2> HIDE DEF x
  <2>4. work[p].decision # "approved" => SavedOf(x) = {<<"line", work[p].request, work[p].application>>}
    BY <2>2, <2>3 DEF SavedOf, TargetOf
  <2>5. IF work[p].decision = "approved" THEN s = "line" ELSE s = "decision"
    OBVIOUS
  <2> HIDE DEF s
  <2>6. Proper(x)
    BY <2>2, <2>3, <2>4, <2>5 DEF Proper
  <2> QED
    BY <1>1, <2>1, <2>6
<1>9. ASSUME NEW g \in Gaps \cup {None}, LockTarget(p, g)
      PROVE  Proper(work'[p]) /\ \A q \in Workers : q # p => work'[q] = work[q]
  <2> DEFINE s == IF work[p].creates THEN "target" ELSE "decision"
             x == [AfterTarget(p, g) EXCEPT !.locks = @ \cup (TargetRows(p) \cup GapRow(g))]
  <2>1. Become(p, x) /\ work[p].stage = "line" /\ (g # None => work[p].creates)
    BY <1>9 DEF LockTarget, Lock, NewIn
  <2>2. work[p].decision = "approved"
    BY <2>1 DEF Inv, DecisionsAreProper, Deciding
  <2>3. work[p].locks = {<<"line", work[p].request, work[p].application>>}
    BY <2>1 DEF Proper
  <2>4. /\ x.stage = s /\ x.locks = work[p].locks \cup (TargetRows(p) \cup GapRow(g))
        /\ x.request = work[p].request /\ x.application = work[p].application /\ x.gap = g
        /\ x.decision = work[p].decision /\ x.creates = work[p].creates /\ x.target = work[p].target
    BY WorkType DEF WorkRecord, AfterTarget
  <2>5. x.locks = TargetOf(x)
    BY <2>2, <2>3, <2>4 DEF TargetRows, TargetOf
  <2>6. IF work[p].creates THEN s = "target" ELSE s = "decision"
    OBVIOUS
  <2> HIDE DEF x, s
  <2>7. ~ x.creates => SavedOf(x) = TargetOf(x)
    BY DEF SavedOf
  <2>8. x.stage \in Deciding \ {"line"}
    BY <2>4, <2>6 DEF Deciding
  <2>9. Proper(x)
    BY <2>1, <2>2, <2>4, <2>5, <2>6, <2>7, <2>8 DEF Proper
  <2> QED
    BY <1>1, <2>1, <2>9
<1>10. ASSUME SaveGrant(p)
      PROVE  Proper(work'[p]) /\ \A q \in Workers : q # p => work'[q] = work[q]
  <2> DEFINE x == [[work[p] EXCEPT !.stage = "decision"] EXCEPT !.locks = @ \cup {<<"audit head">>}]
  <2>1. Become(p, x) /\ work[p].stage = "target"
    BY <1>10 DEF SaveGrant, Lock
  <2>2. /\ work[p].locks = TargetOf(work[p]) /\ work[p].creates
        /\ work[p].decision = "approved"
    BY <2>1 DEF Proper
  <2>3. /\ x.stage = "decision" /\ x.locks = work[p].locks \cup {<<"audit head">>}
        /\ x.request = work[p].request /\ x.application = work[p].application /\ x.gap = work[p].gap
        /\ x.decision = work[p].decision /\ x.creates = work[p].creates /\ x.target = work[p].target
    BY WorkType DEF WorkRecord
  <2> HIDE DEF x
  <2>4. TargetOf(work[p]) = TargetOf(x)
    BY <2>3 DEF TargetOf
  <2>5. x.locks = SavedOf(x)
    BY <2>2, <2>3, <2>4 DEF SavedOf
  <2>6. Proper(x)
    BY <2>2, <2>3, <2>5 DEF Proper, Deciding
  <2> QED
    BY <1>1, <2>1, <2>6
<1>11. ASSUME MarkLine(p)
      PROVE  Proper(work'[p]) /\ \A q \in Workers : q # p => work'[q] = work[q]
  <2> DEFINE x == [[work[p] EXCEPT !.stage = "decided"]
                     EXCEPT !.locks = @ \cup {<<"share", work[p].decider>>}]
  <2>1. Become(p, x) /\ work[p].stage = "decision"
    BY <1>11 DEF MarkLine, Lock
  <2>2. /\ work[p].locks = SavedOf(work[p])
        /\ work[p].creates => work[p].decision = "approved"
        /\ work[p].gap # None => work[p].creates
    BY <2>1 DEF Proper
  <2>3. /\ x.stage = "decided" /\ x.locks = work[p].locks \cup {<<"share", work[p].decider>>}
        /\ x.request = work[p].request /\ x.application = work[p].application /\ x.gap = work[p].gap
        /\ x.decision = work[p].decision /\ x.creates = work[p].creates /\ x.target = work[p].target
        /\ x.decider = work[p].decider
    BY WorkType DEF WorkRecord
  <2> HIDE DEF x
  <2>4. SavedOf(work[p]) = SavedOf(x)
    BY <2>3 DEF SavedOf, TargetOf
  <2>5. x.locks = MarkedOf(x)
    BY <2>2, <2>3, <2>4 DEF MarkedOf
  <2>6. Proper(x)
    BY <2>2, <2>3, <2>5 DEF Proper, Deciding
  <2> QED
    BY <1>1, <2>1, <2>6
<1>12. ASSUME Count(p)
      PROVE  Proper(work'[p]) /\ \A q \in Workers : q # p => work'[q] = work[q]
  <2> DEFINE seen == Seen(p)
             x == [[work[p] EXCEPT !.stage = "counted", !.seen = seen]
                     EXCEPT !.locks = @ \cup {<<"request", work[p].request>>}]
  <2>1. Become(p, x) /\ work[p].stage = "decided"
    BY <1>12 DEF Count, Lock
  <2>2. /\ work[p].locks = MarkedOf(work[p])
        /\ work[p].creates => work[p].decision = "approved"
        /\ work[p].gap # None => work[p].creates
    BY <2>1 DEF Proper
  <2> HIDE DEF seen
  <2>3. /\ x.stage = "counted" /\ x.locks = work[p].locks \cup {<<"request", work[p].request>>}
        /\ x.request = work[p].request /\ x.application = work[p].application /\ x.gap = work[p].gap
        /\ x.decision = work[p].decision /\ x.creates = work[p].creates /\ x.target = work[p].target
        /\ x.decider = work[p].decider
    BY WorkType DEF WorkRecord
  <2> HIDE DEF x
  <2>4. MarkedOf(work[p]) = MarkedOf(x)
    BY <2>3 DEF MarkedOf, SavedOf, TargetOf
  <2>5. Proper(x)
    BY <2>2, <2>3, <2>4 DEF Proper, Deciding
  <2> QED
    BY <1>1, <2>1, <2>5
<1>13. ASSUME Commit(p) \/ Fail(p)
      PROVE  Proper(work'[p]) /\ \A q \in Workers : q # p => work'[q] = work[q]
  BY <1>2, <1>13 DEF Commit, Fail
<1> QED
  BY <1>3, <1>4, <1>5, <1>6, <1>7, <1>8, <1>9, <1>10, <1>11, <1>12, <1>13 DEF Step

LEMMA StepKeepsRows == Inv /\ HoldsItsRows /\ [Next]_vars => HoldsItsRows'
<1> SUFFICES ASSUME Inv, HoldsItsRows, [Next]_vars PROVE \A p \in Workers : Proper(work'[p])
  BY HoldsIsProper
<1>1. CASE Environment \/ UNCHANGED vars
  <2>1. work' = work
    BY <1>1 DEF Environment, SetStatus, Disable, DecideGrant, vars
  <2> QED
    BY <2>1, HoldsIsProper
<1>2. CASE \E p \in Workers : Step(p)
  BY <1>2, HoldsIsProper, StepIsProper
<1> QED
  BY <1>1, <1>2 DEF Next

LEMMA RowsAreHeld == Spec => []HoldsItsRows
<1>1. Init => HoldsItsRows
  BY IdleIsProper, HoldsIsProper DEF Init
<1> QED
  BY <1>1, StepKeepsRows, AccessInvariant, PTL DEF Spec

\* What a decision holds, by kind of row, follows from where it is.
LEMMA HeldByStage ==
    ASSUME Inv, HoldsItsRows, NEW u \in Workers, work[u].stage \in {"ready"} \cup Deciding, NEW row,
           row \in work[u].locks
    PROVE  /\ work[u].stage # "ready"
           /\ row[1] = "line" => row = LineRow(u)
           /\ row[1] = "identity" => row = <<"identity", work[u].target>> /\ work[u].stage # "line"
           /\ row[1] = "grant" => work[u].stage # "line"
           /\ row[1] = "gap" => row = <<"gap", work[u].gap>> /\ work[u].gap # None
           /\ row[1] = "audit head" => work[u].creates /\ work[u].stage \notin {"line", "target"}
           /\ row[1] = "share" => work[u].stage \in {"decided", "counted"}
           /\ row[1] = "request" => row = <<"request", work[u].request>> /\ work[u].stage = "counted"
<1> DEFINE x == work[u]
           line == <<"line", x.request, x.application>>
<1>1. Proper(x)
  BY HoldsIsProper
<1>2. x.stage \in {"line", "target", "decision", "decided", "counted"}
  BY <1>1 DEF Proper, Deciding
<1>3. ASSUME row \in TargetOf(x)
      PROVE  \/ row = line \/ row = <<"identity", x.target>>
             \/ row = <<"grant", x.target, x.application>>
             \/ row = <<"gap", x.gap>> /\ x.gap # None
  BY <1>3 DEF TargetOf, GapRow
<1>4. ASSUME row \in SavedOf(x)
      PROVE  row \in TargetOf(x) \/ (row = <<"audit head">> /\ x.creates)
  BY <1>4 DEF SavedOf
<1>5. ASSUME row \in MarkedOf(x) PROVE row \in SavedOf(x) \/ row = <<"share", x.decider>>
  BY <1>5 DEF MarkedOf
<1>6. \/ row = line
      \/ x.stage # "line" /\ row = <<"identity", x.target>>
      \/ x.stage # "line" /\ row = <<"grant", x.target, x.application>>
      \/ x.stage # "line" /\ row = <<"gap", x.gap>> /\ x.gap # None
      \/ x.stage \notin {"line", "target"} /\ row = <<"audit head">> /\ x.creates
      \/ x.stage \in {"decided", "counted"} /\ row = <<"share", x.decider>>
      \/ x.stage = "counted" /\ row = <<"request", x.request>>
  <2>1. CASE x.stage = "line"
    BY <1>1, <2>1 DEF Proper
  <2>2. CASE x.stage = "target"
    BY <1>1, <1>3, <2>2 DEF Proper
  <2>3. CASE x.stage = "decision"
    BY <1>1, <1>3, <1>4, <2>3 DEF Proper
  <2>4. CASE x.stage = "decided"
    BY <1>1, <1>3, <1>4, <1>5, <2>4 DEF Proper
  <2>5. CASE x.stage = "counted"
    BY <1>1, <1>3, <1>4, <1>5, <2>5 DEF Proper
  <2> QED
    BY <1>2, <2>1, <2>2, <2>3, <2>4, <2>5
<1> HIDE DEF x
<1>7. x.stage # "ready"
  BY <1>2
<1>8. line = LineRow(u)
  BY DEF x, LineRow
<1>9. CASE row = line
  <2>1. row[1] = "line"
    BY <1>9, KindsAreApart
  <2> HIDE DEF line
  <2> QED
    BY <1>7, <1>8, <1>9, <2>1 DEF x
<1>10. CASE x.stage # "line" /\ row = <<"identity", x.target>>
  <2>1. row[1] = "identity"
    BY <1>10, KindsAreApart
  <2> QED
    BY <1>7, <1>10, <2>1 DEF x
<1>11. CASE x.stage # "line" /\ row = <<"grant", x.target, x.application>>
  <2>1. row[1] = "grant"
    BY <1>11, KindsAreApart
  <2> QED
    BY <1>7, <1>11, <2>1 DEF x
<1>12. CASE x.stage # "line" /\ row = <<"gap", x.gap>> /\ x.gap # None
  <2>1. row[1] = "gap"
    BY <1>12, KindsAreApart
  <2> QED
    BY <1>7, <1>12, <2>1 DEF x
<1>13. CASE x.stage \notin {"line", "target"} /\ row = <<"audit head">> /\ x.creates
  <2>1. row[1] = "audit head"
    BY <1>13, KindsAreApart
  <2> QED
    BY <1>7, <1>13, <2>1 DEF x
<1>14. CASE x.stage \in {"decided", "counted"} /\ row = <<"share", x.decider>>
  <2>1. row[1] = "share"
    BY <1>14, KindsAreApart
  <2> QED
    BY <1>7, <1>14, <2>1 DEF x
<1>15. CASE x.stage = "counted" /\ row = <<"request", x.request>>
  <2>1. row[1] = "request"
    BY <1>15, KindsAreApart
  <2> QED
    BY <1>7, <1>15, <2>1 DEF x
<1> QED
  BY <1>6, <1>9, <1>10, <1>11, <1>12, <1>13, <1>14, <1>15

\* What a decision v may be waiting for from another one, u.
LEMMA WaitsByStage ==
    ASSUME Inv, HoldsItsRows, NEW u \in Workers, NEW v \in Workers, u # v, WaitsFor(v, u),
           work[u].stage \in {"ready"} \cup Deciding, work[v].stage \in {"line"} \cup Deciding
    PROVE  \/ work[v].stage = "line" /\ work[u].stage # "line"
           \/ work[v].stage = "target" /\ work[v].gap # None /\ work[u].gap = work[v].gap
           \/ /\ work[v].stage \in {"target", "counted"} /\ work[u].creates
              /\ work[u].stage \notin {"line", "target"}
           \/ work[v].stage = "decision" /\ work[u].target = work[v].decider /\ work[u].stage # "line"
           \/ /\ work[v].stage = "decided" /\ work[u].stage = "counted"
              /\ work[u].request = work[v].request
<1>1. PICK row \in Wanted(v) : row \in work[u].locks
  BY DEF WaitsFor
<1>2. work[v].stage \in {"line", "target", "decision", "decided", "counted"}
  BY DEF Deciding
<1>3. CASE work[v].stage = "line"
  <2>1. \/ row = <<"identity", work[v].target>>
        \/ row = <<"grant", work[v].target, work[v].application>> \/ row = <<"share", work[v].target>>
    BY <1>1, <1>3 DEF Wanted, TargetRows
  <2>2. row[1] \in {"identity", "grant", "share"}
    BY <2>1, KindsAreApart
  <2> QED
    BY <1>1, <1>3, <2>2, HeldByStage
<1>4. CASE work[v].stage = "target"
  <2>1. row = <<"gap", work[v].gap>> \/ row = <<"audit head">>
    BY <1>1, <1>4 DEF Wanted
  <2>2. CASE row = <<"gap", work[v].gap>>
    <3>3. row[1] = "gap"
      BY <2>2, KindsAreApart
    <3>1. row = <<"gap", work[u].gap>> /\ work[u].gap # None
      BY <1>1, <3>3, HeldByStage
    <3>2. work[u].gap = work[v].gap
      BY <2>2, <3>1
    <3> QED
      BY <1>4, <3>1, <3>2
  <2>3. CASE row = <<"audit head">>
    BY <1>1, <1>4, <2>3, HeldByStage, KindsAreApart
  <2> QED
    BY <2>1, <2>2, <2>3
<1>5. CASE work[v].stage = "decision"
  <2>1. row = <<"identity", work[v].decider>>
    BY <1>1, <1>5 DEF Wanted
  <2>2. row = <<"identity", work[u].target>> /\ work[u].stage # "line"
    BY <1>1, <2>1, HeldByStage, KindsAreApart
  <2>3. work[u].target = work[v].decider
    BY <2>1, <2>2
  <2> QED
    BY <1>5, <2>2, <2>3
<1>6. CASE work[v].stage = "decided"
  <2>1. row = <<"request", work[v].request>>
    BY <1>1, <1>6 DEF Wanted
  <2>2. row = <<"request", work[u].request>> /\ work[u].stage = "counted"
    BY <1>1, <2>1, HeldByStage, KindsAreApart
  <2>3. work[u].request = work[v].request
    BY <2>1, <2>2
  <2> QED
    BY <1>6, <2>2, <2>3
<1>7. CASE work[v].stage = "counted"
  <2>1. row = <<"audit head">>
    BY <1>1, <1>7 DEF Wanted
  <2> QED
    BY <1>1, <1>7, <2>1, HeldByStage, KindsAreApart
<1> QED
  BY <1>2, <1>3, <1>4, <1>5, <1>6, <1>7

\* One transaction at most has the head of the audit.
LEMMA OneHasTheHead ==
    ASSUME Inv, HoldsItsRows, NEW u \in Workers, NEW v \in Workers, u # v,
           work[u].stage \in {"decision", "decided", "counted"},
           work[v].stage \in {"decision", "decided", "counted"}
    PROVE  ~(work[u].creates /\ work[v].creates)
<1>1. ASSUME NEW w \in Workers, work[w].stage \in {"decision", "decided", "counted"}, work[w].creates
      PROVE  <<"audit head">> \in work[w].locks
  <2>1. Proper(work[w])
    BY HoldsIsProper
  <2>2. <<"audit head">> \in SavedOf(work[w])
    BY <1>1 DEF SavedOf
  <2> QED
    BY <1>1, <2>1, <2>2 DEF Proper, MarkedOf
<1>2. ~(<<"audit head">> \in work[u].locks /\ <<"audit head">> \in work[v].locks)
  BY RowsAreNotShared DEF Inv, Exclusive
<1> QED
  BY <1>1, <1>2

\* Two decisions wait for each other only on one request of which one of them
\* gives a right, when both create an assignment and have locked one gap, or when
\* one of them approves for the decider of the other.
THEOREM WaitsOfDecisions == Spec => []MutualWaitsAreKnown
<1>1. ASSUME Inv, HoldsItsRows, NEW p \in Workers, NEW q \in Workers, p # q,
             WaitsFor(p, q), WaitsFor(q, p)
      PROVE  \/ work[p].request = work[q].request /\ work[p].creates # work[q].creates
             \/ work[p].gap # None /\ work[p].gap = work[q].gap
             \/ Crosses(p, q) \/ Crosses(q, p)
  <2>1. \A u \in Workers : Wanted(u) # {} => work[u].stage \in {"ready"} \cup Deciding
    BY DEF Wanted, Deciding
  <2>2. /\ work[p].stage \in {"ready"} \cup Deciding /\ work[q].stage \in {"ready"} \cup Deciding
        /\ work[p].locks # {} /\ work[q].locks # {}
    BY <1>1, <2>1 DEF WaitsFor
  <2>3. /\ work[p].stage \in {"line"} \cup Deciding /\ work[q].stage \in {"line"} \cup Deciding
    BY <1>1, <2>2, HeldByStage
  <2> DEFINE Reason(v, u) ==
        \/ work[v].stage = "line" /\ work[u].stage # "line"
        \/ work[v].stage = "target" /\ work[v].gap # None /\ work[u].gap = work[v].gap
        \/ /\ work[v].stage \in {"target", "counted"} /\ work[u].creates
           /\ work[u].stage \notin {"line", "target"}
        \/ work[v].stage = "decision" /\ work[u].target = work[v].decider /\ work[u].stage # "line"
        \/ /\ work[v].stage = "decided" /\ work[u].stage = "counted"
           /\ work[u].request = work[v].request
  <2>4. Reason(p, q) /\ Reason(q, p)
    BY <1>1, <2>2, <2>3, WaitsByStage
  <2>5. ASSUME work[p].stage \in {"decision", "decided", "counted"},
               work[q].stage \in {"decision", "decided", "counted"}
        PROVE  ~(work[p].creates /\ work[q].creates)
    BY <1>1, <2>5, OneHasTheHead
  <2>6. /\ work[p].stage = "target" => work[p].creates
        /\ work[q].stage = "target" => work[q].creates
        /\ work[p].gap # None => work[p].creates
        /\ work[q].gap # None => work[q].creates
    BY <1>1, HoldsIsProper DEF Proper
  <2>7. work[p].creates \in BOOLEAN /\ work[q].creates \in BOOLEAN
    BY WorkType, <1>1
  <2>8. /\ work[p].stage \in {"line", "target", "decision", "decided", "counted"}
        /\ work[q].stage \in {"line", "target", "decision", "decided", "counted"}
    BY <2>3 DEF Deciding
  <2> QED
    BY <2>4, <2>5, <2>6, <2>7, <2>8 DEF Crosses
<1>2. Inv /\ HoldsItsRows => MutualWaitsAreKnown
  BY <1>1 DEF MutualWaitsAreKnown
<1> QED
  BY <1>2, AccessInvariant, RowsAreHeld, PTL

-----------------------------------------------------------------------------
(* What an approval relies on stands until it commits *)

\* TargetsStand, of the memory of one worker, the assignment and the status it
\* is about.
StandsWith(x, g, s) ==
    x.decision = "approved" =>
       /\ x.stage \in {"ready"} \cup Deciding /\ x.creates =>
             x.version <= g.version /\ (g.version = x.version => g.status # "active")
       /\ x.stage \in Deciding \ {"line"} =>
             /\ s = "active"
             /\ IF x.creates THEN g.version = x.version ELSE g.status = "active"

LEMMA TargetsStandWith ==
    /\ TargetsStand <=>
          \A p \in Workers : StandsWith(work[p], grants[work[p].target][work[p].application],
                                       status[work[p].target])
    /\ TargetsStand' <=>
          \A p \in Workers : StandsWith(work'[p], grants'[work'[p].target][work'[p].application],
                                       status'[work'[p].target])
BY DEF TargetsStand, StandsWith

\* Worker q does not move; the identities and the assignments whose rows it has
\* not locked may, and an assignment that moves has a later version.
LEMMA OthersStand ==
    ASSUME Inv, HoldsItsRows, TargetsStand, NEW q \in Workers, work'[q] = work[q],
           \A i \in Identities : status'[i] = status[i] \/ <<"identity", i>> \notin work[q].locks,
           \A i \in Identities, a \in Applications :
              \/ grants'[i][a] = grants[i][a]
              \/ /\ grants'[i][a].version = grants[i][a].version + 1
                 /\ <<"grant", i, a>> \notin work[q].locks
    PROVE  StandsWith(work'[q], grants'[work'[q].target][work'[q].application],
                      status'[work'[q].target])
<1> DEFINE x == work[q]
           g == grants[x.target][x.application]
<1>1. StandsWith(x, g, status[x.target]) /\ Proper(x)
  BY TargetsStandWith, HoldsIsProper
<1>2. CASE x.decision = "approved" /\ x.stage \in {"ready"} \cup Deciding
  <2>1. x.target \in Identities /\ x.application \in Applications
    BY <1>2, WorkType DEF Inv, DecisionsAreProper, Deciding
  <2>2. g \in GrantRecord /\ x.version \in Nat
    BY <2>1, WorkType DEF Inv, TypeOK
  <2>3. x.stage \in Deciding \ {"line"} =>
           <<"identity", x.target>> \in x.locks /\ <<"grant", x.target, x.application>> \in x.locks
    BY <1>1, <1>2 DEF Proper, MarkedOf, SavedOf, TargetOf, Deciding
  <2>4. x.stage \in Deciding \ {"line"} =>
           /\ status'[x.target] = status[x.target]
           /\ grants'[x.target][x.application] = g
    BY <2>1, <2>3
  <2>5. \/ grants'[x.target][x.application] = g
        \/ grants'[x.target][x.application].version = g.version + 1
    BY <2>1
  <2> HIDE DEF x, g
  <2>6. g.version \in Nat
    BY <2>2 DEF GrantRecord
  <2>7. StandsWith(x, grants'[x.target][x.application], status'[x.target])
    BY <1>1, <1>2, <2>2, <2>4, <2>5, <2>6 DEF StandsWith
  <2> QED
    BY <2>7 DEF x
<1>3. CASE ~(x.decision = "approved" /\ x.stage \in {"ready"} \cup Deciding)
  BY <1>3 DEF StandsWith
<1> QED
  BY <1>2, <1>3

\* The memory of p after a step that writes nothing still stands.
LEMMA MovesStand ==
    ASSUME Inv, TargetsStand, NEW p \in Workers, Step(p),
           ~ Commit(p)
    PROVE  /\ UNCHANGED <<grants, status>>
           /\ StandsWith(work'[p], grants[work'[p].target][work'[p].application],
                         status[work'[p].target])
<1> DEFINE Stands(x) == StandsWith(x, grants[x.target][x.application], status[x.target])
<1>1. Stands(work[p])
  BY TargetsStandWith
<1>2. SUFFICES UNCHANGED <<grants, status>> /\ Stands(work'[p])
  OBVIOUS
<1>3. ASSUME NEW x, Become(p, x) PROVE work'[p] = x
  BY <1>3 DEF Become, Inv, TypeOK
<1>4. Idle.decision = "refused"
  BY DEF Idle
<1>5. ASSUME Answer(p) PROVE Stands(work'[p])
  BY <1>3, <1>4, <1>5 DEF Answer, StandsWith
<1>6. CASE \E e \in Emails, asked \in SUBSET Applications : Submit(p, e, asked)
  <2>1. PICK e \in Emails, asked \in SUBSET Applications : Submit(p, e, asked)
    BY <1>6
  <2> DEFINE x == [Idle EXCEPT !.stage = "submitted", !.email = e, !.asked = asked]
  <2>2. x.decision = "refused"
    BY DEF Idle
  <2>3. Become(p, x) /\ UNCHANGED <<grants, status>>
    BY <2>1 DEF Submit
  <2> HIDE DEF x
  <2> QED
    BY <1>3, <2>2, <2>3 DEF StandsWith
<1>7. CASE Scan(p)
  <2>1. CASE Twins(work[p].email, work[p].asked) # {}
    BY <1>5, <1>7, <2>1 DEF Scan
  <2>2. CASE Twins(work[p].email, work[p].asked) = {}
    <3> DEFINE e == work[p].email
               held == {<<"request", r>> : r \in PendingOf(e)}
                          \cup {<<"line", r, a>> : r \in PendingOf(e), a \in Applications}
                          \cup {<<"range", e>>}
               x == [work[p] EXCEPT !.stage = "scanned", !.locks = held]
    <3>1. Become(p, x) /\ UNCHANGED <<grants, status>>
      BY <1>7, <2>2 DEF Scan
    <3> HIDE DEF held
    <3>2. x.stage = "scanned"
      BY WorkType DEF WorkRecord
    <3> HIDE DEF x
    <3> QED
      BY <1>3, <3>1, <3>2 DEF StandsWith, Deciding
  <2> QED
    BY <2>1, <2>2
<1>8. CASE \E r \in Requests : Insert(p, r)
  BY <1>5, <1>8 DEF Insert
<1>9. CASE \E d \in Identities, r \in Requests, a \in Applications, c \in {"approved", "refused"} :
             ReadLine(p, d, r, a, c)
  <2>1. PICK d \in Identities, r \in Requests, a \in Applications, c \in {"approved", "refused"} :
           ReadLine(p, d, r, a, c)
    BY <1>9
  <2> DEFINE x == [Idle EXCEPT !.request = r, !.application = a, !.decision = c, !.decider = d,
                               !.stage = IF c = "approved" THEN "read" ELSE "ready"]
  <2>2. x.decision = "approved" => x.stage = "read"
    BY DEF Idle
  <2>3. Become(p, x) /\ UNCHANGED <<grants, status>>
    BY <2>1 DEF ReadLine
  <2> HIDE DEF x
  <2> QED
    BY <1>3, <2>2, <2>3 DEF StandsWith, Deciding
<1>10. CASE \E i \in Identities : Prepare(p, i)
  <2>1. PICK i \in Identities : Prepare(p, i)
    BY <1>10
  <2> DEFINE g == grants[i][work[p].application]
             new == g.status # "active"
             x == [work[p] EXCEPT !.stage = "ready", !.target = i, !.version = g.version,
                                  !.creates = new]
  <2>2. Become(p, x) /\ UNCHANGED <<grants, status>> /\ work[p].stage = "read"
    BY <2>1 DEF Prepare
  <2>3. work[p].application \in Applications
    BY <2>2 DEF Inv, DecisionsAreProper
  <2>4. g.version \in Nat
    BY <2>3 DEF Inv, TypeOK, GrantRecord
  <2> HIDE DEF new
  <2>5. /\ x.stage = "ready" /\ x.target = i /\ x.version = g.version /\ x.creates = new
        /\ x.application = work[p].application
    BY WorkType DEF WorkRecord
  <2>6. new => g.status # "active"
    BY DEF new
  <2>7. grants[x.target][x.application] = g
    BY <2>5
  <2> HIDE DEF x, g
  <2>8. x.creates => g.status # "active"
    BY <2>5, <2>6, Zenon
  <2>9. Stands(x)
    BY <2>4, <2>5, <2>7, <2>8 DEF StandsWith, Deciding
  <2> QED
    BY <1>3, <2>2, <2>9
<1>11. CASE LockLine(p)
  <2> DEFINE s == IF work[p].decision = "approved" THEN "line" ELSE "decision"
             x == [[work[p] EXCEPT !.stage = s] EXCEPT !.locks = @ \cup {LineRow(p)}]
  <2>1. Become(p, x) /\ work[p].stage = "ready" /\ UNCHANGED <<grants, status>>
    BY <1>11 DEF LockLine, Lock
  <2>2. /\ x.stage = s /\ x.target = work[p].target /\ x.application = work[p].application
        /\ x.decision = work[p].decision /\ x.creates = work[p].creates /\ x.version = work[p].version
    BY WorkType DEF WorkRecord
  <2> HIDE DEF x
  <2>3. Stands(x)
    BY <1>1, <2>1, <2>2 DEF StandsWith
  <2> QED
    BY <1>3, <2>1, <2>3
<1>12. CASE \E g \in Gaps \cup {None} : LockTarget(p, g)
  <2>1. PICK g \in Gaps \cup {None} : LockTarget(p, g)
    BY <1>12
  <2> DEFINE s == IF work[p].creates THEN "target" ELSE "decision"
             x == [AfterTarget(p, g) EXCEPT !.locks = @ \cup (TargetRows(p) \cup GapRow(g))]
  <2>2. /\ Become(p, x) /\ work[p].stage = "line" /\ UNCHANGED <<grants, status>>
        /\ status[work[p].target] = "active"
        /\ LET grant == grants[work[p].target][work[p].application]
           IN IF work[p].creates THEN grant.version = work[p].version ELSE grant.status = "active"
    BY <2>1 DEF LockTarget, Lock
  <2>3. /\ x.stage = s /\ x.target = work[p].target /\ x.application = work[p].application
        /\ x.decision = work[p].decision /\ x.creates = work[p].creates /\ x.version = work[p].version
    BY WorkType DEF WorkRecord, AfterTarget
  <2> HIDE DEF x, s
  <2>4. Stands(x)
    BY <1>1, <2>2, <2>3 DEF StandsWith, Deciding
  <2> QED
    BY <1>3, <2>2, <2>4
<1>13. CASE SaveGrant(p) \/ MarkLine(p)
  <2>1. PICK s \in {"decision", "decided"}, row \in Row : Lock(p, {row}, [work[p] EXCEPT !.stage = s])
    <3>1. CASE SaveGrant(p)
      <4>1. <<"audit head">> \in Row
        BY DEF Row
      <4> QED
        BY <3>1, <4>1 DEF SaveGrant
    <3>2. CASE MarkLine(p)
      <4>1. <<"share", work[p].decider>> \in Row
        <5>1. work[p].decider \in Identities
          BY <3>2 DEF MarkLine, Inv, DecisionsAreProper, Deciding
        <5> QED
          BY <5>1 DEF Row
      <4> QED
        BY <3>2, <4>1 DEF MarkLine
    <3> QED
      BY <1>13, <3>1, <3>2
  <2> DEFINE x == [[work[p] EXCEPT !.stage = s] EXCEPT !.locks = @ \cup {row}]
  <2>2. Become(p, x) /\ work[p].stage \in {"target", "decision"} /\ UNCHANGED <<grants, status>>
    BY <1>13, <2>1 DEF SaveGrant, MarkLine, Lock
  <2>3. /\ x.stage = s /\ x.target = work[p].target /\ x.application = work[p].application
        /\ x.decision = work[p].decision /\ x.creates = work[p].creates /\ x.version = work[p].version
    BY WorkType DEF WorkRecord
  <2> HIDE DEF x
  <2>4. Stands(x)
    BY <1>1, <2>2, <2>3 DEF StandsWith, Deciding
  <2> QED
    BY <1>3, <2>2, <2>4
<1>15. CASE Count(p)
  <2> DEFINE seen == Seen(p)
             x == [[work[p] EXCEPT !.stage = "counted", !.seen = seen]
                     EXCEPT !.locks = @ \cup {<<"request", work[p].request>>}]
  <2>1. Become(p, x) /\ work[p].stage = "decided" /\ UNCHANGED <<grants, status>>
    BY <1>15 DEF Count, Lock
  <2> HIDE DEF seen
  <2>2. /\ x.stage = "counted" /\ x.target = work[p].target /\ x.application = work[p].application
        /\ x.decision = work[p].decision /\ x.creates = work[p].creates /\ x.version = work[p].version
    BY WorkType DEF WorkRecord
  <2> HIDE DEF x
  <2>3. Stands(x)
    BY <1>1, <2>1, <2>2 DEF StandsWith, Deciding
  <2> QED
    BY <1>3, <2>1, <2>3
<1>14. CASE Fail(p)
  BY <1>5, <1>14 DEF Fail
<1> QED
  BY <1>6, <1>7, <1>8, <1>9, <1>10, <1>11, <1>12, <1>13, <1>14, <1>15 DEF Step

\* A commit writes the assignment it creates, whose version is the next one.
LEMMA CommitGrants ==
    ASSUME Inv, HoldsItsRows, TargetsStand, NEW p \in Workers, Commit(p), work[p].creates
    PROVE  LET i == work[p].target
               a == work[p].application IN
           /\ i \in Identities /\ a \in Applications
           /\ <<"grant", i, a>> \in work[p].locks
           /\ grants[i][a].status # "active"
           /\ grants'[i][a] = [status |-> "active", version |-> grants[i][a].version + 1]
           /\ \A j \in Identities, b \in Applications :
                 j # i \/ b # a => grants'[j][b] = grants[j][b]
<1> DEFINE i == work[p].target
           a == work[p].application
           g == [status |-> "active", version |-> work[p].version + 1]
<1>1. work[p].stage = "counted" /\ grants' = [grants EXCEPT ![i][a] = g]
  BY DEF Commit
<1>2. work[p].decision = "approved" /\ Proper(work[p])
  BY HoldsIsProper DEF Proper
<1>3. i \in Identities /\ a \in Applications
  BY <1>1, <1>2, WorkType DEF Inv, DecisionsAreProper, Deciding
<1>4. <<"grant", i, a>> \in work[p].locks
  BY <1>1, <1>2 DEF Proper, MarkedOf, SavedOf, TargetOf
<1>5. grants[i][a].version = work[p].version /\ grants[i][a].status # "active"
  BY <1>1, <1>2, TargetsStandWith DEF StandsWith, Deciding
<1>6. grants[i] \in [Applications -> GrantRecord] /\ grants \in [Identities -> [Applications -> GrantRecord]]
  BY <1>3 DEF Inv, TypeOK
<1> HIDE DEF i, a, g
<1>7. grants' = [grants EXCEPT ![i] = [grants[i] EXCEPT ![a] = g]]
  BY <1>1, <1>3, <1>6
<1>8. grants'[i][a] = g /\ \A j \in Identities, b \in Applications : j # i \/ b # a => grants'[j][b] = grants[j][b]
  BY <1>3, <1>6, <1>7
<1> QED
  BY <1>3, <1>4, <1>5, <1>8 DEF i, a, g

LEMMA StepKeepsTargets == Inv /\ HoldsItsRows /\ TargetsStand /\ [Next]_vars => TargetsStand'
<1> SUFFICES ASSUME Inv, HoldsItsRows, TargetsStand, [Next]_vars,
                    NEW q \in Workers
             PROVE  StandsWith(work'[q], grants'[work'[q].target][work'[q].application],
                               status'[work'[q].target])
  BY TargetsStandWith
<1>1. \A i \in Identities, a \in Applications : grants[i][a] \in GrantRecord
  BY DEF Inv, TypeOK
<1>2. CASE UNCHANGED vars
  BY <1>2, OthersStand DEF vars
<1>3. ASSUME NEW i \in Identities, NEW new \in {"active", "suspended"}, SetStatus(i, new)
      PROVE  StandsWith(work'[q], grants'[work'[q].target][work'[q].application], status'[work'[q].target])
  <2>1. <<"identity", i>> \notin work[q].locks
    BY <1>3 DEF SetStatus, Unlocked
  <2>2. \A j \in Identities : j # i => status'[j] = status[j]
    BY <1>3 DEF SetStatus, Inv, TypeOK
  <2> QED
    BY <1>3, <2>1, <2>2, OthersStand DEF SetStatus
<1>4. ASSUME NEW i \in Identities, Disable(i)
      PROVE  StandsWith(work'[q], grants'[work'[q].target][work'[q].application], status'[work'[q].target])
  <2>1. <<"identity", i>> \notin work[q].locks /\ \A a \in Applications : <<"grant", i, a>> \notin work[q].locks
    BY <1>4 DEF Disable, Unlocked
  <2>2. \A j \in Identities : j # i => status'[j] = status[j]
    BY <1>4 DEF Disable, Inv, TypeOK
  <2> DEFINE f == [a \in Applications |->
                     IF grants[i][a].status = "active"
                        THEN [status |-> "revoked", version |-> grants[i][a].version + 1]
                        ELSE grants[i][a]]
  <2>3. grants' = [grants EXCEPT ![i] = f]
    BY <1>4 DEF Disable
  <2>4. \A a \in Applications : f[a] = grants[i][a] \/ f[a].version = grants[i][a].version + 1
    OBVIOUS
  <2> HIDE DEF f
  <2>5. \A j \in Identities, a \in Applications :
           grants'[j][a] = IF j = i THEN f[a] ELSE grants[j][a]
    BY <2>3 DEF Inv, TypeOK
  <2>6. work'[q] = work[q]
    BY <1>4 DEF Disable
  <2> QED
    BY <2>1, <2>2, <2>4, <2>5, <2>6, OthersStand
<1>5. ASSUME NEW i \in Identities, NEW a \in Applications, NEW new \in {"active", "revoked"},
             DecideGrant(i, a, new)
      PROVE  StandsWith(work'[q], grants'[work'[q].target][work'[q].application], status'[work'[q].target])
  <2> DEFINE g == [status |-> new, version |-> grants[i][a].version + 1]
  <2>1. <<"grant", i, a>> \notin work[q].locks /\ UNCHANGED <<status, work>>
    BY <1>5 DEF DecideGrant, Unlocked
  <2>2. grants' = [grants EXCEPT ![i][a] = g]
    BY <1>5 DEF DecideGrant
  <2>3. g.version = grants[i][a].version + 1
    OBVIOUS
  <2>4. grants[i] \in [Applications -> GrantRecord] /\ grants \in [Identities -> [Applications -> GrantRecord]]
    BY DEF Inv, TypeOK
  <2> HIDE DEF g
  <2>5. grants' = [grants EXCEPT ![i] = [grants[i] EXCEPT ![a] = g]]
    BY <2>2, <2>4
  <2>6. \A j \in Identities, b \in Applications :
           grants'[j][b] = IF j = i /\ b = a THEN g ELSE grants[j][b]
    BY <2>4, <2>5
  <2> QED
    BY <2>1, <2>3, <2>6, OthersStand
<1>6. ASSUME NEW p \in Workers, Step(p)
      PROVE  StandsWith(work'[q], grants'[work'[q].target][work'[q].application], status'[work'[q].target])
  <2>1. \A r \in Workers : r # p => work'[r] = work[r]
    BY <1>6, HoldsIsProper, StepIsProper
  <2>2. CASE ~ Commit(p)
    <3>1. CASE q = p
      BY <1>6, <2>2, <3>1, MovesStand
    <3>2. CASE q # p
      BY <1>6, <2>1, <2>2, <3>2, MovesStand, OthersStand
    <3> QED
      BY <3>1, <3>2
  <2>3. CASE Commit(p)
    <3>1. CASE q = p
      <4>1. work'[q] = Idle
        BY <2>3, <3>1 DEF Commit, Answer, Become, Inv, TypeOK
      <4> QED
        BY <4>1 DEF StandsWith, Idle
    <3>2. CASE q # p
      <4>1. UNCHANGED status /\ work'[q] = work[q]
        BY <2>1, <2>3, <3>2 DEF Commit
      <4>2. CASE ~ work[p].creates
        BY <2>3, <4>1, <4>2, OthersStand DEF Commit
      <4>3. CASE work[p].creates
        <5> DEFINE i == work[p].target
                   a == work[p].application
        <5>1. /\ i \in Identities /\ a \in Applications /\ <<"grant", i, a>> \in work[p].locks
              /\ grants'[i][a].version = grants[i][a].version + 1
              /\ \A j \in Identities, b \in Applications : j # i \/ b # a => grants'[j][b] = grants[j][b]
          <6>1. /\ i \in Identities /\ a \in Applications /\ <<"grant", i, a>> \in work[p].locks
                /\ grants'[i][a] = [status |-> "active", version |-> grants[i][a].version + 1]
                /\ \A j \in Identities, b \in Applications : j # i \/ b # a => grants'[j][b] = grants[j][b]
            BY <2>3, <4>3, CommitGrants, Zenon
          <6> QED
            BY <6>1
        <5>2. <<"grant", i, a>> \notin work[q].locks
          BY <3>2, <5>1, RowsAreNotShared DEF Inv, Exclusive
        <5> HIDE DEF i, a
        <5> QED
          BY <4>1, <5>1, <5>2, OthersStand
      <4> QED
        BY <4>2, <4>3
    <3> QED
      BY <3>1, <3>2
  <2> QED
    BY <2>2, <2>3
<1> QED
  BY <1>2, <1>3, <1>4, <1>5, <1>6 DEF Next, Environment

LEMMA TargetsHold == Spec => []TargetsStand
<1>1. Init => TargetsStand
  BY DEF Init, TargetsStand, Idle
<1> QED
  BY <1>1, StepKeepsTargets, AccessInvariant, RowsAreHeld, PTL DEF Spec

\* An approval takes effect together with the right it gives or relies on, and
\* overwrites no decision about it.
THEOREM ApprovalsHaveTheirGrant == Spec => ApprovedWithGrant
<1>1. ASSUME Inv, HoldsItsRows, TargetsStand, [Next]_vars,
             NEW r \in Requests, NEW a \in Applications,
             lines[r][a].status # "approved", lines'[r][a].status = "approved"
      PROVE  LET i == lines'[r][a].target IN
             /\ status'[i] = "active" /\ grants'[i][a].status = "active"
             /\ \/ grants'[i][a] = grants[i][a]
                \/ /\ grants[i][a].status # "active"
                   /\ grants'[i][a].version = grants[i][a].version + 1
  <2>1. ~ UNCHANGED lines
    BY <1>1
  <2>2. PICK p \in Workers : Step(p)
    BY <1>1, <2>1 DEF Next, Environment, SetStatus, Disable, DecideGrant, vars
  <2>3. ASSUME NEW u \in Requests, Insert(p, u) PROVE FALSE
    <3> DEFINE f == [b \in Applications |->
                       IF b \in work[p].asked THEN [NoLine EXCEPT !.status = "pending"] ELSE NoLine]
    <3>1. lines' = [lines EXCEPT ![u] = f]
      BY <2>3 DEF Insert
    <3>2. f[a].status # "approved"
      BY DEF NoLine
    <3> HIDE DEF f
    <3> QED
      BY <1>1, <3>1, <3>2 DEF Inv, TypeOK
  <2>4. Commit(p)
    <3>1. CASE \E e \in Emails, asked \in SUBSET Applications : Submit(p, e, asked)
      BY <2>1, <3>1 DEF Submit
    <3>2. CASE \E d \in Identities, u \in Requests, b \in Applications, c \in {"approved", "refused"} :
                 ReadLine(p, d, u, b, c)
      BY <2>1, <3>2 DEF ReadLine
    <3>3. CASE \E i \in Identities : Prepare(p, i)
      BY <2>1, <3>3 DEF Prepare
    <3>4. CASE Scan(p)
      BY <2>1, <3>4, Zenon DEF Scan
    <3>5. CASE LockLine(p)
      BY <2>1, <3>5, Zenon DEF LockLine
    <3>6. CASE \E g \in Gaps \cup {None} : LockTarget(p, g)
      BY <2>1, <3>6, Zenon DEF LockTarget
    <3>7. CASE SaveGrant(p) \/ MarkLine(p) \/ Count(p) \/ Fail(p)
      BY <2>1, <3>7 DEF SaveGrant, MarkLine, Count, Fail
    <3> QED
      BY <2>2, <2>3, <3>1, <3>2, <3>3, <3>4, <3>5, <3>6, <3>7 DEF Step
  <2> DEFINE x == work[p]
  <2>5. /\ x.stage = "counted" /\ x.request \in Requests /\ x.application \in Applications
        /\ UNCHANGED status
        /\ lines' = [lines EXCEPT ![x.request][x.application] = Decided(p)]
    BY <1>1, <2>4 DEF Commit, Inv, DecisionsAreProper
  <2>6. /\ r = x.request /\ a = x.application
        /\ lines'[r][a] = [status |-> x.decision, target |-> x.target]
    <3>1. lines[x.request] \in [Applications -> LineRecord] /\ lines \in [Requests -> [Applications -> LineRecord]]
      BY <1>1, <2>5 DEF Inv, TypeOK
    <3> DEFINE y == Decided(p)
    <3> HIDE DEF x, y
    <3>2. lines' = [lines EXCEPT ![x.request] = [lines[x.request] EXCEPT ![x.application] = y]]
      BY <2>5, <3>1 DEF y
    <3>3. lines'[r][a] = IF r = x.request /\ a = x.application THEN y ELSE lines[r][a]
      BY <2>5, <3>1, <3>2
    <3> QED
      BY <1>1, <3>3 DEF Decided, x, y
  <2>7. x.decision = "approved"
    BY <1>1, <2>6
  <2>8. /\ status[x.target] = "active"
        /\ ~ x.creates => grants[x.target][a].status = "active"
    BY <1>1, <2>5, <2>6, <2>7, TargetsStandWith DEF StandsWith, Deciding
  <2>9. lines'[r][a].target = x.target
    BY <2>6
  <2>10. CASE x.creates
    <3>1. /\ grants[x.target][x.application].status # "active"
          /\ grants'[x.target][x.application] =
                [status |-> "active", version |-> grants[x.target][x.application].version + 1]
      BY <1>1, <2>4, <2>10, CommitGrants, Zenon
    <3> HIDE DEF x
    <3> QED
      BY <2>5, <2>6, <2>8, <2>9, <3>1
  <2>11. CASE ~ x.creates
    <3>1. grants' = grants
      BY <2>4, <2>11 DEF Commit
    <3> QED
      BY <2>5, <2>8, <2>9, <2>11, <3>1
  <2> QED
    BY <2>10, <2>11
<1>2. Inv /\ HoldsItsRows /\ TargetsStand /\ [Next]_vars =>
         [\A r \in Requests, a \in Applications :
            lines[r][a].status # "approved" /\ lines'[r][a].status = "approved" =>
               LET i == lines'[r][a].target IN
               /\ status'[i] = "active" /\ grants'[i][a].status = "active"
               /\ \/ grants'[i][a] = grants[i][a]
                  \/ /\ grants[i][a].status # "active"
                     /\ grants'[i][a].version = grants[i][a].version + 1]_vars
  BY <1>1
<1> QED
  BY <1>2, AccessInvariant, RowsAreHeld, TargetsHold, PTL DEF Spec, ApprovedWithGrant

=============================================================================
