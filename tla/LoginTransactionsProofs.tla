----------------------- MODULE LoginTransactionsProofs ------------------------
(***************************************************************************)
(* Proofs about LoginTransactions for every value of its constants.        *)
(***************************************************************************)
EXTENDS LoginTransactions, TLAPS

USE LoginAssumption DEF LoginAssumption

-----------------------------------------------------------------------------
(* Types *)

LEMMA HelperTypes ==
    /\ Idle \in Request /\ NoSession \in SessionRecord /\ Unissued \in ProofRecord
    /\ Clients \subseteq Places /\ Codes \subseteq Proofs /\ Links \subseteq Proofs
BY DEF Idle, Request, Stage, NoSession, SessionRecord, Unissued, ProofRecord, Places, Proofs

LEMMA TurnTypes ==
    ASSUME TypeOK, NEW c \in Proofs, NEW state \in {"issued", "consumed", "delivery_failed"},
           Turn(c, state)
    PROVE  proofs' \in [Proofs -> ProofRecord]
BY DEF TypeOK, Turn, ProofRecord

LEMMA ClosedTypes ==
    ASSUME TypeOK, NEW S PROVE Closed(S) \in [Sessions -> SessionRecord]
BY DEF TypeOK, Closed, SessionRecord

\* Closing sessions says nothing about who may log in with which proof.
LEMMA ClosingKeepsInv ==
    ASSUME Inv, NEW S \in SUBSET Sessions, \A s \in S : sessions[s].state # "absent",
           sessions' = Closed(S), clock' \in Nat, turns' \in [Identities -> Nat],
           UNCHANGED <<proofs, mailbox, req>>
    PROVE  Inv'
<1> USE DEF Inv
<1>1. TypeOK'
  BY ClosedTypes DEF TypeOK
<1>2. \A s \in Sessions : sessions'[s].proof = sessions[s].proof
                          /\ sessions'[s].owner = sessions[s].owner
                          /\ sessions'[s].place = sessions[s].place
                          /\ (sessions[s].state = "absent" => sessions'[s] = sessions[s])
  BY DEF TypeOK, Closed, SessionRecord
<1>3. RequestsAreProper' /\ RowsAreProper'
  BY <1>2 DEF RequestsAreProper, RowsAreProper
<1>4. HeldOnce'
  BY <1>2 DEF HeldOnce, InHand
<1>5. SingleUse' /\ BoundToItsProof'
  BY <1>2 DEF SingleUse, BoundToItsProof
<1> QED
  BY <1>1, <1>3, <1>4, <1>5

\* A request that moves on keeps the proof it has in hand, or gives it up.
LEMMA MovingKeepsInv ==
    ASSUME Inv, NEW p \in Requests, NEW x \in Request, Become(p, x),
           x.who = Nobody => x.stage \in {"idle", "looked"},
           x.stage \in {"gated", "decided", "found"} => x.proof = NoProof,
           x.stage \in {"saved", "unsent", "looked"} => x.proof \in Links,
           x.stage \in {"found", "looked"} => x.place = Administration,
           x.stage \in {"proven", "known"} /\ x.proof # NoProof =>
              InHand(p) /\ x.proof = req[p].proof /\ x.who = req[p].who /\ x.place = req[p].place,
           mailbox' \subseteq Links, UNCHANGED <<clock, turns, proofs, sessions>>
    PROVE  Inv'
<1> USE DEF Inv
<1>1. TypeOK'
  BY DEF TypeOK, Become
<1>2. \A q \in Requests : req'[q] = IF q = p THEN x ELSE req[q]
  BY DEF TypeOK, Become
<1>3. RequestsAreProper' /\ RowsAreProper'
  BY <1>2 DEF RequestsAreProper, RowsAreProper
<1>4. HeldOnce'
  <2>1. \A q \in Requests : InHand(q)' =>
          InHand(q) /\ req'[q].proof = req[q].proof /\ req'[q].who = req[q].who
          /\ req'[q].place = req[q].place
    BY <1>2 DEF InHand
  <2> QED
    BY <2>1 DEF HeldOnce
<1>5. SingleUse' /\ BoundToItsProof'
  BY DEF SingleUse, BoundToItsProof
<1> QED
  BY <1>1, <1>3, <1>4, <1>5

\* A proof that no session and no request has may be written, and leave one
\* request idle or waiting for its mail.
LEMMA WritingKeepsInv ==
    ASSUME Inv, NEW p \in Requests, NEW x \in Request, Become(p, x),
           NEW c \in Proofs, NEW y \in ProofRecord, proofs' = [proofs EXCEPT ![c] = y],
           proofs[c].state # "consumed",
           y.owner # Nobody, c \in Links => y.place = Administration,
           \/ x = Idle
           \/ x.stage = "saved" /\ x.who # Nobody /\ x.proof \in Links,
           UNCHANGED <<clock, turns, sessions, mailbox>>
    PROVE  Inv'
<1> USE DEF Inv
<1>1. TypeOK'
  BY DEF TypeOK, Become
<1>2. \A q \in Requests : req'[q] = IF q = p THEN x ELSE req[q]
  BY DEF TypeOK, Become
<1>3. \A d \in Proofs : proofs'[d] = IF d = c THEN y ELSE proofs[d]
  BY DEF TypeOK
<1>4. RequestsAreProper'
  BY <1>2 DEF RequestsAreProper, Idle
<1>5. RowsAreProper'
  BY <1>3, HelperTypes DEF RowsAreProper
<1>6. HeldOnce'
  <2>1. ~ InHand(p)'
    BY <1>2 DEF InHand, Idle
  <2>2. \A q \in Requests : InHand(q) => req[q].proof \in Proofs /\ req[q].proof # c
    BY DEF HeldOnce, InHand, TypeOK, Request
  <2> QED
    BY <1>2, <1>3, <2>1, <2>2 DEF HeldOnce, InHand
<1>7. SingleUse' /\ BoundToItsProof'
  <2>1. \A s \in Sessions : sessions[s].proof # NoProof =>
          sessions[s].proof \in Proofs /\ sessions[s].proof # c
    BY DEF SingleUse, TypeOK, SessionRecord
  <2> QED
    BY <1>3, <2>1 DEF SingleUse, BoundToItsProof
<1> QED
  BY <1>1, <1>4, <1>5, <1>6, <1>7

\* A request that consumes a proof has it alone.
LEMMA ConsumingKeepsInv ==
    ASSUME Inv, NEW p \in Requests, ~ InHand(p), NEW x \in Request, Become(p, x),
           NEW c \in Proofs, Turn(c, "consumed"), proofs[c].state = "issued",
           x.stage = "proven", x.proof = c,
           x.who = proofs[c].owner, x.place = proofs[c].place,
           UNCHANGED <<clock, turns, sessions, mailbox>>
    PROVE  Inv'
<1> USE DEF Inv
<1>1. TypeOK'
  BY TurnTypes DEF TypeOK, Become
<1>2. \A q \in Requests : req'[q] = IF q = p THEN x ELSE req[q]
  BY DEF TypeOK, Become
<1>3. \A d \in Proofs : /\ proofs'[d].owner = proofs[d].owner /\ proofs'[d].place = proofs[d].place
                        /\ d # c => proofs'[d] = proofs[d]
                        /\ d = c => proofs'[d].state = "consumed"
  BY DEF TypeOK, Turn, ProofRecord
<1>4. RequestsAreProper'
  BY <1>2 DEF RequestsAreProper, RowsAreProper
<1>5. RowsAreProper'
  BY <1>3, HelperTypes DEF RowsAreProper
<1>6. HeldOnce'
  <2>1. \A q \in Requests : InHand(q) => req[q].proof \in Proofs /\ req[q].proof # c
    BY DEF HeldOnce, InHand, TypeOK, Request
  <2>2. \A s \in Sessions : sessions[s].proof # c
    BY DEF SingleUse, TypeOK, SessionRecord, Proofs
  <2>3. \A q \in Requests : InHand(q)' => q = p \/ (InHand(q) /\ req'[q] = req[q])
    BY <1>2 DEF InHand
  <2>4. req'[p] = x
    BY <1>2
  <2>5. ASSUME NEW q \in Requests, InHand(q)', q # p
        PROVE  /\ proofs'[req'[q].proof].state = "consumed"
               /\ req'[q].who = proofs'[req'[q].proof].owner
               /\ req'[q].place = proofs'[req'[q].proof].place
               /\ \A r \in Requests : InHand(r)' /\ req'[r].proof = req'[q].proof => q = r
               /\ \A s \in Sessions : sessions[s].proof # req'[q].proof
    BY <1>3, <2>1, <2>3, <2>4, <2>5 DEF HeldOnce
  <2>6. \A r \in Requests : InHand(r)' /\ req'[r].proof = c => r = p
    BY <2>1, <2>3
  <2> QED
    BY <1>3, <2>2, <2>4, <2>5, <2>6 DEF HeldOnce
<1>7. SingleUse' /\ BoundToItsProof'
  <2>1. \A s \in Sessions : sessions[s].proof # NoProof =>
          sessions[s].proof \in Proofs /\ sessions[s].proof # c
    BY DEF SingleUse, TypeOK, SessionRecord
  <2> QED
    BY <1>3, <2>1 DEF SingleUse, BoundToItsProof
<1> QED
  BY <1>1, <1>4, <1>5, <1>6, <1>7

-----------------------------------------------------------------------------
(* The invariant *)

LEMMA InitInv == Init => Inv
<1> SUFFICES ASSUME Init PROVE Inv
  OBVIOUS
<1>1. TypeOK
  BY HelperTypes DEF Init, TypeOK
<1>2. RequestsAreProper /\ RowsAreProper /\ HeldOnce
  BY HelperTypes DEF Init, RequestsAreProper, RowsAreProper, HeldOnce, InHand, Idle, NoSession, Unissued
<1>3. SingleUse /\ BoundToItsProof
  BY DEF Init, SingleUse, BoundToItsProof, NoSession
<1> QED
  BY <1>1, <1>2, <1>3 DEF Inv

LEMMA EnvironmentKeepsInv == Inv /\ Environment => Inv'
<1> SUFFICES ASSUME Inv, Environment PROVE Inv'
  OBVIOUS
<1>1. CASE Tick
  BY <1>1 DEF Tick, Inv, TypeOK, RequestsAreProper, RowsAreProper, HeldOnce, InHand, SingleUse,
              BoundToItsProof
<1>2. ASSUME NEW i \in Identities, Suspend(i) PROVE Inv'
  <2>1. turns' \in [Identities -> Nat] /\ clock' \in Nat
    BY <1>2 DEF Suspend, Inv, TypeOK
  <2> QED
    BY <1>2, <2>1, ClosingKeepsInv DEF Suspend, OpenOf
<1>3. ASSUME NEW i \in Identities, Reactivate(i) PROVE Inv'
  <2>1. turns' \in [Identities -> Nat]
    BY <1>3 DEF Reactivate, Inv, TypeOK
  <2> QED
    BY <1>3, <2>1 DEF Reactivate, Inv, TypeOK, RequestsAreProper, RowsAreProper, HeldOnce, InHand,
                      SingleUse, BoundToItsProof
<1>4. ASSUME NEW s \in Sessions, Close(s) PROVE Inv'
  <2>1. turns' \in [Identities -> Nat] /\ clock' \in Nat
    BY <1>4 DEF Close, Inv, TypeOK
  <2> QED
    BY <1>4, <2>1, ClosingKeepsInv DEF Close
<1> QED
  BY <1>1, <1>2, <1>3, <1>4 DEF Environment

LEMMA StepKeepsInv == ASSUME Inv, NEW p \in Requests, Step(p) PROVE Inv'
<1> USE HelperTypes DEF Inv
<1>1. ASSUME NEW s \in Sessions, NEW c \in Clients \cup {Portal}, Gate(p, s, c) PROVE Inv'
  <2> DEFINE x == [Idle EXCEPT !.stage = "gated", !.who = sessions[s].owner, !.place = c, !.at = clock]
  <2>1. sessions[s].owner \in Identities
    BY <1>1 DEF Gate, RowsAreProper, TypeOK, SessionRecord
  <2>2. x \in Request
    BY <2>1 DEF TypeOK, Request, Stage, Idle, Places
  <2>3. x.stage = "gated" /\ x.who # Nobody /\ x.proof = NoProof
    BY <2>1 DEF Idle
  <2>4. Become(p, x)
    BY <1>1 DEF Gate
  <2> HIDE DEF x
  <2> QED
    BY <1>1, <2>2, <2>3, <2>4, MovingKeepsInv DEF Gate, TypeOK
<1>2. CASE Decide(p)
  <2> DEFINE i == req[p].who
             x == [req[p] EXCEPT !.stage = "proven", !.at = 0, !.since = turns[i]]
             y == [req[p] EXCEPT !.stage = "decided"]
  <2>1. i \in Identities /\ req[p].proof = NoProof
    BY <1>2 DEF Decide, RequestsAreProper, TypeOK, Request
  <2>2. turns[i] \in Nat
    BY <2>1 DEF TypeOK
  <2>3. x \in Request /\ y \in Request
    BY <2>1, <2>2 DEF TypeOK, Request, Stage
  <2>4. /\ x.stage = "proven" /\ x.who # Nobody /\ x.proof = NoProof
        /\ y.stage = "decided" /\ y.who # Nobody /\ y.proof = NoProof
    BY <2>1 DEF TypeOK, Request
  <2>5. Become(p, x) \/ Become(p, y)
    BY <1>2 DEF Decide
  <2>6. mailbox' \subseteq Links /\ UNCHANGED <<clock, turns, proofs, sessions>>
    BY <1>2 DEF Decide, TypeOK
  <2> HIDE DEF x, y
  <2>7. CASE Become(p, x)
    BY <2>3, <2>4, <2>6, <2>7, MovingKeepsInv
  <2>8. CASE Become(p, y)
    BY <2>3, <2>4, <2>6, <2>8, MovingKeepsInv
  <2> QED
    BY <2>5, <2>7, <2>8
<1>3. ASSUME NEW c \in Codes, SaveCode(p, c) PROVE Inv'
  <2> DEFINE y == [state |-> "issued", owner |-> req[p].who, place |-> req[p].place,
                   until |-> req[p].at + CodeTtl]
  <2>1. req[p].who \in Identities /\ req[p].at + CodeTtl \in Nat /\ req[p].place \in Places
    BY <1>3 DEF SaveCode, RequestsAreProper, TypeOK, Request
  <2>2. y \in ProofRecord
    BY <2>1 DEF ProofRecord
  <2>3. y.owner # Nobody /\ (c \in Links => y.place = Administration) /\ proofs[c].state # "consumed"
    BY <1>3, <2>1 DEF SaveCode
  <2>4. proofs' = [proofs EXCEPT ![c] = y] /\ Become(p, Idle)
        /\ UNCHANGED <<clock, turns, sessions, mailbox>>
    BY <1>3 DEF SaveCode, Answer
  <2> HIDE DEF y
  <2> QED
    BY <2>2, <2>3, <2>4, WritingKeepsInv
<1>4. ASSUME NEW c \in Codes, NEW place \in Clients, NEW t \in Readings, ConsumeCode(p, c, place, t)
      PROVE  Inv'
  <2> DEFINE x == [Idle EXCEPT !.stage = "proven", !.who = proofs[c].owner, !.place = place,
                               !.proof = c, !.since = turns[proofs[c].owner]]
  <2>1. proofs[c].state = "issued" /\ proofs[c].place = place /\ ~ InHand(p)
    BY <1>4 DEF ConsumeCode, Usable, IssuedTo, InHand
  <2>2. proofs[c].owner \in Identities
    BY <2>1 DEF RowsAreProper, TypeOK, ProofRecord
  <2>3. x \in Request
    BY <2>2 DEF TypeOK, Request, Stage, Idle, Places
  <2>4. x.stage = "proven" /\ x.proof = c /\ x.who = proofs[c].owner /\ x.place = proofs[c].place
    BY <2>1 DEF Idle
  <2>5. Become(p, x) /\ Turn(c, "consumed") /\ UNCHANGED <<clock, turns, sessions, mailbox>>
    BY <1>4 DEF ConsumeCode
  <2> HIDE DEF x
  <2> QED
    BY <2>1, <2>3, <2>4, <2>5, ConsumingKeepsInv
<1>5. ASSUME NEW i \in Identities, Find(p, i) PROVE Inv'
  <2> DEFINE x == [Idle EXCEPT !.stage = "found", !.who = i, !.at = clock]
  <2>1. x \in Request
    BY DEF TypeOK, Request, Stage, Idle, Places
  <2>2. x.stage = "found" /\ x.who # Nobody /\ x.proof = NoProof /\ x.place = Administration
    BY DEF Idle
  <2>3. Become(p, x)
    BY <1>5 DEF Find
  <2> HIDE DEF x
  <2> QED
    BY <1>5, <2>1, <2>2, <2>3, MovingKeepsInv DEF Find, TypeOK
<1>6. ASSUME NEW l \in Links, SaveLink(p, l) PROVE Inv'
  <2> DEFINE y == [state |-> "issued", owner |-> req[p].who, place |-> Administration,
                   until |-> req[p].at + LinkTtl]
             x == [req[p] EXCEPT !.stage = "saved", !.proof = l, !.at = 0]
  <2>1. req[p].who \in Identities /\ req[p].at + LinkTtl \in Nat
    BY <1>6 DEF SaveLink, RequestsAreProper, TypeOK, Request
  <2>2. y \in ProofRecord
    BY <2>1 DEF ProofRecord, Places
  <2>3. y.owner # Nobody /\ y.place = Administration /\ proofs[l].state # "consumed"
    BY <1>6, <2>1 DEF SaveLink
  <2>4. x \in Request /\ x.stage = "saved" /\ x.who # Nobody /\ x.proof \in Links
    BY <2>1 DEF TypeOK, Request, Stage
  <2>5. proofs' = [proofs EXCEPT ![l] = y] /\ Become(p, x)
        /\ UNCHANGED <<clock, turns, sessions, mailbox>>
    BY <1>6 DEF SaveLink
  <2> HIDE DEF x, y
  <2> QED
    BY <2>2, <2>3, <2>4, <2>5, WritingKeepsInv
<1>7. ASSUME NEW sent \in BOOLEAN, NEW heard \in BOOLEAN, Mail(p, sent, heard) PROVE Inv'
  <2> DEFINE x == [req[p] EXCEPT !.stage = "unsent"]
  <2>1. req[p].who \in Identities /\ req[p].proof \in Links
    BY <1>7 DEF Mail, RequestsAreProper, TypeOK, Request
  <2>2. x \in Request /\ x.stage = "unsent" /\ x.who # Nobody /\ x.proof \in Links
    BY <2>1 DEF TypeOK, Request, Stage
  <2>3. mailbox' \subseteq Links /\ UNCHANGED <<clock, turns, proofs, sessions>>
    BY <1>7, <2>1 DEF Mail, TypeOK
  <2>4. Become(p, Idle) \/ Become(p, x)
    BY <1>7 DEF Mail, Answer, Goto
  <2>5. Idle.stage = "idle"
    BY DEF Idle
  <2> HIDE DEF x
  <2>6. CASE Become(p, Idle)
    BY <2>3, <2>5, <2>6, MovingKeepsInv
  <2>7. CASE Become(p, x)
    BY <2>2, <2>3, <2>7, MovingKeepsInv
  <2> QED
    BY <2>4, <2>6, <2>7
<1>8. CASE FailLink(p)
  <2> DEFINE l == req[p].proof
             y == [proofs[l] EXCEPT !.state = "delivery_failed"]
  <2>1. l \in Links /\ proofs[l].state = "issued"
    BY <1>8 DEF FailLink, RequestsAreProper
  <2>2. y \in ProofRecord /\ y.owner = proofs[l].owner /\ y.place = proofs[l].place
    BY <2>1 DEF TypeOK, ProofRecord
  <2>3. y.owner # Nobody /\ y.place = Administration
    BY <2>1, <2>2 DEF RowsAreProper
  <2>4. proofs' = [proofs EXCEPT ![l] = y]
    BY <1>8, <2>1 DEF FailLink, Turn, TypeOK
  <2>5. Become(p, Idle) /\ UNCHANGED <<clock, turns, sessions, mailbox>>
    BY <1>8 DEF FailLink, Answer
  <2> HIDE DEF y
  <2> QED
    BY <2>1, <2>2, <2>3, <2>4, <2>5, WritingKeepsInv
<1>9. ASSUME NEW l \in Links, Look(p, l) PROVE Inv'
  <2> DEFINE x == [Idle EXCEPT !.stage = "looked", !.proof = l, !.at = clock]
  <2>1. x \in Request /\ x.stage = "looked" /\ x.proof = l /\ x.place = Administration
    BY DEF TypeOK, Request, Stage, Idle, Places
  <2>2. Become(p, x)
    BY <1>9 DEF Look
  <2> HIDE DEF x
  <2> QED
    BY <1>9, <2>1, <2>2, MovingKeepsInv DEF Look, TypeOK
<1>10. CASE ConsumeLink(p)
  <2> DEFINE l == req[p].proof
             x == [req[p] EXCEPT !.stage = "proven", !.who = proofs[l].owner, !.at = 0,
                                 !.since = turns[proofs[l].owner]]
  <2>1. proofs[l].state = "issued" /\ l \in Links /\ ~ InHand(p) /\ req[p].place = Administration
    BY <1>10 DEF ConsumeLink, Usable, InHand, RequestsAreProper
  <2>2. proofs[l].owner \in Identities /\ proofs[l].place = Administration
    BY <2>1 DEF RowsAreProper, TypeOK, ProofRecord
  <2>3. turns[proofs[l].owner] \in Nat
    BY <2>2 DEF TypeOK
  <2>4. x \in Request
    BY <2>2, <2>3 DEF TypeOK, Request, Stage
  <2>5. x.stage = "proven" /\ x.proof = l /\ x.who = proofs[l].owner /\ x.place = proofs[l].place
    BY <2>1, <2>2 DEF TypeOK, Request
  <2>6. Become(p, x) /\ Turn(l, "consumed") /\ UNCHANGED <<clock, turns, sessions, mailbox>>
    BY <1>10 DEF ConsumeLink
  <2> HIDE DEF x
  <2> QED
    BY <2>1, <2>4, <2>5, <2>6, ConsumingKeepsInv
<1>11. ASSUME NEW i \in Identities, Vouch(p, i) PROVE Inv'
  <2> DEFINE x == [Idle EXCEPT !.stage = "proven", !.who = i, !.since = turns[i]]
  <2>1. x \in Request
    BY DEF TypeOK, Request, Stage, Idle, Places
  <2>2. x.stage = "proven" /\ x.who # Nobody /\ x.proof = NoProof
    BY DEF Idle
  <2>3. Become(p, x)
    BY <1>11 DEF Vouch
  <2> HIDE DEF x
  <2> QED
    BY <1>11, <2>1, <2>2, <2>3, MovingKeepsInv DEF Vouch, TypeOK
<1>12. CASE Know(p)
  <2> DEFINE x == [req[p] EXCEPT !.stage = "known"]
  <2>1. req[p].who # Nobody /\ req[p].stage = "proven"
    BY <1>12 DEF Know, RequestsAreProper
  <2>2. x \in Request /\ x.stage = "known" /\ x.who = req[p].who /\ x.proof = req[p].proof
        /\ x.place = req[p].place
    BY DEF TypeOK, Request, Stage
  <2>3. Become(p, x)
    BY <1>12 DEF Know, Goto
  <2>4. x.proof # NoProof => InHand(p)
    BY <2>1, <2>2 DEF InHand
  <2> HIDE DEF x
  <2> QED
    BY <1>12, <2>1, <2>2, <2>3, <2>4, MovingKeepsInv DEF Know, TypeOK
<1>13. ASSUME NEW s \in Sessions, Open(p, s) PROVE Inv'
  <2> DEFINE r == [state |-> "open", owner |-> req[p].who, place |-> req[p].place,
                   proof |-> req[p].proof]
  <2>1. req[p].who \in Identities /\ (req[p].proof # NoProof => InHand(p))
    BY <1>13 DEF Open, RequestsAreProper, TypeOK, Request, InHand
  <2>2. r \in SessionRecord
    BY <2>1 DEF TypeOK, Request, SessionRecord
  <2>3. \A u \in Sessions : sessions'[u] = IF u = s THEN r ELSE sessions[u]
    BY <1>13 DEF Open, TypeOK
  <2>4. \A q \in Requests : req'[q] = IF q = p THEN Idle ELSE req[q]
    BY <1>13 DEF Open, Answer, Become, TypeOK
  <2>5. TypeOK'
    BY <1>13, <2>2 DEF Open, Answer, Become, TypeOK
  <2>6. RequestsAreProper' /\ RowsAreProper'
    BY <1>13, <2>1, <2>3, <2>4 DEF RequestsAreProper, RowsAreProper, Idle, Open
  <2>7. HeldOnce'
    <3>1. ASSUME NEW q \in Requests, InHand(q)' PROVE q # p /\ InHand(q) /\ req'[q] = req[q]
      BY <2>4, <3>1 DEF InHand, Idle
    <3>2. ASSUME NEW q \in Requests, InHand(q)' PROVE req[q].proof # req[p].proof
      BY <2>1, <3>1, <3>2 DEF HeldOnce, InHand
    <3> QED
      BY <1>13, <2>3, <3>1, <3>2 DEF HeldOnce, Open
  <2>8. SingleUse' /\ BoundToItsProof'
    <3>1. req[p].proof # NoProof =>
             /\ proofs[req[p].proof].state = "consumed"
             /\ req[p].who = proofs[req[p].proof].owner
             /\ req[p].place = proofs[req[p].proof].place
             /\ \A u \in Sessions : sessions[u].proof # req[p].proof
      BY <2>1 DEF HeldOnce
    <3> QED
      BY <1>13, <2>3, <3>1 DEF SingleUse, BoundToItsProof, Open
  <2> QED
    BY <2>5, <2>6, <2>7, <2>8
<1>14. CASE Fail(p)
  <2>1. Idle.stage = "idle" /\ Become(p, Idle)
    BY <1>14 DEF Idle, Fail, Answer
  <2> QED
    BY <1>14, <2>1, MovingKeepsInv DEF Fail, TypeOK
<1>15. ASSUME NEW s \in Sessions, Bridge(p, s) PROVE Inv'
  <2> DEFINE i == sessions[s].owner
             x == [Idle EXCEPT !.stage = "proven", !.who = i, !.since = turns[i]]
  <2>1. i \in Identities
    BY <1>15 DEF Bridge, RowsAreProper, TypeOK, SessionRecord
  <2>2. x \in Request
    BY <2>1 DEF TypeOK, Request, Stage, Idle
  <2>3. x.stage = "proven" /\ x.who # Nobody /\ x.proof = NoProof
    BY <2>1 DEF Idle
  <2>4. Become(p, x)
    BY <1>15 DEF Bridge
  <2> HIDE DEF x
  <2> QED
    BY <1>15, <2>2, <2>3, <2>4, MovingKeepsInv DEF Bridge, TypeOK
<1> QED
  BY <1>1, <1>2, <1>3, <1>4, <1>5, <1>6, <1>7, <1>8, <1>9, <1>10, <1>11, <1>12, <1>13, <1>14,
     <1>15 DEF Step

\* The inductive invariant of the logins: types, one holder for each proof.
THEOREM LoginInvariant == Spec => []Inv
<1>1. Inv /\ [Next]_vars => Inv'
  <2> SUFFICES ASSUME Inv, [Next]_vars PROVE Inv'
    OBVIOUS
  <2>1. CASE UNCHANGED vars
    BY <2>1 DEF vars, Inv, TypeOK, RequestsAreProper, RowsAreProper, HeldOnce, InHand, SingleUse,
                BoundToItsProof
  <2>2. CASE Environment
    BY <2>2, EnvironmentKeepsInv
  <2>3. ASSUME NEW p \in Requests, Step(p) PROVE Inv'
    BY <2>3, StepKeepsInv
  <2> QED
    BY <2>1, <2>2, <2>3 DEF Next
<1> QED
  BY InitInv, <1>1, PTL DEF Spec

\* A code or a link opens one session at most, for any number of requests
\* that present it and whatever is lost (the double exchange of a code, the
\* double confirmation of a link).
THEOREM EachProofOpensOneSession == Spec => []SingleUse
<1>1. Inv => SingleUse
  BY DEF Inv
<1> QED
  BY <1>1, LoginInvariant, PTL

\* A session opened with a code or a link belongs to the person and to the
\* application the code or the link was issued to.
THEOREM SessionsFollowTheirProof == Spec => []BoundToItsProof
<1>1. Inv => BoundToItsProof
  BY DEF Inv
<1> QED
  BY <1>1, LoginInvariant, PTL

-----------------------------------------------------------------------------
(* What is consumed stays so *)

LEMMA TurnEnds ==
    ASSUME TypeOK, NEW c \in Proofs, NEW state, Turn(c, state), proofs[c].state = "issued",
           NEW d \in Proofs
    PROVE  /\ proofs[d].state \in {"consumed", "delivery_failed"} => proofs'[d] = proofs[d]
           /\ proofs[d].state = "issued" =>
                 proofs'[d] = [proofs[d] EXCEPT !.state = proofs'[d].state]
BY DEF TypeOK, Turn, ProofRecord

\* No step takes a consumed or failed proof further, nor changes the
\* beneficiary, the application or the term of one.
THEOREM ProofsNeverReturn == Spec => ProofsEnd
<1> DEFINE Kept(d) == /\ proofs[d].state \in {"consumed", "delivery_failed"} => proofs'[d] = proofs[d]
                      /\ proofs[d].state = "issued" =>
                            proofs'[d] = [proofs[d] EXCEPT !.state = proofs'[d].state]
<1>1. ASSUME Inv, Next, NEW d \in Proofs PROVE Kept(d)
  <2> USE <1>1 DEF Inv
  <2>1. CASE UNCHANGED proofs
    BY <2>1 DEF TypeOK, ProofRecord
  <2>2. CASE Environment
    BY <2>1, <2>2 DEF Environment, Tick, Suspend, Reactivate, Close
  <2>3. ASSUME NEW p \in Requests, Step(p) PROVE Kept(d)
    <3>1. ASSUME NEW c \in Codes, SaveCode(p, c) PROVE Kept(d)
      BY <3>1, HelperTypes DEF SaveCode, TypeOK, ProofRecord
    <3>2. ASSUME NEW l \in Links, SaveLink(p, l) PROVE Kept(d)
      BY <3>2, HelperTypes DEF SaveLink, TypeOK, ProofRecord
    <3>3. ASSUME NEW c \in Codes, NEW place \in Clients, NEW t \in Readings,
                 ConsumeCode(p, c, place, t) PROVE Kept(d)
      BY <3>3, TurnEnds, HelperTypes DEF ConsumeCode, Usable
    <3>4. CASE FailLink(p)
      <4>1. req[p].proof \in Proofs
        BY <3>4, HelperTypes DEF FailLink, RequestsAreProper
      <4> QED
        BY <3>4, <4>1, TurnEnds DEF FailLink
    <3>5. CASE ConsumeLink(p)
      <4>1. req[p].proof \in Proofs
        BY <3>5, HelperTypes DEF ConsumeLink, RequestsAreProper
      <4> QED
        BY <3>5, <4>1, TurnEnds DEF ConsumeLink, Usable
    <3>6. CASE \/ \E s \in Sessions, c \in Clients \cup {Portal} : Gate(p, s, c)
               \/ Decide(p) \/ Know(p) \/ Fail(p)
               \/ \E i \in Identities : Find(p, i) \/ Vouch(p, i)
               \/ \E sent, heard \in BOOLEAN : Mail(p, sent, heard)
               \/ \E l \in Links : Look(p, l)
               \/ \E s \in Sessions : Open(p, s) \/ Bridge(p, s)
      <4>1. UNCHANGED proofs
        BY <3>6 DEF Gate, Decide, Know, Fail, Find, Vouch, Bridge, Mail, Look, Open
      <4> QED
        BY <2>1, <4>1
    <3> QED
      BY <2>3, <3>1, <3>2, <3>3, <3>4, <3>5, <3>6 DEF Step
  <2> QED
    BY <1>1, <2>2, <2>3 DEF Next
<1>2. ASSUME Inv, [Next]_vars
      PROVE  [\A c \in Proofs :
         /\ proofs[c].state \in {"consumed", "delivery_failed"} => proofs'[c] = proofs[c]
         /\ proofs[c].state = "issued" =>
               proofs'[c] = [proofs[c] EXCEPT !.state = proofs'[c].state]]_vars
  BY <1>1, <1>2
<1> QED
  BY LoginInvariant, <1>2, PTL DEF Spec, ProofsEnd

-----------------------------------------------------------------------------
(* An active identity *)

\* A request that starts with the turns it reads is not ahead of them, and
\* the others do not move.
LEMMA StartingKeepsFoundActive ==
    ASSUME Inv, FoundActive, NEW p \in Requests, NEW x, Become(p, x), UNCHANGED turns,
           x.stage \notin {"proven", "known"}
              \/ (x.stage = "proven" /\ x.who \in Identities /\ x.since = turns[x.who])
    PROVE  FoundActive'
<1>1. \A q \in Requests : req'[q] = IF q = p THEN x ELSE req[q]
  BY DEF Inv, TypeOK, Become
<1>2. x.stage = "proven" => turns[x.who] >= x.since
  BY DEF Inv, TypeOK
<1> QED
  BY <1>1, <1>2 DEF FoundActive

LEMMA TurningKeepsFoundActive ==
    ASSUME Inv, FoundActive, NEW i \in Identities, turns' = [turns EXCEPT ![i] = @ + 1],
           UNCHANGED req
    PROVE  FoundActive'
<1> SUFFICES ASSUME NEW p \in Requests, req[p].stage \in {"proven", "known"}
             PROVE  /\ turns'[req[p].who] >= req[p].since
                    /\ req[p].stage = "known" =>
                         req[p].since % 2 = 0 \/ turns'[req[p].who] > req[p].since
  BY DEF FoundActive
<1>1. req[p].who \in Identities /\ req[p].since \in Nat
  BY DEF Inv, RequestsAreProper, TypeOK, Request
<1>2. turns[req[p].who] \in Nat /\ turns'[req[p].who] \in Nat
      /\ turns'[req[p].who] >= turns[req[p].who]
  BY <1>1 DEF Inv, TypeOK
<1> QED
  BY <1>1, <1>2 DEF FoundActive

LEMMA FoundActiveStep == Inv /\ FoundActive /\ [Next]_vars => FoundActive'
<1> SUFFICES ASSUME Inv, FoundActive, [Next]_vars PROVE FoundActive'
  OBVIOUS
<1>1. CASE UNCHANGED <<turns, req>>
  BY <1>1 DEF FoundActive
<1>2. CASE Environment
  <2>1. ASSUME NEW i \in Identities, Suspend(i) \/ Reactivate(i) PROVE FoundActive'
    BY <2>1, TurningKeepsFoundActive DEF Suspend, Reactivate
  <2> QED
    BY <1>1, <1>2, <2>1 DEF Environment, Tick, Close
<1>3. ASSUME NEW p \in Requests, Step(p) PROVE FoundActive'
  <2> USE DEF Inv
  <2>1. ASSUME NEW s \in Sessions, NEW c \in Clients \cup {Portal}, Gate(p, s, c) PROVE FoundActive'
    BY <2>1, StartingKeepsFoundActive DEF Gate, Idle
  <2>2. CASE Decide(p)
    <3> DEFINE i == req[p].who
               x == [req[p] EXCEPT !.stage = "proven", !.at = 0, !.since = turns[i]]
               y == [req[p] EXCEPT !.stage = "decided"]
    <3>1. x.stage = "proven" /\ x.who = i /\ x.since = turns[i] /\ i \in Identities
      BY <2>2 DEF Decide, RequestsAreProper, TypeOK, Request
    <3>2. y.stage = "decided"
      BY DEF TypeOK, Request
    <3>3. (Become(p, x) \/ Become(p, y)) /\ UNCHANGED turns
      BY <2>2 DEF Decide
    <3> HIDE DEF x, y
    <3>4. CASE Become(p, x)
      BY <3>1, <3>3, <3>4, StartingKeepsFoundActive
    <3>5. CASE Become(p, y)
      BY <3>2, <3>3, <3>5, StartingKeepsFoundActive
    <3> QED
      BY <3>3, <3>4, <3>5
  <2>3. ASSUME NEW c \in Codes, NEW place \in Clients, NEW t \in Readings, ConsumeCode(p, c, place, t)
        PROVE  FoundActive'
    <3>1. proofs[c].owner \in Identities
      BY <2>3, HelperTypes DEF ConsumeCode, Usable, RowsAreProper, TypeOK, ProofRecord
    <3> QED
      BY <2>3, <3>1, StartingKeepsFoundActive DEF ConsumeCode, Idle
  <2>4. CASE ConsumeLink(p)
    <3>1. req[p].proof \in Links
      BY <2>4 DEF ConsumeLink, RequestsAreProper
    <3>2. proofs[req[p].proof].owner \in Identities
      BY <2>4, <3>1, HelperTypes DEF ConsumeLink, Usable, RowsAreProper, TypeOK, ProofRecord
    <3> DEFINE x == [req[p] EXCEPT !.stage = "proven", !.who = proofs[req[p].proof].owner, !.at = 0,
                                   !.since = turns[proofs[req[p].proof].owner]]
    <3>3. x.stage = "proven" /\ x.who = proofs[req[p].proof].owner /\ x.since = turns[x.who]
      BY DEF TypeOK, Request
    <3>4. Become(p, x) /\ UNCHANGED turns
      BY <2>4 DEF ConsumeLink
    <3> HIDE DEF x
    <3> QED
      BY <3>2, <3>3, <3>4, StartingKeepsFoundActive
  <2>5. ASSUME NEW i \in Identities, Vouch(p, i) PROVE FoundActive'
    BY <2>5, StartingKeepsFoundActive DEF Vouch, Idle
  <2>6. CASE Know(p)
    <3> DEFINE x == [req[p] EXCEPT !.stage = "known"]
    <3>1. \A q \in Requests : req'[q] = IF q = p THEN x ELSE req[q]
      BY <2>6 DEF Know, Goto, Become, TypeOK
    <3>2. x.stage = "known" /\ x.who = req[p].who /\ x.since = req[p].since
      BY DEF TypeOK, Request
    <3>3. /\ req[p].who \in Identities /\ req[p].since \in Nat
          /\ req[p].stage = "proven" /\ turns[req[p].who] % 2 = 0 /\ UNCHANGED turns
      BY <2>6 DEF Know, Active, RequestsAreProper, TypeOK, Request
    <3>4. turns[req[p].who] \in Nat /\ turns[req[p].who] >= req[p].since
      BY <3>3 DEF TypeOK, FoundActive
    <3>5. turns[req[p].who] = req[p].since \/ turns[req[p].who] > req[p].since
      BY <3>3, <3>4
    <3> HIDE DEF x
    <3> QED
      BY <3>1, <3>2, <3>3, <3>4, <3>5 DEF FoundActive
  <2>7. ASSUME Become(p, Idle), UNCHANGED turns PROVE FoundActive'
    <3>1. Idle.stage = "idle"
      BY DEF Idle
    <3> QED
      BY <2>7, <3>1, StartingKeepsFoundActive
  <2>8. CASE \/ \E c \in Codes : SaveCode(p, c)
             \/ FailLink(p) \/ Fail(p)
             \/ \E s \in Sessions : Open(p, s)
    BY <2>7, <2>8 DEF SaveCode, FailLink, Fail, Open, Answer
  <2>9. ASSUME NEW l \in Links, SaveLink(p, l) PROVE FoundActive'
    <3> DEFINE x == [req[p] EXCEPT !.stage = "saved", !.proof = l, !.at = 0]
    <3>1. x.stage = "saved"
      BY DEF TypeOK, Request
    <3>2. Become(p, x) /\ UNCHANGED turns
      BY <2>9 DEF SaveLink
    <3> HIDE DEF x
    <3> QED
      BY <3>1, <3>2, StartingKeepsFoundActive
  <2>10. ASSUME NEW sent \in BOOLEAN, NEW heard \in BOOLEAN, Mail(p, sent, heard) PROVE FoundActive'
    <3> DEFINE x == [req[p] EXCEPT !.stage = "unsent"]
    <3>1. x.stage = "unsent"
      BY DEF TypeOK, Request
    <3>2. (Become(p, Idle) \/ Become(p, x)) /\ UNCHANGED turns
      BY <2>10 DEF Mail, Answer, Goto
    <3> HIDE DEF x
    <3>3. CASE Become(p, x)
      BY <3>1, <3>2, <3>3, StartingKeepsFoundActive
    <3> QED
      BY <2>7, <3>2, <3>3
  <2>11. ASSUME NEW l \in Links, Look(p, l) PROVE FoundActive'
    BY <2>11, StartingKeepsFoundActive DEF Look, Idle
  <2>12. ASSUME NEW i \in Identities, Find(p, i) PROVE FoundActive'
    BY <2>12, StartingKeepsFoundActive DEF Find, Idle
  <2>13. ASSUME NEW s \in Sessions, Bridge(p, s) PROVE FoundActive'
    <3>1. sessions[s].owner \in Identities
      BY <2>13 DEF Bridge, RowsAreProper, TypeOK, SessionRecord
    <3> QED
      BY <2>13, <3>1, StartingKeepsFoundActive DEF Bridge, Idle
  <2> QED
    BY <1>3, <2>1, <2>2, <2>3, <2>4, <2>5, <2>6, <2>8, <2>9,
       <2>10, <2>11, <2>12, <2>13 DEF Step
<1> QED
  BY <1>1, <1>2, <1>3 DEF Next, vars

\* The request that opens a session has found its identity active at some
\* moment since it relied on it first: a code or a link used during a
\* suspension opens nothing unless a reactivation comes in between.
THEOREM OnlyActiveIdentitiesLogIn == Spec => ActiveSinceProven
<1>1. Init => FoundActive
  BY DEF Init, FoundActive, Idle
<1>2. Spec => [](Inv /\ FoundActive)
  BY <1>1, FoundActiveStep, LoginInvariant, PTL DEF Spec
<1>3. ASSUME Inv, FoundActive, [Next]_vars, NEW p \in Requests, NEW s \in Sessions,
             sessions[s].state = "absent", sessions'[s].state = "open", req'[p] # req[p]
      PROVE  req[p].since % 2 = 0 \/ turns[req[p].who] > req[p].since
  <2>1. CASE \E q \in Requests, r \in Sessions : Open(q, r)
    <3>1. PICK q \in Requests, r \in Sessions : Open(q, r)
      BY <2>1
    <3>2. q = p
      BY <1>3, <3>1 DEF Open, Answer, Become, Inv, TypeOK
    <3> QED
      BY <1>3, <3>1, <3>2 DEF Open, FoundActive
  <2>2. CASE UNCHANGED sessions
    BY <1>3, <2>2
  <2>3. ASSUME NEW S \in SUBSET Sessions, sessions' = Closed(S), \A u \in S : sessions[u].state = "open"
        PROVE  FALSE
    BY <1>3, <2>3 DEF Closed
  <2>4. ASSUME NEW i \in Identities, Suspend(i) PROVE FALSE
    BY <2>3, <2>4 DEF Suspend, OpenOf
  <2>5. ASSUME NEW u \in Sessions, Close(u) PROVE FALSE
    BY <2>3, <2>5 DEF Close
  <2> QED
    BY <1>3, <2>1, <2>2, <2>4, <2>5
       DEF Next, Environment, Step, Tick, Reactivate, vars, Gate, Decide, SaveCode, ConsumeCode, Find,
           SaveLink, Mail, FailLink, Look, ConsumeLink, Vouch, Bridge, Know, Fail
<1>4. ASSUME Inv, FoundActive, [Next]_vars
      PROVE  [\A p \in Requests, s \in Sessions :
         sessions[s].state = "absent" /\ sessions'[s].state = "open" /\ req'[p] # req[p] =>
           \/ req[p].since % 2 = 0
           \/ turns[req[p].who] > req[p].since]_vars
  BY <1>3, <1>4
<1> QED
  BY <1>2, <1>4, PTL DEF Spec, ActiveSinceProven

=============================================================================
