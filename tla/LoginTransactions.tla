------------------------- MODULE LoginTransactions --------------------------
(***************************************************************************)
(* How a proof of identity becomes a session: the authorization code an    *)
(* application exchanges, the link received by mail, the return from the   *)
(* identity provider and the entry into the portal.                        *)
(*                                                                         *)
(* Each way is a request that reads, then submits several transactions one *)
(* after the other: nothing undoes the first when a later one fails.       *)
(*                                                                         *)
(*   authorize : gate, decide, save a code           (application-login)   *)
(*   exchange  : consume a code, know, open          (application-login)   *)
(*   ask       : find, save a link, mail it, or fail it   (email-login)    *)
(*   confirm   : look at a link, consume it, know, open   (email-login)    *)
(*   portal    : gate, decide, know, open       (portal-session-broker)    *)
(*   provider  : know, open                            (http, callback)    *)
(*   account   : bridge, know, open              (http, /portal/account)   *)
(*                                                                         *)
(* Sessions close as in IdentitySessions, which models what happens to     *)
(* them afterwards.                                                        *)
(***************************************************************************)
EXTENDS Integers

CONSTANTS
    Identities, Nobody,
    Clients,         \* an application, its redirect URI and a PKCE challenge
    Administration,  \* the client of the sessions opened by proof of identity
    Portal,          \* the client of the sessions of the portal
    Codes,           \* authorization codes (random: each is issued once)
    Links,           \* secrets of the mailed links (likewise)
    NoProof,
    Sessions,
    Requests,        \* requests in flight
    CodeTtl,         \* APPLICATION_LOGIN_CODE_LIFETIME_MS
    LinkTtl,         \* EMAIL_LOGIN_TTL_MS
    MaxTime,         \* bound: last instant of the clock
    MaxLag,          \* bound: delay between reading the clock and the lock
    MaxTurns         \* bound: suspensions and reactivations of one identity

Proofs == Codes \cup Links
Places == Clients \cup {Administration, Portal}

ASSUME LoginAssumption ==
    /\ Nobody \notin Identities /\ NoProof \notin Proofs
    /\ Codes \cap Links = {}
    /\ Administration \notin Clients /\ Portal \notin Clients /\ Administration # Portal
    /\ CodeTtl \in Nat /\ LinkTtl \in Nat
    /\ MaxTime \in Nat /\ MaxLag \in Nat /\ MaxTurns \in Nat

VARIABLES
    clock,
    turns,           \* how often the status of an identity has changed
    proofs,          \* application_authorization_codes, email_login_tokens
    sessions,        \* application_sessions
    mailbox,         \* links that have reached their addressee
    req              \* what each request holds in memory

vars == <<clock, turns, proofs, sessions, mailbox, req>>

\* The statuses alternate from active to suspended and back.
Active(i) == turns[i] % 2 = 0

ProofRecord ==
    [state: {"absent", "issued", "consumed", "delivery_failed"},
     owner: Identities \cup {Nobody}, place: Places, until: Nat]

SessionRecord ==
    [state: {"absent", "open", "closed"}, owner: Identities \cup {Nobody},
     place: Places, proof: Proofs \cup {NoProof}]

Stage == {"idle", "gated", "decided", "found", "saved", "unsent", "looked", "proven", "known"}

Request ==
    [stage: Stage, who: Identities \cup {Nobody}, place: Places,
     proof: Proofs \cup {NoProof}, at: Nat,
     since: Nat]     \* history: turns of the identity when the request relied on it first

Idle == [stage |-> "idle", who |-> Nobody, place |-> Administration,
         proof |-> NoProof, at |-> 0, since |-> 0]

NoSession == [state |-> "absent", owner |-> Nobody, place |-> Administration, proof |-> NoProof]
Unissued == [state |-> "absent", owner |-> Nobody, place |-> Administration, until |-> 0]

TypeOK ==
    /\ clock \in Nat
    /\ turns \in [Identities -> Nat]
    /\ proofs \in [Proofs -> ProofRecord]
    /\ sessions \in [Sessions -> SessionRecord]
    /\ mailbox \subseteq Links
    /\ req \in [Requests -> Request]

Init ==
    /\ clock = 0
    /\ turns = [i \in Identities |-> 0]
    /\ proofs = [c \in Proofs |-> Unissued]
    /\ sessions = [s \in Sessions |-> NoSession]
    /\ mailbox = {}
    /\ req = [p \in Requests |-> Idle]

-----------------------------------------------------------------------------
(* Helpers *)

Become(p, x) == req' = [req EXCEPT ![p] = x]
Goto(p, stage) == Become(p, [req[p] EXCEPT !.stage = stage])
Answer(p) == Become(p, Idle)

\* A reading of the clock that a request may hold when it gets its row lock.
Readings == {t \in 0..clock : clock - t <= MaxLag}

OpenOf(i) == {s \in Sessions : sessions[s].state = "open" /\ sessions[s].owner = i}

Closed(S) == [s \in Sessions |-> IF s \in S THEN [sessions[s] EXCEPT !.state = "closed"]
                                            ELSE sessions[s]]

\* Wrong variant of Usable: a proof may be used again until it lapses.
Unexpired(c, t) == proofs[c].until > t

\* The row, read under FOR UPDATE, is issued and has not lapsed.
Usable(c, t) == proofs[c].state = "issued" /\ proofs[c].until > t

\* application, redirect_uri and code_challenge are those of the code.
IssuedTo(c, place) == proofs[c].place = place

Turn(c, state) == proofs' = [proofs EXCEPT ![c].state = state]

-----------------------------------------------------------------------------
(* The rest of the system: time, identities, closings *)

Tick ==
    /\ clock < MaxTime
    /\ clock' = clock + 1
    /\ UNCHANGED <<turns, proofs, sessions, mailbox, req>>

Suspend(i) ==
    /\ Active(i) /\ turns[i] < MaxTurns
    /\ turns' = [turns EXCEPT ![i] = @ + 1]
    /\ sessions' = Closed(OpenOf(i))
    /\ UNCHANGED <<clock, proofs, mailbox, req>>

Reactivate(i) ==
    /\ ~Active(i) /\ turns[i] < MaxTurns /\ OpenOf(i) = {}
    /\ turns' = [turns EXCEPT ![i] = @ + 1]
    /\ UNCHANGED <<clock, proofs, sessions, mailbox, req>>

\* Logout, revocation or expiry.
Close(s) ==
    /\ sessions[s].state = "open"
    /\ sessions' = Closed({s})
    /\ UNCHANGED <<clock, turns, proofs, mailbox, req>>

-----------------------------------------------------------------------------
(* From an Administration session to a code or to the portal *)

\* openCurrentSession admits the request.
Gate(p, s, place) ==
    /\ req[p].stage = "idle"
    /\ sessions[s].state = "open" /\ sessions[s].place = Administration
    /\ place # Administration
    /\ LET i == sessions[s].owner IN
       Become(p, [Idle EXCEPT !.stage = "gated", !.who = i, !.place = place, !.at = clock])
    /\ UNCHANGED <<clock, turns, proofs, sessions, mailbox>>

\* evaluateAccessRequestAsync: an active identity may hold the permission the
\* place requires, or be refused (Fail).
Decide(p) ==
    LET i == req[p].who IN
    /\ req[p].stage = "gated"
    /\ Active(i)
    /\ Become(p, IF req[p].place = Portal
                    THEN [req[p] EXCEPT !.stage = "proven", !.at = 0, !.since = turns[i]]
                    ELSE [req[p] EXCEPT !.stage = "decided"])
    /\ UNCHANGED <<clock, turns, proofs, sessions, mailbox>>

\* saveApplicationAuthorizationCode: an INSERT.
SaveCode(p, c) ==
    /\ req[p].stage = "decided"
    /\ proofs[c].state = "absent"
    /\ proofs' = [proofs EXCEPT ![c] = [state |-> "issued", owner |-> req[p].who,
                                        place |-> req[p].place, until |-> req[p].at + CodeTtl]]
    /\ Answer(p)
    /\ UNCHANGED <<clock, turns, sessions, mailbox>>

\* consumeApplicationAuthorizationCode
ConsumeCode(p, c, place, t) ==
    /\ req[p].stage = "idle"
    /\ t \in Readings
    /\ Usable(c, t) /\ IssuedTo(c, place)
    /\ Turn(c, "consumed")
    /\ Become(p, [Idle EXCEPT !.stage = "proven", !.who = proofs[c].owner, !.place = place,
                              !.proof = c, !.since = turns[proofs[c].owner]])
    /\ UNCHANGED <<clock, turns, sessions, mailbox>>

-----------------------------------------------------------------------------
(* A link by mail *)

\* findIdentityByEmail
Find(p, i) ==
    /\ req[p].stage = "idle"
    /\ Active(i)
    /\ Become(p, [Idle EXCEPT !.stage = "found", !.who = i, !.at = clock])
    /\ UNCHANGED <<clock, turns, proofs, sessions, mailbox>>

\* saveEmailLoginToken reads the identity again, under lock.
SaveLink(p, l) ==
    /\ req[p].stage = "found"
    /\ Active(req[p].who)
    /\ proofs[l].state = "absent"
    /\ proofs' = [proofs EXCEPT ![l] = [state |-> "issued", owner |-> req[p].who,
                                        place |-> Administration, until |-> req[p].at + LinkTtl]]
    /\ Become(p, [req[p] EXCEPT !.stage = "saved", !.proof = l, !.at = 0])
    /\ UNCHANGED <<clock, turns, sessions, mailbox>>

\* delivery.send: the mail leaves or not, its acceptance is heard or not.
Mail(p, sent, heard) ==
    /\ req[p].stage = "saved"
    /\ heard => sent
    /\ mailbox' = IF sent THEN mailbox \cup {req[p].proof} ELSE mailbox
    /\ IF heard THEN Answer(p) ELSE Goto(p, "unsent")
    /\ UNCHANGED <<clock, turns, proofs, sessions>>

\* Wrong variant of FailLink: the state of the link is not looked at.
FailLinkBlindly(p) ==
    /\ req[p].stage = "unsent"
    /\ Turn(req[p].proof, "delivery_failed")
    /\ Answer(p)
    /\ UNCHANGED <<clock, turns, sessions, mailbox>>

\* failEmailLoginToken: a mail said to be undelivered may have arrived, and
\* its link may have been used meanwhile.
FailLink(p) ==
    /\ req[p].stage = "unsent"
    /\ proofs[req[p].proof].state = "issued"
    /\ Turn(req[p].proof, "delivery_failed")
    /\ Answer(p)
    /\ UNCHANGED <<clock, turns, sessions, mailbox>>

\* The first read of inspectEmailLogin and of consumeEmailLogin.
Look(p, l) ==
    /\ req[p].stage = "idle"
    /\ l \in mailbox
    /\ Usable(l, clock)
    /\ Become(p, [Idle EXCEPT !.stage = "looked", !.proof = l, !.at = clock])
    /\ UNCHANGED <<clock, turns, proofs, sessions, mailbox>>

\* consumeEmailLoginToken
ConsumeLink(p) ==
    LET l == req[p].proof IN
    /\ req[p].stage = "looked"
    /\ Usable(l, req[p].at)
    /\ Turn(l, "consumed")
    /\ Become(p, [req[p] EXCEPT !.stage = "proven", !.who = proofs[l].owner, !.at = 0,
                                !.since = turns[proofs[l].owner]])
    /\ UNCHANGED <<clock, turns, sessions, mailbox>>

-----------------------------------------------------------------------------
(* From an identity to a session *)

\* The provider has vouched for a linked identity (findExternalIdentity).
Vouch(p, i) ==
    /\ req[p].stage = "idle"
    /\ Become(p, [Idle EXCEPT !.stage = "proven", !.who = i, !.since = turns[i]])
    /\ UNCHANGED <<clock, turns, proofs, sessions, mailbox>>

\* The account page, reached with a session of the portal (portalDirectory
\* admits it): it leads to a session of Administration.
Bridge(p, s) ==
    LET i == sessions[s].owner IN
    /\ req[p].stage = "idle"
    /\ sessions[s].state = "open" /\ sessions[s].place = Portal
    /\ Active(i)
    /\ Become(p, [Idle EXCEPT !.stage = "proven", !.who = i, !.since = turns[i]])
    /\ UNCHANGED <<clock, turns, proofs, sessions, mailbox>>

\* Wrong variant of Know: the status of the identity is not read.
KnowUnchecked(p) ==
    /\ req[p].stage = "proven"
    /\ Goto(p, "known")
    /\ UNCHANGED <<clock, turns, proofs, sessions, mailbox>>

\* getIdentity: only an active identity goes further.
Know(p) ==
    /\ req[p].stage = "proven"
    /\ Active(req[p].who)
    /\ Goto(p, "known")
    /\ UNCHANGED <<clock, turns, proofs, sessions, mailbox>>

\* saveApplicationSession: an INSERT, which reads no other row.
Open(p, s) ==
    /\ req[p].stage = "known"
    /\ sessions[s].state = "absent"
    /\ sessions' = [sessions EXCEPT ![s] = [state |-> "open", owner |-> req[p].who,
                                            place |-> req[p].place, proof |-> req[p].proof]]
    /\ Answer(p)
    /\ UNCHANGED <<clock, turns, proofs, mailbox>>

\* A refusal, an error, an unavailable registry or a crash.
Fail(p) ==
    /\ req[p].stage # "idle"
    /\ Answer(p)
    /\ UNCHANGED <<clock, turns, proofs, sessions, mailbox>>

-----------------------------------------------------------------------------

Step(p) ==
    \/ \E s \in Sessions, c \in Clients \cup {Portal} : Gate(p, s, c)
    \/ Decide(p)
    \/ \E c \in Codes : SaveCode(p, c)
    \/ \E c \in Codes, place \in Clients, t \in Readings : ConsumeCode(p, c, place, t)
    \/ \E i \in Identities : Find(p, i)
    \/ \E l \in Links : SaveLink(p, l)
    \/ \E sent, heard \in BOOLEAN : Mail(p, sent, heard)
    \/ FailLink(p)
    \/ \E l \in Links : Look(p, l)
    \/ ConsumeLink(p)
    \/ \E i \in Identities : Vouch(p, i)
    \/ \E s \in Sessions : Bridge(p, s)
    \/ Know(p)
    \/ \E s \in Sessions : Open(p, s)
    \/ Fail(p)

Environment ==
    \/ Tick
    \/ \E i \in Identities : Suspend(i) \/ Reactivate(i)
    \/ \E s \in Sessions : Close(s)

Next == Environment \/ \E p \in Requests : Step(p)

Spec == Init /\ [][Next]_vars

-----------------------------------------------------------------------------
(* What the login promises *)

\* A code or a link opens one session at most, whoever presents it and
\* however often, and a link reported as undelivered opens none (ADR-010,
\* ADR-022).
SingleUse ==
    /\ \A s \in Sessions : sessions[s].proof # NoProof =>
          proofs[sessions[s].proof].state = "consumed"
    /\ \A s, r \in Sessions :
          sessions[s].proof # NoProof /\ sessions[s].proof = sessions[r].proof => s = r

\* A session belongs to the person and to the application its proof was
\* issued to.
BoundToItsProof ==
    \A s \in Sessions : sessions[s].proof # NoProof =>
       LET c == sessions[s].proof IN
       /\ sessions[s].owner = proofs[c].owner
       /\ sessions[s].place = proofs[c].place

\* What has been consumed or declared undelivered stays so, although the
\* declaration may come after the link has been used; the beneficiary, the
\* application and the term of a proof never change.
ProofsEnd ==
    [][\A c \in Proofs :
         /\ proofs[c].state \in {"consumed", "delivery_failed"} => proofs'[c] = proofs[c]
         /\ proofs[c].state = "issued" =>
               proofs'[c] = [proofs[c] EXCEPT !.state = proofs'[c].state]]_vars

\* A login relies on an identity that was active at some moment since the
\* request has consumed its proof: a proof used during a suspension opens
\* nothing, unless the identity is reactivated meanwhile.
ActiveSinceProven ==
    [][\A p \in Requests, s \in Sessions :
         sessions[s].state = "absent" /\ sessions'[s].state = "open" /\ req'[p] # req[p] =>
           \/ req[p].since % 2 = 0
           \/ turns[req[p].who] > req[p].since]_vars

-----------------------------------------------------------------------------
(* Why it keeps it: the inductive invariant *)

\* A request is about to open a session with a proof it has consumed.
InHand(p) == req[p].stage \in {"proven", "known"} /\ req[p].proof # NoProof

\* What a request holds at each stage.
RequestsAreProper ==
    \A p \in Requests :
       /\ req[p].who = Nobody => req[p].stage \in {"idle", "looked"}
       /\ req[p].stage \in {"gated", "decided", "found"} => req[p].proof = NoProof
       /\ req[p].stage \in {"saved", "unsent", "looked"} => req[p].proof \in Links
       /\ req[p].stage \in {"found", "looked"} => req[p].place = Administration

\* Rows have an owner, and a link leads to Administration.
RowsAreProper ==
    /\ \A s \in Sessions : sessions[s].owner = Nobody => sessions[s].state = "absent"
    /\ \A c \in Proofs : proofs[c].owner = Nobody => proofs[c].state = "absent"
    /\ \A l \in Links : proofs[l].place = Administration

\* A proof in hand is consumed, is that of the request, and neither another
\* request nor a session has it.
HeldOnce ==
    \A p \in Requests : InHand(p) =>
       /\ proofs[req[p].proof].state = "consumed"
       /\ req[p].who = proofs[req[p].proof].owner
       /\ req[p].place = proofs[req[p].proof].place
       /\ \A q \in Requests : InHand(q) /\ req[q].proof = req[p].proof => p = q
       /\ \A s \in Sessions : sessions[s].proof # req[p].proof

\* The inductive invariant: a proof passes from the registry to one request
\* and from this request to one session, and never back.
Inv ==
    /\ TypeOK /\ RequestsAreProper /\ RowsAreProper
    /\ HeldOnce /\ SingleUse /\ BoundToItsProof

\* What is remembered of the turns of an identity is not ahead of them, and a
\* request that goes on has found it active.
FoundActive ==
    \A p \in Requests :
       /\ req[p].stage \in {"proven", "known"} => turns[req[p].who] >= req[p].since
       /\ req[p].stage = "known" => req[p].since % 2 = 0 \/ turns[req[p].who] > req[p].since

=============================================================================
