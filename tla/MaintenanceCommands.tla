------------------------ MODULE MaintenanceCommands -------------------------
(***************************************************************************)
(* The commands an operator runs beside the service: bootstraps of         *)
(* administrators and applications, authority of the legal owner, creation *)
(* of an identity, synthetic data set and its retirement, repairs of texts *)
(* (service-node/*-bootstrap.mjs, responsible-authority.mjs,               *)
(* human-identity-preprod.mjs, synthetic-preprod.mjs,                      *)
(* retire-synthetic-preprod.mjs, historical-label-repair.mjs,              *)
(* text-encoding-repair.mjs).                                              *)
(*                                                                         *)
(* A command is a script: it reads, and what it reads decides what its     *)
(* later transactions write.  Each transaction locks the rows it writes,   *)
(* then the head of the audit chain; the console decides in between.  A    *)
(* command may die anywhere and be run again.                              *)
(***************************************************************************)
EXTENDS Integers, Sequences, FiniteSets

CONSTANTS
    Commands,        \* processes that run commands
    Campaigns,       \* what each of them may run, whom the console decides on, what it gives
    MaxGrants,       \* bound on the assignments in force when the console adds one
    None

Kind == {"labels", "texts", "seed", "retire", "bootstrap", "open", "appoint", "authority", "create"}

\* robot, sandbox and assignment are the synthetic set; served is Administration,
\* opened an application opened beside it.
Identity == {"owner", "robot", "newcomer"}
Application == {"served", "opened", "sandbox"}
Row == Identity \cup Application \cup {"policy", "assignment"}

\* What the assignments of the owner allow: on Administration, and on opened.
Governance == {"read", "decide"}
Power == Governance \cup {"use"}

\* A text is garbled by an old encoding error, right, or written since.
Record ==
    [status: {"absent", "active", "suspended", "disabled", "archived", "retired", "revoked"},
     text: {"garbled", "right", "new"}]

ASSUME CommandsAssumption ==
    /\ IsFiniteSet(Commands)
    /\ Campaigns \subseteq [runs: [Commands -> SUBSET Kind], decides: SUBSET Identity,
                       gives: SUBSET (Power \ Governance)]
    /\ MaxGrants \in Nat
    /\ None \notin Record \cup Nat

VARIABLES
    rows,            \* status and text of the rows commands write
    held,            \* number of active assignments that give the owner each power
    intact,          \* what verifyAuditChain answers
    work,            \* what each process holds: memory and locks
    campaign         \* the one under way

vars == <<rows, held, intact, work, campaign>>

Absent == [status |-> "absent", text |-> "right"]
Definition == [status |-> "active", text |-> "right"]

\* Each step of a command checks or reads some rows, or writes some in a
\* transaction.  A command that lists powers reads all those of an application at once.
RepairLabels ==
    << <<"look", {"owner"}>>, <<"look", {"robot"}>>, <<"look", {"sandbox"}>>, <<"look", {"served"}>>,
       <<"look", {"opened"}>>, <<"active", {"owner"}>>, <<"save", {"owner"}>>,
       <<"save", {"robot"}>>, <<"save", {"sandbox"}>>, <<"save", {"served"}>>,
       <<"save", {"opened"}>> >>

RepairTexts ==
    << <<"look", Identity>>, <<"look", Application>>, <<"look", {"assignment"}>>,
       <<"active", {"owner"}>>, <<"save", Row>> >>

SeedSynthetic ==
    << <<"look", {"robot"}>>, <<"save", {"robot"}>>, <<"look", {"sandbox"}>>,
       <<"save", {"sandbox"}>>, <<"look", {"assignment"}>>, <<"save", {"assignment"}>> >>

RetireSynthetic ==
    << <<"active", {"owner"}>>, <<"look", {"robot"}>>, <<"look", {"sandbox"}>>,
       <<"look", {"assignment"}>>, <<"save", {"assignment"}>>, <<"save", {"robot"}>>,
       <<"save", {"sandbox"}>> >>

\* The first administrators: they bring Administration with them.
BootstrapAdministration ==
    << <<"active", {"owner"}>>, <<"look", {"served"}>>, <<"save", {"served"}>>,
       <<"list", Governance>>, <<"save", {"read"}>> >>

\* An application opened in production, with its login policy (and redirect
\* URI, written alike) and its first user.
OpenApplication ==
    << <<"active", {"owner"}>>, <<"look", {"opened"}>>, <<"save", {"opened"}>>,
       <<"look", {"policy"}>>, <<"save", {"policy"}>>, <<"list", {"use"}>>, <<"save", {"use"}>> >>

\* One more role on Administration.
Appoint ==
    << <<"active", {"owner", "served"}>>, <<"list", Governance>>, <<"save", {"decide"}>> >>

GrantAuthority ==
    << <<"active", {"owner", "served"}>>, <<"list", Governance>>, <<"save", {"read"}>>,
       <<"save", {"decide"}>> >>

CreateIdentity ==
    << <<"active", {"owner"}>>, <<"look", {"newcomer"}>>, <<"save", {"newcomer"}>> >>

Script ==
    [labels |-> RepairLabels, texts |-> RepairTexts, seed |-> SeedSynthetic,
     retire |-> RetireSynthetic, bootstrap |-> BootstrapAdministration, open |-> OpenApplication,
     appoint |-> Appoint, authority |-> GrantAuthority, create |-> CreateIdentity]

Memory ==
    [kind: Kind \cup {"none"}, pc: 0..11, stage: {"next", "written", "audited"},
     seen: [Row -> Record \cup {None}], listed: [Power -> Nat \cup {None}],
     locks: SUBSET (Row \cup {"head"}), previous: {"none", "head", "old"}]

Idle == [kind |-> "none", pc |-> 0, stage |-> "next", seen |-> [r \in Row |-> None],
         listed |-> [x \in Power |-> None], locks |-> {}, previous |-> "none"]

TypeOK ==
    /\ rows \in [Row -> Record]
    /\ held \in [Power -> Nat]
    /\ intact \in BOOLEAN
    /\ work \in [Commands -> Memory]
    /\ campaign \in Campaigns

\* Before the commands: a database in service, with or without the synthetic
\* set and the applications, written before or after the encoding error.
Init ==
    /\ \E older \in {"garbled", "right"}, synthetic, served, opened \in BOOLEAN :
          rows = [r \in Row |->
                    IF \/ r \in {"newcomer", "policy"}
                       \/ r \in {"robot", "sandbox", "assignment"} /\ ~synthetic
                       \/ r = "served" /\ ~served
                       \/ r = "opened" /\ ~opened
                      THEN Absent
                      ELSE [status |-> "active", text |-> older]]
    /\ held = [x \in Power |-> 0]
    /\ intact = TRUE
    /\ work = [p \in Commands |-> Idle]
    /\ campaign \in Campaigns

-----------------------------------------------------------------------------
(* Helpers *)

Become(p, x) == work' = [work EXCEPT ![p] = x]
Registry == <<rows, held, intact, campaign>>

Step(p) == Script[work[p].kind][work[p].pc]
Doing(p, verb) == work[p].kind # "none" /\ work[p].stage = "next" /\ Step(p)[1] = verb
Objects(p) == Step(p)[2]

\* x has done its step: it goes on with the next one, or has nothing left to do.
Advanced(x) ==
    IF x.pc = Len(Script[x.kind]) THEN Idle
    ELSE [x EXCEPT !.pc = @ + 1, !.stage = "next", !.locks = {}, !.previous = "none"]

Free(p, s) == \A q \in Commands \ {p} : work[q].locks \cap s = {}

-----------------------------------------------------------------------------
(* What the commands read *)

\* Wrong variant of Recognised: an incomplete set is retired.
RecognisedInPart(seen) ==
    \A r \in {"robot", "sandbox", "assignment"} : seen[r].status \notin {"suspended", "disabled"}

\* retireSyntheticPreprod: the three rows, or their retired form.
Recognised(seen) ==
    /\ seen["robot"].status \in {"active", "archived"} /\ seen["robot"].text = "right"
    /\ seen["sandbox"].status \in {"active", "retired"} /\ seen["sandbox"].text = "right"
    /\ seen["assignment"].status \in {"active", "revoked"}

\* The command goes on with what it has just read of rows s.
Accepts(kind, s, seen) ==
    CASE kind = "labels" -> \A r \in s : seen[r].text # "new"
      [] kind = "texts" -> TRUE
      [] kind = "retire" -> "assignment" \in s => Recognised(seen)
      [] kind = "create" -> seen["newcomer"] = Absent
      [] OTHER -> \A r \in s : seen[r] \in {Absent, Definition}

\* Wrong variant of Needed: what exists already is not looked for.
NeededAnyway(p) ==
    {r \in Objects(p) : r \in Row => work[p].seen[r] # None /\ work[p].seen[r] # Definition}

\* What the step writes: rows, or powers to give.
Needed(p) ==
    LET x == work[p]
        Looked == {r \in Objects(p) \cap Row : x.seen[r] # None}
    IN CASE x.kind \in {"labels", "texts"} -> {r \in Looked : x.seen[r].text = "garbled"}
         [] x.kind = "retire" -> {r \in Looked : x.seen[r].status = "active"}
         [] OTHER -> {r \in Looked : x.seen[r].status = "absent"}
                       \cup {w \in Objects(p) \cap Power : x.listed[w] = 0}

Run(p, kind) ==
    /\ work[p].kind = "none"
    /\ kind \in campaign.runs[p]
    /\ Become(p, [Idle EXCEPT !.kind = kind, !.pc = 1])
    /\ UNCHANGED Registry

CheckActive(p) ==
    /\ Doing(p, "active")
    /\ Become(p, IF \A r \in Objects(p) : rows[r].status = "active"
                   THEN Advanced(work[p]) ELSE Idle)
    /\ UNCHANGED Registry

Look(p) ==
    /\ Doing(p, "look")
    /\ LET seen == [r \in Row |-> IF r \in Objects(p) THEN rows[r] ELSE work[p].seen[r]]
       IN Become(p, IF Accepts(work[p].kind, Objects(p), seen)
                      THEN Advanced([work[p] EXCEPT !.seen = seen]) ELSE Idle)
    /\ UNCHANGED Registry

\* listAssignments
List(p) ==
    /\ Doing(p, "list")
    /\ LET listed == [x \in Power |-> IF x \in Objects(p) THEN held[x] ELSE work[p].listed[x]]
       IN Become(p, Advanced([work[p] EXCEPT !.listed = listed]))
    /\ UNCHANGED Registry

-----------------------------------------------------------------------------
(* What they write *)

\* grantResponsibleAuthority refuses a power it finds given twice.
Twice(p) ==
    /\ work[p].kind = "authority"
    /\ \E x \in Objects(p) : work[p].listed[x] > 1

Skip(p) ==
    /\ Doing(p, "save")
    /\ Needed(p) = {}
    /\ Become(p, IF Twice(p) THEN Idle ELSE Advanced(work[p]))
    /\ UNCHANGED Registry

\* Wrong variant of Grants: what is in the row is overwritten.
GrantsAnything(p, r) == r \in Needed(p)

\* What the transaction still requires of row r once it has locked it.  A creation
\* names no previous value, so it is refused when the row is there; but a new
\* identity meets the unique index of e-mails only, and a policy nothing.
Grants(p, r) ==
    LET x == work[p]
    IN IF x.kind = "texts" THEN rows[r].text = x.seen[r].text
       ELSE \/ r \in Power \cup {"newcomer", "policy"}
            \/ x.kind \in {"labels", "retire"} /\ r # "assignment"
            \/ rows[r].status = x.seen[r].status

\* Wrong variant of Write: without FOR UPDATE.
WriteUnlocked(p) ==
    /\ Doing(p, "save")
    /\ Needed(p) # {}
    /\ Become(p, [work[p] EXCEPT !.stage = "written", !.locks = Needed(p) \cap Row])
    /\ UNCHANGED Registry

\* saveIdentity, saveApplication, saveApplicationLoginPolicy, saveAssignment,
\* applyHistoricalTextRepairs: lock, check and write the rows.
Write(p) ==
    /\ Doing(p, "save")
    /\ Needed(p) # {}
    /\ Free(p, Needed(p))
    /\ Become(p, IF \A r \in Needed(p) : Grants(p, r)
                   THEN [work[p] EXCEPT !.stage = "written", !.locks = Needed(p) \cap Row]
                   ELSE Idle)
    /\ UNCHANGED Registry

\* Wrong variant of Audit: the head is read without FOR UPDATE.
AuditUnlocked(p) ==
    /\ work[p].stage = "written"
    /\ Become(p, [work[p] EXCEPT !.stage = "audited", !.previous = "head"])
    /\ UNCHANGED Registry

\* #appendAudit: the head of the chain is locked, then read.
Audit(p) ==
    /\ work[p].stage = "written"
    /\ Free(p, {"head"})
    /\ Become(p, [work[p] EXCEPT !.stage = "audited", !.locks = @ \cup {"head"}, !.previous = "head"])
    /\ UNCHANGED Registry

\* What the transaction of p leaves in row r.
Final(p, r) ==
    LET x == work[p]
    IN CASE x.kind = "labels" -> [x.seen[r] EXCEPT !.text = "right"]
         [] x.kind = "texts" -> [rows[r] EXCEPT !.text = "right"]
         [] x.kind = "retire" /\ r = "assignment" -> [status |-> "revoked", text |-> "new"]
         [] x.kind = "retire" /\ r = "robot" -> [x.seen[r] EXCEPT !.status = "archived"]
         [] x.kind = "retire" /\ r = "sandbox" -> [x.seen[r] EXCEPT !.status = "retired"]
         [] OTHER -> Definition

\* The head moves: what others read of it, if they could, is old.
Moved == [q \in Commands |-> IF work[q].previous = "head" THEN [work[q] EXCEPT !.previous = "old"]
                             ELSE work[q]]

Commit(p) ==
    /\ work[p].stage = "audited"
    /\ rows' = [r \in Row |-> IF r \in Needed(p) THEN Final(p, r) ELSE rows[r]]
    /\ held' = [x \in Power |-> held[x] + (IF x \in Needed(p) THEN 1 ELSE 0)]
    /\ intact' = (intact /\ work[p].previous = "head")
    /\ LET seen == [r \in Row |-> IF r \in Needed(p) THEN None ELSE work[p].seen[r]]
           listed == [x \in Power |-> IF x \in Needed(p) THEN None ELSE work[p].listed[x]]
       IN work' = [Moved EXCEPT ![p] = Advanced([work[p] EXCEPT !.seen = seen, !.listed = listed])]
    /\ UNCHANGED campaign

\* An error, a lost connection, the death of the process: the transaction is
\* rolled back, and what the command had in mind is gone.
Abort(p) ==
    /\ work[p].kind # "none"
    /\ Become(p, Idle)
    /\ UNCHANGED Registry

-----------------------------------------------------------------------------
(* The console, of which only the commits matter here *)

Unlocked(s) == \A q \in Commands : work[q].locks \cap s = {}

\* suspend, reactivate, disable; disableIdentityAndRevokeAccess withdraws what
\* the identity was given.
Decide(i, new) ==
    /\ Unlocked({i, "head"})
    /\ <<rows[i].status, new>> \in {<<"active", "suspended">>, <<"suspended", "active">>,
                                   <<"active", "disabled">>, <<"suspended", "disabled">>}
    /\ LET withdrawn == /\ i = "robot" /\ new = "disabled"
                        /\ rows["assignment"].status = "active"
       IN /\ withdrawn => Unlocked({"assignment"})
          /\ rows' = [r \in Row |->
                        IF r = i THEN [rows[r] EXCEPT !.status = new]
                        ELSE IF r = "assignment" /\ withdrawn THEN [status |-> "revoked", text |-> "new"]
                        ELSE rows[r]]
    /\ held' = [x \in Power |-> IF i = "owner" /\ new = "disabled" THEN 0 ELSE held[x]]
    /\ work' = Moved
    /\ UNCHANGED <<intact, campaign>>

\* revokeAccessAssignment: all but the authority to decide.
Withdraw(x) ==
    /\ Unlocked({"head"})
    /\ x # "decide"
    /\ held[x] > 0
    /\ held' = [held EXCEPT ![x] = @ - 1]
    /\ work' = Moved
    /\ UNCHANGED <<rows, intact, campaign>>

\* grantAccessAssignment and the approval of a line: the console gives rights on
\* an application that has a catalogue, never on Administration.  It has read the
\* owner's state and assignments before, so an assignment of another role, or one
\* made since by a command, does not hold it back.
Give(x) ==
    /\ Unlocked({"head"})
    /\ rows["opened"].status = "active"
    /\ held[x] < MaxGrants
    /\ held' = [held EXCEPT ![x] = @ + 1]
    /\ work' = Moved
    /\ UNCHANGED <<rows, intact, campaign>>

WithdrawSynthetic ==
    /\ Unlocked({"assignment", "head"})
    /\ rows["assignment"].status = "active"
    /\ rows' = [rows EXCEPT !["assignment"] = [status |-> "revoked", text |-> "new"]]
    /\ work' = Moved
    /\ UNCHANGED <<held, intact, campaign>>

Next ==
    \/ \E p \in Commands :
          \/ \E kind \in Kind : Run(p, kind)
          \/ CheckActive(p) \/ Look(p) \/ List(p)
          \/ Skip(p) \/ Write(p) \/ Audit(p) \/ Commit(p)
          \/ Abort(p)
    \/ \E i \in campaign.decides, new \in {"active", "suspended", "disabled"} : Decide(i, new)
    \/ \E x \in Power : Withdraw(x)
    \/ \E x \in campaign.gives : Give(x)
    \/ WithdrawSynthetic

Spec == Init /\ [][Next]_vars

-----------------------------------------------------------------------------
(* Properties *)

\* Withdrawn for good.
Gone == {"disabled", "archived", "retired", "revoked"}

\* A row, or the head of the chain, is locked by one transaction.
Exclusive ==
    \A p, q \in Commands : p # q => work[p].locks \cap work[q].locks = {}

\* Those that found nobody with power x over Administration, and those that gave
\* it, are not more than the processes.
Planning(x) == {p \in Commands : work[p].listed[x] = 0}
Planned == \A x \in Governance : held[x] + Cardinality(Planning(x)) <= Cardinality(Commands)

\* What p holds in memory: a step of its script, a lock on the head for as long as
\* it has been read, and on the rows being written.
Remembers(p) ==
    LET x == work[p]
    IN /\ x.kind = "none" => x = Idle
       /\ x.kind # "none" => x.pc \in 1..Len(Script[x.kind])
       /\ x.stage # "next" => Step(p)[1] = "save" /\ Needed(p) \cap Row \subseteq x.locks
       /\ x.stage = "audited" <=> "head" \in x.locks
       /\ x.previous = "head" <=> "head" \in x.locks

\* What a transaction required when it locked its rows still holds.
Stands(p) == work[p].stage # "next" => \A r \in Needed(p) : Grants(p, r)

Revoked == rows["assignment"].status = "revoked"

\* Only the assignment has its text written anew, a policy is never withdrawn,
\* and what is archived or retired has no assignment left.
Sound(r, x) ==
    /\ x.text = "new" => r = "assignment" /\ x.status # "absent"
    /\ x.status \in Gone => r # "policy"
    /\ x.status = "archived" => r \in Identity /\ Revoked
    /\ x.status = "retired" => r = "sandbox" /\ Revoked
    /\ x.status = "revoked" => r = "assignment" /\ Revoked

\* What p has seen was sound and is: a retirement is past the assignment only
\* when it is revoked, which nothing undoes.
Sees(p) ==
    LET x == work[p]
    IN /\ \A r \in Row : x.seen[r] # None => Sound(r, x.seen[r])
       /\ x.kind = "retire" /\ x.pc > 5 => Revoked
       /\ x.kind = "retire" /\ x.pc = 5 =>
             /\ x.seen["assignment"] # None
             /\ x.seen["assignment"].status \in {"active", "revoked"}
       /\ x.kind = "retire" /\ x.pc >= 5 =>
             \A r \in {"robot", "sandbox"} : x.seen[r] # None => x.seen[r].text = "right"

\* The inductive invariant: every transaction keeps its locks, what it required
\* of the rows under them and what its command relied on to go so far.
Inv ==
    /\ TypeOK
    /\ Exclusive
    /\ Planned
    /\ \A r \in Row : Sound(r, rows[r])
    /\ \A p \in Commands : Remembers(p) /\ Stands(p) /\ Sees(p)

\* verifyAuditChain never finds two events after the same one, whichever
\* commands and decisions are committed together (audit_chain_head).
ChainVerifies == intact

\* The retirement withdraws the access first, so that one that is interrupted,
\* or runs beside a second seed, a repair or the console, leaves the registry
\* more restrictive (docs/ADR-012-RETRAIT-DONNEES-SYNTHETIQUES.md).
AccessWithdrawnFirst ==
    rows["robot"].status = "archived" \/ rows["sandbox"].status = "retired"
       => rows["assignment"].status # "active"

\* No power of the owner over Administration is given more often than there are
\* commands running together, however often each is run again: all but the first
\* of a row of runs find the assignment they would create, and only commands give
\* it (access-decision-admin.mjs:143 refuses).  On another application the console
\* adds its own.
TwinsAreBounded == \A x \in Governance : held[x] <= Cardinality(Commands)

\* What was withdrawn for good - an identity disabled or archived, an application
\* retired, the synthetic assignment revoked - is in force again only through a
\* repair of labels or a creation that had read the row before (saveIdentity and
\* saveApplication write the whole row).
OnlyStaleMemoryRevives ==
    [][\A r \in Row :
          rows[r].status \in Gone /\ rows'[r].status \notin Gone =>
             \E p \in Commands :
                /\ work[p].kind \in {"labels", "create"} /\ work[p].stage = "audited"
                /\ work[p].seen[r].status \notin Gone]_vars

\* A repair never undoes a text written since it was planned, and no command
\* writes an error of encoding back (docs/NETTOYAGE-ENCODAGE-HISTORIQUE.md).
TextsAreKept ==
    [][\A r \in Row :
          /\ rows[r].text = "new" => rows'[r].text = "new"
          /\ rows'[r].text = "garbled" => rows[r].text = "garbled"]_vars
=============================================================================
