---------------------- MODULE MaintenanceCommandsProofs ----------------------
(***************************************************************************)
(* Proofs about MaintenanceCommands, for any number of processes and any   *)
(* commands they run.  Inv is inductive: what a command has read was sound *)
(* and stays so, what a transaction checked stands as long as it holds its *)
(* rows, and a retirement is past the assignment only once it is revoked.  *)
(***************************************************************************)
EXTENDS MaintenanceCommands, FiniteSetTheorems, TLAPS

USE CommandsAssumption

-----------------------------------------------------------------------------
(* The scripts *)

\* What the steps of a script are, as far as the proofs depend on it.
StepFacts(k, n) ==
    LET verb == Script[k][n][1]
        objects == Script[k][n][2]
    IN /\ verb \in {"look", "active", "list", "save"}
       /\ objects \subseteq Row \cup Power
       /\ verb \in {"look", "active"} => objects \subseteq Row
       /\ verb = "save" /\ k \in {"labels", "texts", "retire"} => objects \subseteq Row
       /\ verb = "save" /\ k = "labels" =>
             "assignment" \notin objects /\ "policy" \notin objects
       /\ verb = "save" /\ k = "create" => objects = {"newcomer"}
       /\ verb = "save" /\ "newcomer" \in objects => k \in {"labels", "texts", "create"}
       /\ verb = "save" /\ "assignment" \in objects => k \in {"texts", "seed", "retire"}
       /\ k = "retire" => n <= 7 /\ (verb = "save" => n >= 5)
       /\ k = "retire" /\ n = 4 => verb = "look" /\ objects = {"assignment"}
       /\ k = "retire" /\ n = 5 => verb = "save" /\ objects = {"assignment"}
       /\ k = "retire" /\ n = 6 => verb = "save" /\ objects = {"robot"}
       /\ k = "retire" /\ n = 7 => verb = "save" /\ objects = {"sandbox"}

LEMMA ScriptShape ==
    ASSUME NEW k \in Kind
    PROVE  Len(Script[k]) \in 1..11 /\ \A n \in 1..Len(Script[k]) : StepFacts(k, n)
<1>1. CASE k = "labels"
  BY <1>1 DEF StepFacts, Script, RepairLabels, Row, Identity, Application, Power, Governance
<1>2. CASE k = "texts"
  BY <1>2 DEF StepFacts, Script, RepairTexts, Row, Identity, Application, Power, Governance
<1>3. CASE k = "seed"
  BY <1>3 DEF StepFacts, Script, SeedSynthetic, Row, Identity, Application, Power, Governance
<1>4. CASE k = "retire"
  BY <1>4 DEF StepFacts, Script, RetireSynthetic, Row, Identity, Application, Power, Governance
<1>5. CASE k = "bootstrap"
  BY <1>5 DEF StepFacts, Script, BootstrapAdministration, Row, Identity, Application, Power, Governance
<1>6. CASE k = "open"
  BY <1>6 DEF StepFacts, Script, OpenApplication, Row, Identity, Application, Power, Governance
<1>7. CASE k = "appoint"
  BY <1>7 DEF StepFacts, Script, Appoint, Row, Identity, Application, Power, Governance
<1>8. CASE k = "authority"
  BY <1>8 DEF StepFacts, Script, GrantAuthority, Row, Identity, Application, Power, Governance
<1>9. CASE k = "create"
  BY <1>9 DEF StepFacts, Script, CreateIdentity, Row, Identity, Application, Power, Governance
<1>. QED BY <1>1, <1>2, <1>3, <1>4, <1>5, <1>6, <1>7, <1>8, <1>9 DEF Kind

LEMMA GovernanceIsPower == Governance \subseteq Power
BY DEF Power

LEMMA IdleType == Idle \in Memory
BY DEF Idle, Memory

LEMMA AdvancedShape ==
    ASSUME NEW x \in Memory, x.kind \in Kind, x.pc \in 1..Len(Script[x.kind])
    PROVE  /\ Advanced(x) \in Memory
           /\ \/ Advanced(x) = Idle
              \/ /\ Advanced(x).kind = x.kind /\ x.kind # "none"
                 /\ Advanced(x).pc = x.pc + 1 /\ x.pc + 1 \in 1..Len(Script[x.kind])
                 /\ Advanced(x).stage = "next" /\ Advanced(x).locks = {}
                 /\ Advanced(x).previous = "none"
                 /\ Advanced(x).seen = x.seen /\ Advanced(x).listed = x.listed
<1>1. Len(Script[x.kind]) \in 1..11
  BY ScriptShape
<1>2. CASE x.pc = Len(Script[x.kind])
  BY <1>2, IdleType DEF Advanced
<1>3. CASE x.pc # Len(Script[x.kind])
  <2>1. x.pc + 1 \in 1..Len(Script[x.kind]) /\ x.pc + 1 \in 0..11
    <3>1. \A m \in 1..11 : \A n \in 1..m : n # m => n + 1 \in 1..m /\ n + 1 \in 0..11
      OBVIOUS
    <3>. QED BY <1>1, <1>3, <3>1, Zenon
  <2>2. Advanced(x) = [x EXCEPT !.pc = x.pc + 1, !.stage = "next", !.locks = {}, !.previous = "none"]
    BY <1>3 DEF Advanced, Memory
  <2>3. x.kind # "none"
    BY DEF Kind
  <2>4. Advanced(x) \in Memory
    BY <2>1, <2>2 DEF Memory
  <2>5. /\ Advanced(x).kind = x.kind /\ Advanced(x).pc = x.pc + 1
        /\ Advanced(x).stage = "next" /\ Advanced(x).locks = {}
        /\ Advanced(x).previous = "none"
        /\ Advanced(x).seen = x.seen /\ Advanced(x).listed = x.listed
    BY <2>2 DEF Memory
  <2>. QED BY <2>1, <2>3, <2>4, <2>5
<1>. QED BY <1>2, <1>3

-----------------------------------------------------------------------------
(* What a process holds *)

LEMMA SameMemory ==
    ASSUME NEW q \in Commands, work'[q].kind = work[q].kind, work'[q].pc = work[q].pc,
           work'[q].seen = work[q].seen, work'[q].listed = work[q].listed
    PROVE  /\ Step(q)' = Step(q) /\ Needed(q)' = Needed(q)
           /\ \A r : rows'[r] = rows[r] => Grants(q, r)' = Grants(q, r)
BY DEF Step, Objects, Needed, Grants

\* The step a process is at, and what it would write.
LEMMA AtStep ==
    ASSUME TypeOK, NEW p \in Commands, Remembers(p), work[p].kind # "none"
    PROVE  /\ work[p] \in Memory /\ work[p].kind \in Kind
           /\ work[p].pc \in 1..Len(Script[work[p].kind])
           /\ Step(p) = Script[work[p].kind][work[p].pc]
           /\ StepFacts(work[p].kind, work[p].pc)
<1>1. work[p] \in Memory /\ work[p].kind \in Kind /\ work[p].pc \in 1..Len(Script[work[p].kind])
  BY DEF TypeOK, Remembers, Memory
<1>. QED BY <1>1, ScriptShape DEF Step

\* What Needed answers.
LEMMA NeededShape ==
    ASSUME TypeOK, NEW p \in Commands, Remembers(p), work[p].kind # "none", Step(p)[1] = "save"
    PROVE  /\ Needed(p) \subseteq Objects(p) /\ Objects(p) = Step(p)[2]
           /\ Needed(p) \subseteq Row \cup Power
           /\ \A r \in Needed(p) \cap Row :
                 /\ work[p].seen[r] # None /\ work[p].seen[r] \in Record
                 /\ work[p].kind \in {"labels", "texts"} => work[p].seen[r].text = "garbled"
                 /\ work[p].kind = "retire" => work[p].seen[r].status = "active"
                 /\ work[p].kind \notin {"labels", "texts", "retire"} => work[p].seen[r].status = "absent"
           /\ \A x \in Needed(p) \cap Power : work[p].listed[x] = 0
<1>0. work[p] \in Memory /\ StepFacts(work[p].kind, work[p].pc)
      /\ Step(p) = Script[work[p].kind][work[p].pc]
  BY AtStep
<1>1. \A r \in Row : work[p].seen[r] \in Record \cup {None}
  BY <1>0 DEF Memory
<1>2. Row \cap Power = {}
  BY DEF Row, Identity, Application, Power, Governance
<1>3. Objects(p) \subseteq Row \cup Power
  BY <1>0 DEF StepFacts, Objects
<1>4. CASE work[p].kind \in {"labels", "texts"}
  BY <1>1, <1>2, <1>3, <1>4 DEF Needed, Objects
<1>5. CASE work[p].kind = "retire"
  BY <1>1, <1>2, <1>3, <1>5 DEF Needed, Objects
<1>6. CASE work[p].kind \notin {"labels", "texts", "retire"}
  BY <1>1, <1>2, <1>3, <1>6 DEF Needed, Objects
<1>. QED BY <1>4, <1>5, <1>6

-----------------------------------------------------------------------------
(* The powers given *)

LEMMA FewerPlan ==
    ASSUME NEW x \in Governance, NEW S, Planning(x)' \subseteq S, S \subseteq Commands
    PROVE  /\ IsFiniteSet(S) /\ Cardinality(S) \in Nat /\ Cardinality(Planning(x)') \in Nat
           /\ Cardinality(Planning(x)') <= Cardinality(S)
           /\ Cardinality(S) <= Cardinality(Commands)
<1>1. IsFiniteSet(S)
  BY FS_Subset
<1>2. IsFiniteSet(Planning(x)')
  BY <1>1, FS_Subset
<1>. QED BY <1>1, <1>2, FS_Subset, FS_CardinalityType

-----------------------------------------------------------------------------
(* Steps that change nothing but what one process holds *)

LEMMA PrivateStep ==
    ASSUME Inv, NEW p \in Commands, NEW y \in Memory, Become(p, y), UNCHANGED Registry,
           Free(p, y.locks),
           \A x \in Governance : y.listed[x] = 0 => work[p].listed[x] = 0 \/ held[x] = 0,
           Remembers(p)', Stands(p)', Sees(p)'
    PROVE  Inv'
<1>. USE DEF Become, Registry
<1>1. TypeOK' /\ work' \in [Commands -> Memory] /\ work'[p] = y
  BY DEF Inv, TypeOK
<1>2. \A q \in Commands \ {p} : work'[q] = work[q]
  BY DEF Inv, TypeOK
<1>3. Exclusive'
  <2>. SUFFICES ASSUME NEW a \in Commands, NEW b \in Commands, a # b
                PROVE  work'[a].locks \cap work'[b].locks = {}
    BY DEF Exclusive
  <2>1. CASE a = p
    BY <1>1, <1>2, <2>1 DEF Free
  <2>2. CASE b = p
    BY <1>1, <1>2, <2>2 DEF Free
  <2>. QED BY <1>2, <2>1, <2>2 DEF Inv, Exclusive
<1>4. Planned'
  <2>. SUFFICES ASSUME NEW x \in Governance
                PROVE  held[x] + Cardinality(Planning(x)') <= Cardinality(Commands)
    BY DEF Planned
  <2>0. held[x] \in Nat
    BY GovernanceIsPower DEF Inv, TypeOK
  <2>1. CASE held[x] = 0
    <3>1. Planning(x)' \subseteq Commands
      BY DEF Planning
    <3>. QED BY <2>1, <3>1, FewerPlan
  <2>2. CASE held[x] # 0
    <3>1. Planning(x)' \subseteq Planning(x) /\ Planning(x) \subseteq Commands
      BY <1>1, <1>2, <2>2 DEF Planning
    <3>2. Cardinality(Planning(x)') <= Cardinality(Planning(x)) /\ Cardinality(Planning(x)') \in Nat
          /\ Cardinality(Planning(x)) \in Nat /\ Cardinality(Commands) \in Nat
      BY <3>1, FewerPlan, FS_CardinalityType
    <3>. QED BY <2>0, <3>2 DEF Inv, Planned
  <2>. QED BY <2>1, <2>2
<1>5. \A r \in Row : Sound(r, rows[r])'
  BY DEF Inv, Sound, Revoked
<1>6. ASSUME NEW q \in Commands \ {p}
      PROVE  Remembers(q)' /\ Stands(q)' /\ Sees(q)'
  <2>1. Remembers(q) /\ Stands(q) /\ Sees(q)
    BY DEF Inv
  <2>2. work'[q] = work[q]
    BY <1>2
  <2>3. Step(q)' = Step(q) /\ Needed(q)' = Needed(q) /\ \A r : Grants(q, r)' = Grants(q, r)
    BY <2>2, SameMemory
  <2>. QED BY <2>1, <2>2, <2>3 DEF Remembers, Stands, Sees, Sound, Revoked
<1>. QED BY <1>1, <1>3, <1>4, <1>5, <1>6 DEF Inv

LEMMA Stops ==
    ASSUME Inv, NEW p \in Commands, Become(p, Idle), UNCHANGED Registry
    PROVE  Inv'
<1>1. work'[p] = Idle
  BY DEF Become, Inv, TypeOK
<1>2. Free(p, Idle.locks) /\ \A x \in Governance : Idle.listed[x] # 0
  BY GovernanceIsPower DEF Free, Idle
<1>3. Remembers(p)' /\ Stands(p)'
  BY <1>1 DEF Remembers, Stands, Idle
<1>4. Sees(p)'
  BY <1>1 DEF Sees, Idle
<1>. QED BY <1>2, <1>3, <1>4, IdleType, PrivateStep

\* The command goes on with its next step, having read something or not.
LEMMA Goes ==
    ASSUME Inv, NEW p \in Commands, NEW y \in Memory, y.kind \in Kind, y.pc \in 1..Len(Script[y.kind]),
           Become(p, Advanced(y)), UNCHANGED Registry,
           \A x \in Governance : y.listed[x] = 0 => work[p].listed[x] = 0 \/ held[x] = 0,
           \A r \in Row : y.seen[r] # None => Sound(r, y.seen[r]),
           y.kind = "retire" => /\ y.pc >= 5 => Revoked
                                /\ y.pc = 4 => Recognised(y.seen) /\ y.seen["assignment"] # None
                                /\ y.pc >= 5 => \A r \in {"robot", "sandbox"} :
                                                    y.seen[r] # None => y.seen[r].text = "right"
    PROVE  Inv'
<1>. DEFINE z == Advanced(y)
<1>1. /\ z \in Memory
      /\ \/ z = Idle
         \/ /\ z.kind = y.kind /\ z.kind # "none" /\ z.pc = y.pc + 1
            /\ z.pc \in 1..Len(Script[z.kind])
            /\ z.stage = "next" /\ z.locks = {} /\ z.previous = "none"
            /\ z.seen = y.seen /\ z.listed = y.listed
  BY AdvancedShape
<1>2. CASE z = Idle
  BY <1>2, Stops
<1>3. CASE z # Idle
  <2>. HIDE DEF z
  <2>0. work'[p] = z /\ Become(p, z)
    BY DEF Become, Inv, TypeOK, z
  <2>1. Free(p, z.locks)
    BY <1>1, <1>3 DEF Free
  <2>2. Remembers(p)' /\ Stands(p)'
    BY <1>1, <1>3, <2>0 DEF Remembers, Stands
  <2>3. Sees(p)'
    <3>1. \A r \in Row : z.seen[r] # None => Sound(r, z.seen[r])'
      BY <1>1, <1>3 DEF Sound, Revoked, Registry
    <3>2. y.pc \in 0..11
      BY DEF Memory
    <3>3. z.kind = "retire" /\ z.pc > 5 => Revoked'
      BY <1>1, <1>3, <3>2 DEF Revoked, Registry
    <3>4. z.kind = "retire" /\ z.pc = 5 => y.pc = 4
      BY <1>1, <1>3, <3>2
    <3>5. z.kind = "retire" /\ z.pc = 5 =>
             /\ z.seen["assignment"] # None
             /\ z.seen["assignment"].status \in {"active", "revoked"}
      BY <1>1, <1>3, <3>4 DEF Recognised, Row
    <3>6. z.kind = "retire" /\ z.pc >= 5 =>
             \A r \in {"robot", "sandbox"} : z.seen[r] # None => z.seen[r].text = "right"
      BY <1>1, <1>3, <3>2, <3>4 DEF Recognised
    <3>. QED BY <2>0, <3>1, <3>3, <3>5, <3>6 DEF Sees, Sound, Revoked
  <2>4. \A x \in Governance : z.listed[x] = 0 => work[p].listed[x] = 0 \/ held[x] = 0
    BY <1>1, <1>3
  <2>5. z \in Memory
    BY AdvancedShape DEF z
  <2>. QED BY <2>0, <2>1, <2>2, <2>3, <2>4, <2>5, PrivateStep
<1>. QED BY <1>2, <1>3

LEMMA RunKeeps ==
    ASSUME Inv, NEW p \in Commands, NEW k \in Kind, Run(p, k)
    PROVE  Inv'
<1>. DEFINE y == [Idle EXCEPT !.kind = k, !.pc = 1]
<1>1. /\ y \in Memory /\ y.kind = k /\ y.pc = 1 /\ y.stage = "next" /\ y.locks = {}
      /\ y.previous = "none" /\ y.seen = Idle.seen /\ y.listed = Idle.listed
  <2>0. \A x \in Memory, n \in 0..11 :
           LET z == [x EXCEPT !.kind = k, !.pc = n]
           IN z \in Memory /\ z.kind = k /\ z.pc = n
    BY DEF Memory
  <2>1. y \in Memory /\ y.kind = k /\ y.pc = 1
    <3>. HIDE DEF y
    <3>1. y = [Idle EXCEPT !.kind = k, !.pc = 1] /\ 1 \in 0..11
      BY DEF y
    <3>. QED BY <2>0, <3>1, IdleType, Zenon
  <2>2. y.stage = Idle.stage /\ y.locks = Idle.locks /\ y.previous = Idle.previous
        /\ y.seen = Idle.seen /\ y.listed = Idle.listed
    BY IdleType DEF Memory
  <2>3. Idle.stage = "next" /\ Idle.locks = {} /\ Idle.previous = "none"
    BY DEF Idle
  <2>. QED BY <2>1, <2>2, <2>3
<1>2. Become(p, y) /\ UNCHANGED Registry
  BY DEF Run
<1>. HIDE DEF y
<1>3. work'[p] = y
  BY <1>2 DEF Become, Inv, TypeOK
<1>4. Remembers(p)' /\ Stands(p)'
  <2>1. k # "none" /\ Len(Script[k]) \in 1..11
    BY ScriptShape DEF Kind
  <2>2. \A m \in 1..11 : 1 \in 1..m
    OBVIOUS
  <2>3. 1 \in 1..Len(Script[k])
    BY <2>1, <2>2, Zenon
  <2>. QED BY <1>1, <1>3, <2>1, <2>3 DEF Remembers, Stands
<1>5. Sees(p)'
  BY <1>1, <1>3 DEF Sees, Idle
<1>6. Free(p, y.locks) /\ \A x \in Governance : y.listed[x] # 0
  BY <1>1, GovernanceIsPower DEF Free, Idle
<1>. QED BY <1>1, <1>2, <1>4, <1>5, <1>6, PrivateStep

\* Skip and CheckActive: on to the next step, without having read anything.
LEMMA OnKeeps ==
    ASSUME Inv, NEW p \in Commands, work[p].kind # "none", Become(p, Advanced(work[p])),
           UNCHANGED Registry, work[p].kind = "retire" =>
              /\ work[p].pc # 4
              /\ work[p].pc = 5 => work[p].seen["assignment"].status # "active"
    PROVE  Inv'
<1>1. /\ work[p] \in Memory /\ work[p].kind \in Kind
      /\ work[p].pc \in 1..Len(Script[work[p].kind])
  BY AtStep DEF Inv
<1>2. Sees(p)
  BY DEF Inv
<1>3. work[p].kind = "retire" /\ work[p].pc >= 5 => Revoked
  <2>1. work[p].kind = "retire" /\ work[p].pc = 5 => Revoked
    BY <1>2 DEF Sees, Sound, Row
  <2>2. work[p].pc \in 0..11
    BY <1>1 DEF Memory
  <2>. QED BY <1>2, <2>1, <2>2 DEF Sees
<1>4. work[p].kind = "retire" /\ work[p].pc >= 5 =>
         \A r \in {"robot", "sandbox"} : work[p].seen[r] # None => work[p].seen[r].text = "right"
  BY <1>2 DEF Sees
<1>5. \A r \in Row : work[p].seen[r] # None => Sound(r, work[p].seen[r])
  BY <1>2 DEF Sees
<1>. QED BY <1>1, <1>3, <1>4, <1>5, Goes

LEMMA CheckActiveKeeps ==
    ASSUME Inv, NEW p \in Commands, CheckActive(p)
    PROVE  Inv'
<1>1. work[p].kind # "none" /\ Step(p)[1] = "active" /\ UNCHANGED Registry
  BY DEF CheckActive, Doing
<1>2. work[p].kind = "retire" => work[p].pc # 4 /\ work[p].pc # 5
  BY <1>1, AtStep DEF StepFacts, Inv
<1>3. Become(p, Advanced(work[p])) \/ Become(p, Idle)
  BY DEF CheckActive
<1>. QED BY <1>1, <1>2, <1>3, OnKeeps, Stops

LEMMA SkipKeeps ==
    ASSUME Inv, NEW p \in Commands, Skip(p)
    PROVE  Inv'
<1>1. work[p].kind # "none" /\ Step(p)[1] = "save" /\ Needed(p) = {} /\ UNCHANGED Registry
  BY DEF Skip, Doing
<1>2. work[p].kind = "retire" =>
         work[p].pc # 4 /\ (work[p].pc = 5 => work[p].seen["assignment"].status # "active")
  <2>1. work[p].kind = "retire" => work[p].pc # 4 /\ (work[p].pc = 5 => Objects(p) = {"assignment"})
    BY <1>1, AtStep DEF StepFacts, Inv, Objects
  <2>2. work[p].kind = "retire" /\ work[p].pc = 5 => work[p].seen["assignment"] # None
    BY DEF Inv, Sees
  <2>3. work[p].kind = "retire" =>
           Needed(p) = {r \in Objects(p) \cap Row : work[p].seen[r] # None /\ work[p].seen[r].status = "active"}
    BY DEF Needed
  <2>. QED BY <1>1, <2>1, <2>2, <2>3 DEF Row
<1>3. Become(p, Advanced(work[p])) \/ Become(p, Idle)
  BY DEF Skip
<1>. QED BY <1>1, <1>2, <1>3, OnKeeps, Stops

LEMMA ListKeeps ==
    ASSUME Inv, NEW p \in Commands, List(p)
    PROVE  Inv'
<1>. DEFINE listed == [x \in Power |-> IF x \in Objects(p) THEN held[x] ELSE work[p].listed[x]]
            y == [work[p] EXCEPT !.listed = listed]
<1>1. /\ work[p].kind # "none" /\ Step(p)[1] = "list" /\ UNCHANGED Registry
      /\ Become(p, Advanced(y))
  BY DEF List, Doing
<1>2. /\ work[p] \in Memory /\ work[p].kind \in Kind
      /\ work[p].pc \in 1..Len(Script[work[p].kind])
      /\ StepFacts(work[p].kind, work[p].pc) /\ Step(p) = Script[work[p].kind][work[p].pc]
  BY <1>1, AtStep DEF Inv
<1>3. /\ y \in Memory /\ y.kind = work[p].kind /\ y.pc = work[p].pc /\ y.seen = work[p].seen
      /\ \A x \in Governance : y.listed[x] = 0 => work[p].listed[x] = 0 \/ held[x] = 0
  <2>1. work[p].listed \in [Power -> Nat \cup {None}] /\ held \in [Power -> Nat]
    BY <1>2 DEF Memory, Inv, TypeOK
  <2>2. listed \in [Power -> Nat \cup {None}]
    BY <2>1
  <2>3. \A x \in Governance : listed[x] = 0 => work[p].listed[x] = 0 \/ held[x] = 0
    BY DEF Power
  <2>. HIDE DEF listed
  <2>. QED BY <1>2, <2>2, <2>3 DEF Memory
<1>4. y.kind = "retire" => y.pc # 4 /\ y.pc # 5
  BY <1>1, <1>2, <1>3 DEF StepFacts
<1>. HIDE DEF y
<1>5. Sees(p)
  BY DEF Inv
<1>6. y.kind = "retire" /\ y.pc >= 5 => Revoked
  BY <1>2, <1>3, <1>4, <1>5 DEF Sees, Memory
<1>. QED BY <1>1, <1>2, <1>3, <1>4, <1>5, <1>6, Goes DEF Sees

LEMMA LookKeeps ==
    ASSUME Inv, NEW p \in Commands, Look(p)
    PROVE  Inv'
<1>. DEFINE seen == [r \in Row |-> IF r \in Objects(p) THEN rows[r] ELSE work[p].seen[r]]
            y == [work[p] EXCEPT !.seen = seen]
<1>1. /\ work[p].kind # "none" /\ Step(p)[1] = "look" /\ UNCHANGED Registry
      /\ Become(p, Idle) \/ (Accepts(work[p].kind, Objects(p), seen) /\ Become(p, Advanced(y)))
  BY DEF Look, Doing
<1>2. /\ work[p] \in Memory /\ work[p].kind \in Kind
      /\ work[p].pc \in 1..Len(Script[work[p].kind])
      /\ StepFacts(work[p].kind, work[p].pc) /\ Step(p) = Script[work[p].kind][work[p].pc]
  BY <1>1, AtStep DEF Inv
<1>3. seen \in [Row -> Record \cup {None}]
  BY <1>2 DEF Memory, Inv, TypeOK
<1>4. y \in Memory /\ y.kind = work[p].kind /\ y.pc = work[p].pc /\ y.seen = seen /\ y.listed = work[p].listed
  BY <1>2, <1>3 DEF Memory
<1>5. \A r \in Row : seen[r] # None => Sound(r, seen[r])
  BY DEF Inv, Sees
<1>6. CASE Accepts(work[p].kind, Objects(p), seen) /\ Become(p, Advanced(y))
  <2>1. y.kind = "retire" => y.pc # 5 /\ y.pc # 6 /\ y.pc # 7 /\ y.pc <= 7
    BY <1>1, <1>2, <1>4 DEF StepFacts
  <2>2. y.kind = "retire" => y.pc < 5
    BY <1>2, <1>4, <2>1 DEF Memory
  <2>3. y.kind = "retire" /\ y.pc = 4 => Recognised(y.seen)
    BY <1>1, <1>2, <1>4, <1>6 DEF StepFacts, Accepts, Objects
  <2>4. y.kind = "retire" /\ y.pc = 4 => y.seen["assignment"] # None
    <3>1. "assignment" \in Row /\ rows["assignment"] # None
      BY DEF Row, Inv, TypeOK
    <3>2. y.kind = "retire" /\ y.pc = 4 => Objects(p) = {"assignment"}
      BY <1>2, <1>4 DEF StepFacts, Objects
    <3>. QED BY <1>4, <3>1, <3>2
  <2>. HIDE DEF y, seen
  <2>. QED BY <1>1, <1>2, <1>4, <1>5, <1>6, <2>2, <2>3, <2>4, Goes
<1>. QED BY <1>1, <1>6, Stops

LEMMA WriteKeeps ==
    ASSUME Inv, NEW p \in Commands, Write(p)
    PROVE  Inv'
<1>. DEFINE y == [work[p] EXCEPT !.stage = "written", !.locks = Needed(p) \cap Row]
<1>1. /\ work[p].kind # "none" /\ work[p].stage = "next" /\ Step(p)[1] = "save"
      /\ Free(p, Needed(p)) /\ UNCHANGED Registry
      /\ Become(p, Idle) \/ (Become(p, y) /\ \A r \in Needed(p) : Grants(p, r))
  BY DEF Write, Doing
<1>2. /\ work[p] \in Memory /\ work[p].kind \in Kind
      /\ work[p].pc \in 1..Len(Script[work[p].kind])
  BY <1>1, AtStep DEF Inv
<1>3. /\ y \in Memory /\ y.kind = work[p].kind /\ y.pc = work[p].pc /\ y.seen = work[p].seen
      /\ y.listed = work[p].listed /\ y.stage = "written" /\ y.locks = Needed(p) \cap Row
      /\ y.previous = work[p].previous
  BY <1>2 DEF Memory
<1>. HIDE DEF y
<1>4. CASE Become(p, y) /\ \A r \in Needed(p) : Grants(p, r)
  <2>1. work'[p] = y
    BY <1>4 DEF Become, Inv, TypeOK
  <2>2. Step(p)' = Step(p) /\ Needed(p)' = Needed(p) /\ \A r : Grants(p, r)' = Grants(p, r)
    BY <1>1, <1>3, <2>1, SameMemory DEF Registry
  <2>3. "head" \notin Row
    BY DEF Row, Identity, Application
  <2>4. Remembers(p)'
    BY <1>1, <1>2, <1>3, <2>1, <2>2, <2>3 DEF Remembers, Inv
  <2>5. Stands(p)'
    BY <1>4, <2>2 DEF Stands
  <2>6. Sees(p)'
    BY <1>1, <1>3, <2>1 DEF Sees, Sound, Revoked, Registry, Inv
  <2>7. Free(p, y.locks)
    BY <1>1, <1>3 DEF Free
  <2>. QED BY <1>1, <1>3, <1>4, <2>4, <2>5, <2>6, <2>7, PrivateStep
<1>. QED BY <1>1, <1>4, Stops

LEMMA AuditKeeps ==
    ASSUME Inv, NEW p \in Commands, Audit(p)
    PROVE  Inv'
<1>. DEFINE y == [work[p] EXCEPT !.stage = "audited", !.locks = @ \cup {"head"}, !.previous = "head"]
<1>1. work[p].stage = "written" /\ Free(p, {"head"}) /\ Become(p, y) /\ UNCHANGED Registry
  BY DEF Audit
<1>2. work[p] \in Memory /\ Remembers(p) /\ Stands(p) /\ Sees(p)
  BY DEF Inv, TypeOK
<1>3. /\ y \in Memory /\ y.kind = work[p].kind /\ y.pc = work[p].pc /\ y.seen = work[p].seen
      /\ y.listed = work[p].listed /\ y.stage = "audited" /\ y.locks = work[p].locks \cup {"head"}
      /\ y.previous = "head"
  BY <1>2 DEF Memory
<1>. HIDE DEF y
<1>4. work'[p] = y
  BY <1>1 DEF Become, Inv, TypeOK
<1>5. Step(p)' = Step(p) /\ Needed(p)' = Needed(p) /\ \A r : Grants(p, r)' = Grants(p, r)
  BY <1>1, <1>3, <1>4, SameMemory DEF Registry
<1>6. Remembers(p)'
  <2>1. work[p].kind # "none"
    BY <1>1, <1>2 DEF Remembers, Idle
  <2>. QED BY <1>1, <1>2, <1>3, <1>4, <1>5, <2>1 DEF Remembers
<1>7. Stands(p)' /\ Sees(p)'
  BY <1>1, <1>2, <1>3, <1>4, <1>5 DEF Stands, Sees, Sound, Revoked, Registry
<1>8. Free(p, y.locks)
  BY <1>1, <1>3 DEF Free, Inv, Exclusive
<1>. QED BY <1>1, <1>3, <1>6, <1>7, <1>8, PrivateStep

-----------------------------------------------------------------------------
(* Steps that change the registry *)

\* What a transaction leaves in a row, against what the row held until then.
LEMMA FinalShape ==
    ASSUME Inv, NEW p \in Commands, work[p].stage # "next", NEW r \in Needed(p) \cap Row
    PROVE  /\ Final(p, r) \in Record
           /\ Final(p, r).text = "new" => r = "assignment" /\ Final(p, r).status # "absent"
           /\ Final(p, r).status \in Gone => r # "policy"
           /\ Final(p, r).status = "archived" => r \in Identity /\ Revoked
           /\ Final(p, r).status = "retired" => r = "sandbox" /\ Revoked
           /\ Final(p, r).status = "revoked" => r = "assignment"
           /\ r = "assignment" /\ Revoked => Final(p, r).status = "revoked"
           /\ rows[r].status \in Gone /\ Final(p, r).status \notin Gone =>
                 work[p].kind \in {"labels", "create"} /\ work[p].seen[r].status \notin Gone
           /\ rows[r].text = "new" => Final(p, r).text = "new"
           /\ Final(p, r).text = "garbled" => rows[r].text = "garbled"
           /\ r = "assignment" /\ work[p].kind = "retire" => Final(p, r).status = "revoked"
<1>. DEFINE k == work[p].kind
            old == work[p].seen[r]
<1>0. /\ Remembers(p) /\ Stands(p) /\ Sees(p) /\ TypeOK
      /\ Grants(p, r) /\ Sound(r, rows[r]) /\ rows[r] \in Record
  BY DEF Inv, TypeOK, Stands
<1>1. k # "none" /\ Step(p)[1] = "save"
  BY <1>0 DEF Remembers, Idle
<1>2. StepFacts(k, work[p].pc) /\ work[p].pc \in 1..11 /\ r \in Script[k][work[p].pc][2]
      /\ Script[k][work[p].pc][1] = "save"
  BY <1>0, <1>1, AtStep, NeededShape DEF Memory, Objects
<1>3. /\ old # None /\ old \in Record /\ Sound(r, old)
      /\ k \in {"labels", "texts"} => old.text = "garbled"
      /\ k = "retire" => old.status = "active"
      /\ k \notin {"labels", "texts", "retire"} => old.status = "absent"
  BY <1>0, <1>1, NeededShape DEF Sees
<1>. HIDE DEF old
<1>4. CASE k = "labels"
  <2>1. Final(p, r) = [old EXCEPT !.text = "right"] /\ r # "assignment" /\ r # "policy"
    BY <1>2, <1>4 DEF Final, StepFacts, old
  <2>. QED BY <1>0, <1>3, <1>4, <2>1 DEF Sound, Record, old
<1>5. CASE k = "texts"
  <2>1. Final(p, r) = [rows[r] EXCEPT !.text = "right"] /\ rows[r].text = "garbled"
    <3>1. Final(p, r) = [rows[r] EXCEPT !.text = "right"]
      BY <1>5 DEF Final
    <3>2. rows[r].text = old.text
      BY <1>0, <1>5 DEF Grants, old
    <3>. QED BY <1>3, <1>5, <3>1, <3>2
  <2>. QED BY <1>0, <1>5, <2>1 DEF Sound, Record, Revoked
<1>6. CASE k = "retire"
  <2>1. work[p].pc \in 5..7
    BY <1>2, <1>6 DEF StepFacts
  <2>2. CASE r = "assignment"
    <3>1. Final(p, r) = [status |-> "revoked", text |-> "new"]
      BY <1>6, <2>2 DEF Final
    <3>. QED BY <2>2, <3>1 DEF Record, Gone
  <2>3. CASE r # "assignment"
    <3>1. Revoked /\ r \in {"robot", "sandbox"} /\ work[p].pc > 5
      BY <1>0, <1>2, <1>6, <2>1, <2>3 DEF StepFacts, Sees
    <3>2. old.text = "right" /\ rows[r].text # "new"
      BY <1>0, <1>3, <1>6, <2>1, <2>3, <3>1 DEF Sees, Sound, old
    <3>3. Final(p, r) = [old EXCEPT !.status = IF r = "robot" THEN "archived" ELSE "retired"]
      BY <1>6, <3>1 DEF Final, old
    <3>. QED BY <1>0, <1>3, <2>3, <3>1, <3>2, <3>3 DEF Record, Gone, Identity
  <2>. QED BY <2>2, <2>3
<1>7. CASE k \notin {"labels", "texts", "retire"}
  <2>1. Final(p, r) = [status |-> "active", text |-> "right"]
    BY <1>7 DEF Final, Definition
  <2>2. CASE r \in {"newcomer", "policy"}
    <3>1. r = "newcomer" => k = "create"
      BY <1>2, <1>7, <2>2 DEF StepFacts
    <3>2. rows[r].text # "new"
      BY <1>0, <2>2 DEF Sound
    <3>3. r = "policy" => rows[r].status \notin Gone
      BY <1>0 DEF Sound
    <3>. QED BY <1>3, <1>7, <2>1, <2>2, <3>1, <3>2, <3>3 DEF Record, Gone, old
  <2>3. CASE r \notin {"newcomer", "policy"}
    <3>1. r \notin Power
      BY DEF Row, Identity, Application, Power, Governance
    <3>2. rows[r].status = "absent"
      BY <1>0, <1>3, <1>7, <2>3, <3>1 DEF Grants, old
    <3>. QED BY <1>0, <1>7, <2>1, <3>2 DEF Record, Gone, Sound, Revoked
  <2>. QED BY <2>2, <2>3
<1>. QED BY <1>4, <1>5, <1>6, <1>7

\* A process whose memory and locked rows are untouched.
LEMMA Untouched ==
    ASSUME Inv, NEW q \in Commands, work'[q] = work[q],
           Revoked => Revoked',
           work[q].stage # "next" => \A r \in Needed(q) \cap Row : rows'[r] = rows[r]
    PROVE  Remembers(q)' /\ Stands(q)' /\ Sees(q)'
<1>1. Remembers(q) /\ Stands(q) /\ Sees(q) /\ TypeOK
  BY DEF Inv
<1>2. Step(q)' = Step(q) /\ Needed(q)' = Needed(q)
      /\ \A r : rows'[r] = rows[r] => Grants(q, r)' = Grants(q, r)
  BY SameMemory
<1>3. Remembers(q)'
  BY <1>1, <1>2 DEF Remembers
<1>4. Stands(q)'
  <2>. SUFFICES ASSUME work[q].stage # "next", NEW r \in Needed(q)
                PROVE  Grants(q, r)'
    BY <1>2 DEF Stands
  <2>1. Needed(q) \subseteq Row \cup Power /\ Step(q)[1] = "save" /\ work[q].kind # "none"
    <3>1. Step(q)[1] = "save" /\ work[q].kind # "none"
      BY <1>1 DEF Remembers, Idle
    <3>. QED BY <1>1, <3>1, NeededShape
  <2>2. CASE r \in Row
    BY <1>1, <1>2, <2>2 DEF Stands
  <2>3. CASE r \in Power
    <3>1. work[q].kind # "texts"
      <4>1. work[q].kind = "texts" => Objects(q) \subseteq Row
        BY <1>1, <2>1, AtStep DEF StepFacts, Objects
      <4>2. Row \cap Power = {}
        BY DEF Row, Identity, Application, Power, Governance
      <4>. QED BY <1>1, <2>1, <2>3, <4>1, <4>2, NeededShape
    <3>. QED BY <2>3, <3>1 DEF Grants
  <2>. QED BY <2>1, <2>2, <2>3
<1>5. Sees(q)'
  BY <1>1 DEF Sees, Sound
<1>. QED BY <1>3, <1>4, <1>5

LEMMA HeadIsFree ==
    ASSUME Inv, NEW p, \A q \in Commands \ {p} : "head" \notin work[q].locks
    PROVE  \A q \in Commands \ {p} : Moved[q] = work[q]
BY DEF Inv, Remembers, Moved

\* A decision of the console, on rows that no command has locked.
LEMMA ConsoleStep ==
    ASSUME Inv, work' = work, UNCHANGED <<intact, campaign>>,
           rows' \in [Row -> Record], held' \in [Power -> Nat],
           \A x \in Governance : held'[x] <= held[x],
           Revoked => Revoked', \A r \in Row : Sound(r, rows[r])',
           NEW S, Unlocked(S), \A r \in Row \ S : rows'[r] = rows[r]
    PROVE  Inv'
<1>1. TypeOK' /\ Exclusive'
  BY DEF Inv, TypeOK, Exclusive
<1>2. Planned'
  <2>. SUFFICES ASSUME NEW x \in Governance
                PROVE  held'[x] + Cardinality(Planning(x)') <= Cardinality(Commands)
    BY DEF Planned
  <2>1. Planning(x)' = Planning(x) /\ Planning(x) \subseteq Commands
    BY DEF Planning
  <2>2. Cardinality(Planning(x)) \in Nat /\ Cardinality(Commands) \in Nat
    BY <2>1, FewerPlan, FS_CardinalityType
  <2>3. held[x] \in Nat /\ held'[x] \in Nat /\ held[x] + Cardinality(Planning(x)) <= Cardinality(Commands)
    BY GovernanceIsPower DEF Inv, TypeOK, Planned
  <2>. QED BY <2>1, <2>2, <2>3
<1>3. ASSUME NEW q \in Commands
      PROVE  Remembers(q)' /\ Stands(q)' /\ Sees(q)'
  <2>1. work[q].stage # "next" => \A r \in Needed(q) \cap Row : rows'[r] = rows[r]
    BY DEF Unlocked, Inv, Remembers
  <2>. QED BY <2>1, Untouched
<1>. QED BY <1>1, <1>2, <1>3 DEF Inv

LEMMA CommitKeeps ==
    ASSUME Inv, NEW p \in Commands, Commit(p)
    PROVE  Inv'
<1>. DEFINE N == Needed(p)
            seen == [r \in Row |-> IF r \in N THEN None ELSE work[p].seen[r]]
            listed == [x \in Power |-> IF x \in N THEN None ELSE work[p].listed[x]]
            y == [work[p] EXCEPT !.seen = seen, !.listed = listed]
            z == Advanced(y)
<1>0. /\ TypeOK /\ Remembers(p) /\ Stands(p) /\ Sees(p) /\ work[p].stage = "audited"
      /\ \A q \in Commands \ {p} : work[q].locks \cap work[p].locks = {}
  BY DEF Inv, Commit, Exclusive
<1>1. work[p].kind # "none" /\ Step(p)[1] = "save" /\ N \cap Row \subseteq work[p].locks
      /\ "head" \in work[p].locks
  BY <1>0 DEF Remembers, Idle
<1>2. /\ work[p] \in Memory /\ work[p].kind \in Kind
      /\ work[p].pc \in 1..Len(Script[work[p].kind])
      /\ StepFacts(work[p].kind, work[p].pc) /\ Step(p) = Script[work[p].kind][work[p].pc]
  BY <1>0, <1>1, AtStep
<1>3. y \in Memory /\ y.kind = work[p].kind /\ y.pc = work[p].pc /\ y.seen = seen /\ y.listed = listed
  <2>1. seen \in [Row -> Record \cup {None}] /\ listed \in [Power -> Nat \cup {None}]
    BY <1>2 DEF Memory
  <2>. QED BY <1>2, <2>1 DEF Memory
<1>. HIDE DEF y
<1>4. /\ z \in Memory
      /\ \/ z = Idle
         \/ /\ z.kind = work[p].kind /\ z.kind # "none"
            /\ z.pc = work[p].pc + 1 /\ z.pc \in 1..Len(Script[z.kind])
            /\ z.stage = "next" /\ z.locks = {} /\ z.previous = "none"
            /\ z.seen = seen /\ z.listed = listed
  BY <1>2, <1>3, AdvancedShape
<1>. USE DEF y
<1>5. work' = [work EXCEPT ![p] = z]
  <2>1. \A q \in Commands \ {p} : Moved[q] = work[q]
    BY <1>0, <1>1, HeadIsFree
  <2>2. work' = [Moved EXCEPT ![p] = z]
    BY DEF Commit
  <2>. QED BY <1>0, <2>1, <2>2 DEF TypeOK, Moved
<1>6. /\ rows' = [r \in Row |-> IF r \in N THEN Final(p, r) ELSE rows[r]]
      /\ held' = [x \in Power |-> held[x] + (IF x \in N THEN 1 ELSE 0)]
      /\ intact' \in BOOLEAN /\ UNCHANGED campaign
  BY <1>0 DEF Commit, TypeOK
<1>. HIDE DEF z, y
<1>7. work'[p] = z /\ \A q \in Commands \ {p} : work'[q] = work[q]
  BY <1>0, <1>5 DEF TypeOK
<1>8. TypeOK'
  <2>1. rows' \in [Row -> Record]
    BY <1>0, <1>6, FinalShape DEF TypeOK
  <2>2. held' \in [Power -> Nat]
    BY <1>0, <1>6 DEF TypeOK
  <2>3. work' \in [Commands -> Memory]
    BY <1>0, <1>4, <1>5 DEF TypeOK
  <2>. QED BY <1>0, <1>6, <2>1, <2>2, <2>3 DEF TypeOK
<1>9. Exclusive'
  <2>1. work'[p].locks = {}
    BY <1>4, <1>7 DEF Idle
  <2>. QED BY <1>7, <2>1 DEF Exclusive, Inv
<1>10. Planned'
  <2>. SUFFICES ASSUME NEW x \in Governance
                PROVE  held'[x] + Cardinality(Planning(x)') <= Cardinality(Commands)
    BY DEF Planned
  <2>0. z.listed[x] = 0 => work[p].listed[x] = 0 /\ x \notin N
    BY <1>4, GovernanceIsPower DEF Idle
  <2>1. Planning(x) \subseteq Commands /\ Planning(x)' \subseteq Planning(x)
    BY <1>7, <2>0 DEF Planning
  <2>2. /\ held[x] \in Nat /\ held[x] + Cardinality(Planning(x)) <= Cardinality(Commands)
        /\ IsFiniteSet(Planning(x)) /\ Cardinality(Planning(x)) \in Nat
        /\ Cardinality(Planning(x)') \in Nat /\ Cardinality(Planning(x)') <= Cardinality(Planning(x))
        /\ Cardinality(Commands) \in Nat
    BY <2>1, FewerPlan, FS_CardinalityType, GovernanceIsPower DEF Inv, TypeOK, Planned
  <2>3. CASE x \notin N
    BY <1>6, <2>2, <2>3, GovernanceIsPower
  <2>4. CASE x \in N
    <3>1. p \in Planning(x)
      BY <1>0, <1>1, <2>4, NeededShape, GovernanceIsPower DEF Planning
    <3>2. Planning(x)' \subseteq Planning(x) \ {p} /\ Planning(x) \ {p} \subseteq Commands
      BY <1>7, <2>0, <2>1, <2>4 DEF Planning
    <3>3. Cardinality(Planning(x) \ {p}) = Cardinality(Planning(x)) - 1
      BY <2>2, <3>1, FS_RemoveElement
    <3>4. Cardinality(Planning(x)') <= Cardinality(Planning(x) \ {p})
      BY <3>2, FewerPlan
    <3>. QED BY <1>6, <2>2, <2>4, <3>3, <3>4, GovernanceIsPower
  <2>. QED BY <2>3, <2>4
<1>11. Revoked => Revoked'
  BY <1>0, <1>6, FinalShape DEF Revoked, Row
<1>12. ASSUME NEW r \in Row PROVE Sound(r, rows[r])'
  <2>1. Sound(r, rows[r])
    BY DEF Inv
  <2>2. CASE r \in N
    <3>1. rows'[r] = Final(p, r)
      BY <1>6, <2>2
    <3>2. Final(p, r).status = "revoked" => r = "assignment" /\ Revoked'
      BY <1>0, <2>2, <3>1, FinalShape DEF Revoked
    <3>. QED BY <1>0, <1>11, <2>2, <3>1, <3>2, FinalShape DEF Sound
  <2>3. CASE r \notin N
    BY <1>6, <1>11, <2>1, <2>3 DEF Sound
  <2>. QED BY <2>2, <2>3
<1>13. ASSUME NEW q \in Commands \ {p} PROVE Remembers(q)' /\ Stands(q)' /\ Sees(q)'
  <2>1. work[q].stage # "next" => \A r \in Needed(q) \cap Row : rows'[r] = rows[r]
    <3>1. work[q].stage # "next" => Needed(q) \cap Row \subseteq work[q].locks
      BY DEF Inv, Remembers
    <3>. QED BY <1>0, <1>1, <1>6, <3>1
  <2>. QED BY <1>7, <1>11, <2>1, Untouched
<1>14. Remembers(p)' /\ Stands(p)'
  BY <1>4, <1>7 DEF Remembers, Stands, Idle
<1>15. Sees(p)'
  <2>1. CASE z = Idle
    BY <1>7, <2>1 DEF Sees, Idle
  <2>2. CASE z # Idle
    <3>0. work[p].pc \in 0..11 /\ z.kind = work[p].kind /\ z.pc = work[p].pc + 1 /\ z.seen = seen
      BY <1>2, <1>4, <2>2 DEF Memory
    <3>1. \A r \in Row : work'[p].seen[r] # None => Sound(r, work[p].seen[r])'
      BY <1>0, <1>7, <1>11, <3>0 DEF Sees, Sound
    <3>2. z.kind = "retire" => work[p].pc >= 5
      BY <1>1, <1>2, <3>0 DEF StepFacts
    <3>3. z.kind = "retire" /\ work[p].pc = 5 => Revoked'
      <4>. SUFFICES ASSUME z.kind = "retire", work[p].pc = 5 PROVE Revoked'
        OBVIOUS
      <4>1. "assignment" \in Row /\ Objects(p) = {"assignment"}
        BY <1>2, <3>0 DEF Row, StepFacts, Objects
      <4>2. work[p].seen["assignment"] # None /\ work[p].seen["assignment"].status \in {"active", "revoked"}
        BY <1>0, <3>0 DEF Sees
      <4>3. CASE "assignment" \in N
        BY <1>0, <1>6, <3>0, <4>1, <4>3, FinalShape DEF Revoked
      <4>4. CASE "assignment" \notin N
        <5>1. work[p].seen["assignment"].status # "active"
          BY <3>0, <4>1, <4>2, <4>4 DEF Needed
        <5>. QED BY <1>0, <1>11, <4>1, <4>2, <5>1 DEF Sees, Sound
      <4>. QED BY <4>3, <4>4
    <3>4. z.kind = "retire" => Revoked'
      BY <1>0, <1>11, <3>0, <3>2, <3>3 DEF Sees
    <3>5. z.kind = "retire" => \A r \in {"robot", "sandbox"} : z.seen[r] # None => z.seen[r].text = "right"
      BY <1>0, <3>0, <3>2 DEF Sees, Row, Identity, Application
    <3>6. z.kind = "retire" => z.pc # 5
      BY <3>0, <3>2
    <3>. QED BY <1>7, <3>1, <3>4, <3>5, <3>6 DEF Sees
  <2>. QED BY <2>1, <2>2
<1>. QED BY <1>8, <1>9, <1>10, <1>12, <1>13, <1>14, <1>15 DEF Inv

LEMMA NoneMoves ==
    ASSUME Inv, Unlocked({"head"})
    PROVE  Moved = work
<1>1. \A q \in Commands : work[q].previous # "head"
  BY DEF Inv, Remembers, Unlocked
<1>. QED BY <1>1 DEF Moved, Inv, TypeOK

LEMMA DecideKeeps ==
    ASSUME Inv, NEW i \in Identity, NEW new \in {"active", "suspended", "disabled"}, Decide(i, new)
    PROVE  Inv'
<1>. DEFINE withdrawn == i = "robot" /\ new = "disabled" /\ rows["assignment"].status = "active"
            S == {i} \cup (IF withdrawn THEN {"assignment"} ELSE {})
<1>0. i \in Row /\ i # "assignment" /\ i # "policy" /\ "assignment" \in Row
  BY DEF Row, Identity
<1>1. rows \in [Row -> Record] /\ held \in [Power -> Nat] /\ \A r \in Row : Sound(r, rows[r])
  BY DEF Inv, TypeOK
<1>2. work' = work /\ UNCHANGED <<intact, campaign>>
  BY NoneMoves DEF Decide, Unlocked
<1>3. rows' = [r \in Row |-> IF r = i THEN [rows[r] EXCEPT !.status = new]
                            ELSE IF r = "assignment" /\ withdrawn THEN [status |-> "revoked", text |-> "new"]
                            ELSE rows[r]]
  BY DEF Decide
<1>4. rows' \in [Row -> Record]
  BY <1>1, <1>3 DEF Record
<1>5. held' \in [Power -> Nat] /\ \A x \in Governance : held'[x] <= held[x]
  BY <1>1, GovernanceIsPower DEF Decide
<1>6. Revoked => Revoked'
  BY <1>0, <1>3 DEF Revoked
<1>7. ASSUME NEW r \in Row PROVE Sound(r, rows[r])'
  <2>1. CASE r = i
    <3>1. rows'[r].status = new /\ rows'[r].text = rows[r].text
      BY <1>1, <1>3, <2>1 DEF Record
    <3>. QED BY <1>0, <1>1, <2>1, <3>1 DEF Sound
  <2>2. CASE r # i /\ r = "assignment" /\ withdrawn
    <3>1. rows'[r] = [status |-> "revoked", text |-> "new"]
      BY <1>3, <2>2
    <3>. QED BY <2>2, <3>1 DEF Sound, Revoked
  <2>3. CASE r # i /\ ~(r = "assignment" /\ withdrawn)
    BY <1>1, <1>3, <1>6, <2>3 DEF Sound
  <2>. QED BY <2>1, <2>2, <2>3
<1>8. Unlocked(S) /\ \A r \in Row \ S : rows'[r] = rows[r]
  <2>1. Unlocked({i}) /\ (withdrawn => Unlocked({"assignment"}))
    BY DEF Decide, Unlocked
  <2>. QED BY <1>3, <2>1 DEF Unlocked
<1>. HIDE DEF S
<1>. QED BY <1>2, <1>4, <1>5, <1>6, <1>7, <1>8, ConsoleStep

LEMMA WithdrawKeeps ==
    ASSUME Inv, NEW x \in Power, Withdraw(x)
    PROVE  Inv'
<1>1. rows \in [Row -> Record] /\ held \in [Power -> Nat] /\ \A r \in Row : Sound(r, rows[r])
  BY DEF Inv, TypeOK
<1>2. work' = work /\ UNCHANGED <<rows, intact, campaign>> /\ held' = [held EXCEPT ![x] = @ - 1] /\ held[x] > 0
  BY NoneMoves DEF Withdraw
<1>3. held' \in [Power -> Nat] /\ \A w \in Governance : held'[w] <= held[w]
  BY <1>1, <1>2, GovernanceIsPower
<1>4. (Revoked => Revoked') /\ \A r \in Row : Sound(r, rows[r])'
  BY <1>1, <1>2 DEF Revoked, Sound
<1>5. Unlocked({})
  BY DEF Unlocked
<1>. QED BY <1>1, <1>2, <1>3, <1>4, <1>5, ConsoleStep

LEMMA GiveKeeps ==
    ASSUME Inv, NEW x \in Power \ Governance, Give(x)
    PROVE  Inv'
<1>1. rows \in [Row -> Record] /\ held \in [Power -> Nat] /\ \A r \in Row : Sound(r, rows[r])
  BY DEF Inv, TypeOK
<1>2. work' = work /\ UNCHANGED <<rows, intact, campaign>> /\ held' = [held EXCEPT ![x] = @ + 1]
  BY NoneMoves DEF Give
<1>3. held' \in [Power -> Nat] /\ \A w \in Governance : held'[w] <= held[w]
  BY <1>1, <1>2 DEF Power, Governance
<1>4. (Revoked => Revoked') /\ \A r \in Row : Sound(r, rows[r])'
  BY <1>1, <1>2 DEF Revoked, Sound
<1>5. Unlocked({})
  BY DEF Unlocked
<1>. QED BY <1>1, <1>2, <1>3, <1>4, <1>5, ConsoleStep

LEMMA WithdrawSyntheticKeeps ==
    ASSUME Inv, WithdrawSynthetic
    PROVE  Inv'
<1>0. "assignment" \in Row
  BY DEF Row
<1>1. rows \in [Row -> Record] /\ held \in [Power -> Nat] /\ \A r \in Row : Sound(r, rows[r])
  BY DEF Inv, TypeOK
<1>2. /\ work' = work /\ UNCHANGED <<held, intact, campaign>>
      /\ rows' = [rows EXCEPT !["assignment"] = [status |-> "revoked", text |-> "new"]]
  BY NoneMoves DEF WithdrawSynthetic, Unlocked
<1>3. rows' \in [Row -> Record] /\ Revoked' /\ \A x \in Governance : held'[x] <= held[x]
  BY <1>0, <1>1, <1>2, GovernanceIsPower DEF Record, Revoked
<1>4. ASSUME NEW r \in Row PROVE Sound(r, rows[r])'
  BY <1>0, <1>1, <1>2, <1>3 DEF Sound
<1>5. Unlocked({"assignment"}) /\ \A r \in Row \ {"assignment"} : rows'[r] = rows[r]
  BY <1>1, <1>2 DEF WithdrawSynthetic, Unlocked
<1>. QED BY <1>1, <1>2, <1>3, <1>4, <1>5, ConsoleStep

-----------------------------------------------------------------------------
(* The theorems *)

LEMMA Start == Init => Inv
<1>. SUFFICES ASSUME Init PROVE Inv
  OBVIOUS
<1>1. rows \in [Row -> {Absent} \cup [status : {"active"}, text : {"garbled", "right"}]]
  BY DEF Init
<1>2. TypeOK
  BY <1>1, IdleType DEF Init, TypeOK, Record, Absent
<1>3. \A p \in Commands : work[p] = Idle
  BY DEF Init
<1>4. Exclusive
  BY <1>3 DEF Exclusive, Idle
<1>5. Planned
  <2>. SUFFICES ASSUME NEW x \in Governance
                PROVE  held[x] + Cardinality(Planning(x)) <= Cardinality(Commands)
    BY DEF Planned
  <2>1. Planning(x) = {}
    BY <1>3, GovernanceIsPower DEF Planning, Idle
  <2>. QED BY <2>1, FS_EmptySet, FS_CardinalityType, GovernanceIsPower DEF Init
<1>6. \A r \in Row : Sound(r, rows[r])
  <2>. SUFFICES ASSUME NEW r \in Row PROVE Sound(r, rows[r])
    OBVIOUS
  <2>1. rows[r].text # "new" /\ rows[r].status \in {"absent", "active"}
    BY <1>1 DEF Absent
  <2>. QED BY <2>1 DEF Sound, Gone
<1>7. \A p \in Commands : Remembers(p) /\ Stands(p) /\ Sees(p)
  <2>. SUFFICES ASSUME NEW p \in Commands PROVE Remembers(p) /\ Stands(p) /\ Sees(p)
    OBVIOUS
  <2>1. Remembers(p)
    <3>1. Idle.kind = "none" /\ Idle.stage = "next" /\ Idle.locks = {} /\ Idle.previous = "none"
      BY DEF Idle
    <3>. QED BY <1>3, <3>1 DEF Remembers
  <2>2. Stands(p)
    BY <1>3 DEF Stands, Idle
  <2>3. Sees(p)
    BY <1>3 DEF Sees, Idle
  <2>. QED BY <2>1, <2>2, <2>3
<1>. QED BY <1>2, <1>4, <1>5, <1>6, <1>7 DEF Inv

LEMMA Inductive == Inv /\ [Next]_vars => Inv'
<1>. SUFFICES ASSUME Inv, [Next]_vars PROVE Inv'
  OBVIOUS
<1>1. ASSUME NEW p \in Commands, NEW k \in Kind, Run(p, k) PROVE Inv'
  BY <1>1, RunKeeps
<1>2. ASSUME NEW p \in Commands, CheckActive(p) \/ Look(p) \/ List(p) \/ Skip(p) PROVE Inv'
  BY <1>2, CheckActiveKeeps, LookKeeps, ListKeeps, SkipKeeps
<1>3. ASSUME NEW p \in Commands, Write(p) \/ Audit(p) \/ Commit(p) PROVE Inv'
  BY <1>3, WriteKeeps, AuditKeeps, CommitKeeps
<1>4. ASSUME NEW p \in Commands, Abort(p) PROVE Inv'
  BY <1>4, Stops DEF Abort
<1>5. ASSUME NEW i \in campaign.decides, NEW new \in {"active", "suspended", "disabled"}, Decide(i, new)
      PROVE  Inv'
  <2>1. i \in Identity
    BY DEF Inv, TypeOK, CommandsAssumption
  <2>. QED BY <1>5, <2>1, DecideKeeps
<1>6. ASSUME NEW x \in Power, Withdraw(x) PROVE Inv'
  BY <1>6, WithdrawKeeps
<1>9. ASSUME NEW x \in campaign.gives, Give(x) PROVE Inv'
  <2>1. x \in Power \ Governance
    BY DEF Inv, TypeOK, CommandsAssumption
  <2>. QED BY <1>9, <2>1, GiveKeeps
<1>7. CASE WithdrawSynthetic
  BY <1>7, WithdrawSyntheticKeeps
<1>8. CASE UNCHANGED vars
  <2>. USE <1>8 DEF vars
  <2>1. TypeOK' /\ Exclusive' /\ Planned'
    BY DEF Inv, TypeOK, Exclusive, Planned, Planning
  <2>2. \A r \in Row : Sound(r, rows[r])'
    BY DEF Inv, Sound, Revoked
  <2>3. \A q \in Commands : Remembers(q)' /\ Stands(q)' /\ Sees(q)'
    BY Untouched DEF Revoked
  <2>. QED BY <2>1, <2>2, <2>3 DEF Inv
<1>. QED BY <1>1, <1>2, <1>3, <1>4, <1>5, <1>6, <1>7, <1>8, <1>9 DEF Next

\* What the commands hold in memory and in locks stays sound, whatever they run
\* beside and wherever they die.
THEOREM CommandsSound == Spec => []Inv
BY Start, Inductive, PTL DEF Spec

\* The retirement of the synthetic set leaves no access behind what it has
\* archived or retired (retire-synthetic-preprod.mjs).
THEOREM RetirementIsSafe == Spec => []AccessWithdrawnFirst
<1>1. Inv => AccessWithdrawnFirst
  BY DEF Inv, Sound, Revoked, AccessWithdrawnFirst, Row, Identity, Application
<1>. QED BY <1>1, CommandsSound, PTL

\* However many processes run the commands, and however often, the owner gets a
\* power over Administration at most once from each of them
\* (responsible-authority.mjs and the bootstraps).
THEOREM TwinsBounded == Spec => []TwinsAreBounded
<1>1. Inv => TwinsAreBounded
  <2>. SUFFICES ASSUME Inv, NEW x \in Governance PROVE held[x] <= Cardinality(Commands)
    BY DEF TwinsAreBounded
  <2>1. Planning(x) \subseteq Commands
    BY DEF Planning
  <2>2. IsFiniteSet(Planning(x)) /\ IsFiniteSet(Commands)
    BY <2>1, FS_Subset
  <2>3. Cardinality(Planning(x)) \in Nat /\ Cardinality(Commands) \in Nat
    BY <2>2, FS_CardinalityType
  <2>. QED BY <2>3, GovernanceIsPower DEF Inv, Planned, TypeOK
<1>. QED BY <1>1, CommandsSound, PTL

\* The chain of audit events verifies after any interleaving of transactions
\* (mariadb.mjs, #appendAudit).
THEOREM ChainSound == Spec => []ChainVerifies
<1>1. Init => ChainVerifies
  BY DEF Init, ChainVerifies
<1>2. Inv /\ ChainVerifies /\ [Next]_vars => ChainVerifies'
  <2>. SUFFICES ASSUME Inv, ChainVerifies, [Next]_vars PROVE ChainVerifies'
    OBVIOUS
  <2>1. ASSUME NEW p \in Commands, Commit(p) PROVE ChainVerifies'
    BY <2>1 DEF Commit, Inv, Remembers, ChainVerifies
  <2>2. ASSUME NEW p \in Commands,
               (\E k \in Kind : Run(p, k)) \/ CheckActive(p) \/ Look(p) \/ List(p) \/ Skip(p)
                 \/ Write(p) \/ Audit(p) \/ Abort(p)
        PROVE  ChainVerifies'
    BY <2>2 DEF Run, CheckActive, Look, List, Skip, Write, Audit, Abort, Registry, ChainVerifies
  <2>3. ASSUME (\E i \in campaign.decides, new \in {"active", "suspended", "disabled"} : Decide(i, new))
                 \/ (\E x \in Power : Withdraw(x)) \/ (\E x \in campaign.gives : Give(x))
                 \/ WithdrawSynthetic \/ UNCHANGED vars
        PROVE  ChainVerifies'
    BY <2>3 DEF Decide, Withdraw, Give, WithdrawSynthetic, vars, ChainVerifies
  <2>. QED BY <2>1, <2>2, <2>3 DEF Next
<1>. QED BY <1>1, <1>2, CommandsSound, PTL DEF Spec

\* What is withdrawn for good is in force again only by a repair of labels or a
\* creation that had read the row before (historical-label-repair.mjs,
\* human-identity-preprod.mjs).
THEOREM RevivalIsStale == Spec => OnlyStaleMemoryRevives
<1>. DEFINE Revived(r) == rows[r].status \in Gone /\ rows'[r].status \notin Gone
            Remembered(r) == \E p \in Commands :
                               /\ work[p].kind \in {"labels", "create"} /\ work[p].stage = "audited"
                               /\ work[p].seen[r].status \notin Gone
<1>1. Inv /\ [Next]_vars => \A r \in Row : Revived(r) => Remembered(r)
  <2>. SUFFICES ASSUME Inv, [Next]_vars, NEW r \in Row, Revived(r) PROVE Remembered(r)
    OBVIOUS
  <2>0. rows \in [Row -> Record] /\ "assignment" \in Row
    BY DEF Inv, TypeOK, Row
  <2>1. rows'[r] # rows[r]
    OBVIOUS
  <2>2. ASSUME NEW p \in Commands, Commit(p) PROVE Remembered(r)
    <3>1. work[p].stage = "audited" /\ r \in Needed(p) /\ rows'[r] = Final(p, r)
      BY <2>1, <2>2 DEF Commit
    <3>. QED BY <3>1, FinalShape
  <2>3. ASSUME NEW i \in campaign.decides, NEW new \in {"active", "suspended", "disabled"}, Decide(i, new)
        PROVE  FALSE
    <3>1. r = i => rows[r].status \in {"active", "suspended"}
      BY <2>3 DEF Decide
    <3>2. r # i => rows'[r] = rows[r] \/ rows'[r] = [status |-> "revoked", text |-> "new"]
      BY <2>0, <2>3 DEF Decide
    <3>. QED BY <3>1, <3>2 DEF Gone
  <2>4. ASSUME WithdrawSynthetic PROVE FALSE
    BY <2>0, <2>4 DEF WithdrawSynthetic, Gone
  <2>5. ASSUME NEW p \in Commands,
               (\E k \in Kind : Run(p, k)) \/ CheckActive(p) \/ Look(p) \/ List(p) \/ Skip(p)
                 \/ Write(p) \/ Audit(p) \/ Abort(p)
        PROVE  FALSE
    BY <2>1, <2>5 DEF Run, CheckActive, Look, List, Skip, Write, Audit, Abort, Registry
  <2>6. ASSUME (\E x \in Power : Withdraw(x)) \/ (\E x \in campaign.gives : Give(x))
                 \/ UNCHANGED vars
        PROVE  FALSE
    BY <2>1, <2>6 DEF Withdraw, Give, vars
  <2>. QED BY <2>2, <2>3, <2>4, <2>5, <2>6 DEF Next
<1>2. Inv /\ [Next]_vars => [\A r \in Row : Revived(r) => Remembered(r)]_vars
  BY <1>1
<1>. QED BY <1>2, CommandsSound, PTL DEF Spec, OnlyStaleMemoryRevives

\* A text written since a repair was planned is kept, and no encoding error comes
\* back (text-encoding-repair.mjs, mariadb.mjs, applyHistoricalTextRepairs).
THEOREM TextsKept == Spec => TextsAreKept
<1>. DEFINE Kept(r) == /\ rows[r].text = "new" => rows'[r].text = "new"
                       /\ rows'[r].text = "garbled" => rows[r].text = "garbled"
<1>1. Inv /\ [Next]_vars => \A r \in Row : Kept(r)
  <2>. SUFFICES ASSUME Inv, [Next]_vars, NEW r \in Row PROVE Kept(r)
    OBVIOUS
  <2>0. rows \in [Row -> Record] /\ "assignment" \in Row
    BY DEF Inv, TypeOK, Row
  <2>1. CASE rows'[r] = rows[r]
    BY <2>1
  <2>2. ASSUME NEW p \in Commands, Commit(p), rows'[r] # rows[r] PROVE Kept(r)
    <3>1. work[p].stage = "audited" /\ r \in Needed(p) /\ rows'[r] = Final(p, r)
      BY <2>2 DEF Commit
    <3>. QED BY <3>1, FinalShape
  <2>3. ASSUME NEW i \in campaign.decides, NEW new \in {"active", "suspended", "disabled"}, Decide(i, new)
        PROVE  Kept(r)
    <3>1. r = i => rows'[r] = [rows[r] EXCEPT !.status = new]
      BY <2>3 DEF Decide
    <3>2. r # i => rows'[r] = rows[r] \/ rows'[r] = [status |-> "revoked", text |-> "new"]
      BY <2>0, <2>3 DEF Decide
    <3>. QED BY <2>0, <3>1, <3>2 DEF Record
  <2>4. ASSUME WithdrawSynthetic PROVE Kept(r)
    BY <2>0, <2>4 DEF WithdrawSynthetic
  <2>5. ASSUME NEW p \in Commands,
               (\E k \in Kind : Run(p, k)) \/ CheckActive(p) \/ Look(p) \/ List(p) \/ Skip(p)
                 \/ Write(p) \/ Audit(p) \/ Abort(p)
        PROVE  Kept(r)
    BY <2>5 DEF Run, CheckActive, Look, List, Skip, Write, Audit, Abort, Registry
  <2>6. ASSUME (\E x \in Power : Withdraw(x)) \/ (\E x \in campaign.gives : Give(x))
                 \/ UNCHANGED vars
        PROVE  Kept(r)
    BY <2>6 DEF Withdraw, Give, vars
  <2>. QED BY <2>1, <2>2, <2>3, <2>4, <2>5, <2>6 DEF Next
<1>2. Inv /\ [Next]_vars => [\A r \in Row : Kept(r)]_vars
  BY <1>1
<1>. QED BY <1>2, CommandsSound, PTL DEF Spec, TextsAreKept
=============================================================================
