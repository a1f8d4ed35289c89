# N09 Administration: verification project

N09 Administration (`src/service-node`) is the central registry of the NSK
Tech 09 applications: it knows the people, what they may do, the sessions they
have open, and it receives the notifications the applications emit. This
directory holds TLA+ models of its concurrent core, the TLC configurations that
check them on small instances, and theorems checked by TLAPS.

    tlc -config Lifecycle.cfg MCIdentitySessions.tla     # one run
    tlapm IdentitySessionsProofs.tla                     # one proof module

`PROJECT.json` lists the components, the runs, the lines each definition is
translated from (`map`), a wrong variant that breaks each property (`mutants`),
the hazards and the theorems.

## 1. How the system works

One Node process answers HTTP requests and runs the worker loop; several may
run on one MariaDB database. Requests and worker commands share nothing but
the registry:

- a handler reads rows *outside any transaction*, decides, computes the new
  rows, and submits *one transaction* that locks some of those rows
  (`SELECT ... FOR UPDATE`), compares their `version` or their status with what
  had been read, writes and appends one audit event. Between the reads and the
  transaction any other request may run;
- a transaction takes its row locks one after the other and keeps them to its
  end. Its writes are seen by the others at the commit. An error, a deadlock or
  a crash undoes all of it;
- a login or a worker run submits *several* transactions one after the other,
  and nothing undoes the first when a later one fails.

So the hard behaviours are: decisions on stale reads, two transactions that
interleave their locks, several transactions of which only some happen, leases
and retries, and the rows that look at nothing but themselves (an `INSERT` of a
session does not read the identity it belongs to).

## 2. Inventory

| component | state | operations | what makes it correct | module |
|---|---|---|---|---|
| Session registry | `application_sessions` (status, deadlines, version) | open, assess, touch, expire, revoke | a closed session is never written again, activity stays inside the window, writers never overwrite each other, a verdict is about an open session | `SessionRecords`, `IdentitySessions` |
| Personal sessions | the same rows | close one, close all the others | all or nothing, no false confirmation | `IdentitySessions` |
| Operator sessions | the same rows, `access_assignments` | close one session of anyone | as above, under the operator's permission | `IdentitySessions` |
| Identity life cycle | `identities.status`, sessions, assignments | suspend, reactivate, disable | an exit closes every active session and, when final, every right; a return restores nothing | `IdentitySessions`, `AccessLifecycle`, `LifecycleRefinement` |
| Access decisions | `access_assignments` | grant, revoke, `decideAccess` | a decision is never overwritten by an older one; the right is read when it is used | `IdentitySessions`, `AccessCatalogs` |
| Login transactions | `application_authorization_codes`, `email_login_tokens` | issue and exchange a code, mail and consume a link, provider callback, portal entry | a proof opens one session at most, of the person and the place it was issued to | `LoginTransactions` |
| Access requests | `access_requests`, their lines, assignments | deposit, approve or refuse a line | one pending request per demand, a line decided once, the global status is that of the lines, an approval leaves a right, two decisions wait for each other in known cases only | `AccessRequests` |
| External identities | `external_identities`, `external_identity_link_requests` | first login, approve, reject | one active request, one link per principal, to an active identity | `IdentityLinks` |
| Access catalogues | `application_access_catalog_versions`, assignments | publish, bootstrap, grant, revoke | no version makes an active right uninterpretable, versions stand | `AccessCatalogs` |
| Notification ingress and consumer | `notification_events`, `notifications`, `notification_deliveries` | receive a batch, claim, materialize, conclude, fail | kept as received, decided once, finally processed or set aside; only the latest claim concludes | `LeasedRows`, `NotificationQueue`, `NotificationPromise` |
| Mail delivery | `notification_deliveries` | claim, send, record | attempts bound the mails, nothing sent that is not due, every due delivery ends | `LeasedRows`, `EmailQueue` |
| HTTP service | in-memory counters | handlers, pages, CSRF | the handlers are the actions of the modules above | partly |
| Account bridge, portal directory | sealed cookies, sessions | enter from the portal, attach a session to a portal session, log out | as a login | `LoginTransactions` |
| Audit chain | `audit_events`, `audit_chain_head` | append | one chain without forks | `MaintenanceCommands` |
| Bootstraps of administrators and applications | any table | three shapes of commands run by hand | repeatable; what was withdrawn stays so | `MaintenanceCommands` |
| Responsible authority | `access_assignments` | grant both powers; read them | no endless twins over Administration | `MaintenanceCommands` (the grant) |
| Repairs, creation of an identity, synthetic data | any table | commands run by hand | nothing newer is undone, access withdrawn first | `MaintenanceCommands` (all but the promotion) |
| Worker loop | a timer, the active cycle | start, cycle, stop | one cycle at a time, the stop waits | its commands are the queues', its period their fairness |
| Session mode *observe* | sessions | background writes | no answer depends on it | not modelled |
| Federated provider (`oidc.mjs`) | sealed cookies | start, callback | a callback proves one principal | only its outcome |
| Internal clients | in-memory nonces | authenticate a call | a nonce counts once | not modelled |
| Notification centre | `notifications.read_at` | list, mark as read | the first instant of reading stays | not modelled |
| Notification supervision | | read rights and counters | | not modelled |
| In-memory repository | maps | the tests' double | | not modelled |
| Schema and migrations | unique and foreign keys | | | as records and guards |
| Python reference, demonstrator, deployment scripts | | | | not modelled |

Interactions. Every component reads `identities.status` and
`access_assignments`; the life cycle writes sessions and assignments; logins,
the account bridge and the provider insert sessions; access requests and the
console insert assignments; catalogues read assignments under lock to accept a
version; the consumer calls back the emitting application and reads identities;
mail delivery reads identities. Everything that writes appends to the audit
chain in the same transaction. The commands of the operator write the same rows
as the console, from what they read before, while the service runs.

The hazards behind the properties are in `PROJECT.json`, each at its line; the
ones no property covers say why.

## 3. Modules and the code

**`SessionRecords`** is the pure part of a session: `NewSession`, `ActiveAt`,
`Assess`, `TouchDue`, `Touched`, `ClosedAs`, from `application-session.mjs` and
`administration-session-authority.mjs`.

**`IdentitySessions`** has one record `req[p]` per request in flight and the
rows of the registry. A request goes through `Gate` (`assess`: read, then
`Touch`, `TouchFails`, `Recheck`, `Expire`), `Authorize` (the operator's right),
a `Select...` action (the reads from which its transaction is computed) and a
commit (`CloseSessions`, `Suspend`, `Reactivate`, `Disable`, `SaveGrant`...).
`Login` and `Insert` are the read and the write of a login. `Fail` is every
early return, refusal, error and crash before the commit: nothing is written.
Several reads that the code makes one after the other are one `Select` action:
the commit compares exactly the versions read, and versions only grow, so a
split read leads to no commit that a joint one does not. The code reads the
process clock before the row: `Readings` is a window of `MaxLag` instants.
A role carries one permission; secrets, hashes and labels are left out; an
identity is never *invited*, *archived* or *deleted* by these operations. Only
the session mode *enforce* is modelled.

**`AccessLifecycle`** is what the applications may rely on, without requests or
versions: each decision takes effect in one step, an exit closes every live
session. It promises neither that a session opens for an active person only nor
that a touch comes before the deadline, because the code ensures neither.
**`LifecycleRefinement`** maps the registry to it (`ImplementsAccessLifecycle`) and
says what the mapping rests on (`RefinementInv`).

**`LoginTransactions`** is the five logins that open a session: a code, a mailed
link, the portal, the account page reached with a session of the portal
(`Bridge`) and the external provider. `ConsumeCode`,
`ConsumeLink`, `SaveLink`, `FailLink`, `Open` are the transactions, the others
are reads and the mail. `turns[i]` counts the changes of status of an identity
(its parity is the status), so that *active at some moment since* can be said.
Two more places insert a session, for a cookie that has none: they are no logins,
and read no identity. `/portal/account` (`http.mjs:975-983`) does so outside the mode
*enforce* only, which refuses such a cookie first; `openSupervisionSession`
(`http.mjs:603-622`) does so for a cookie sealed before *enforce* was turned on.
Both belong to the change of mode, which is not modelled (sections 8 and 9): what
is said here of sessions and their identities does not cover them.

**`MaintenanceCommands`** is the commands run by hand. Each is a script
(`RepairLabels`, `SeedSynthetic`, `GrantAuthority`...) whose steps are the
statements of the command in their order: check that rows are active
(`CheckActive`), read rows and keep them in memory (`Look`, `List`), or one
transaction (`Write` locks and compares, `Audit` locks the head of the chain,
`Commit`), which is skipped when nothing is needed (`Skip`). `Grants` says what
a transaction still compares once it holds its row, which differs from one
statement of `mariadb.mjs` to another: `saveAssignment` compares versions, the
repair of texts the text; `saveIdentity` and `saveApplication` compare nothing
when they replace a row, and refuse a creation when the row is there, except
that a new identity meets the unique index of addresses only, and a policy
nothing. `Abort` is a refusal, an error or the death of the process. Of the
console only the commits matter here (`Decide`, `Withdraw`,
`WithdrawSynthetic`, `Give`). A row is a status and the state of its text; `held`
counts the assignments that give the owner each power, because no unique key
bounds them. `served` is Administration, whose powers (`Governance`) only commands
give, because the console refuses (`access-decision-admin.mjs:143-145`); `opened`
is an application opened beside it, on which the console and the approval of a
request line give rights too (`Give`, from what they read of the owner before).
Of the console's other grants nothing is said: it may give anew a role whose
assignment was revoked, on an application that has a catalogue. `intact` is what
`verifyAuditChain` answers: an append whose predecessor is no longer the head
breaks the chain for good.

**`AccessRequests`**, **`IdentityLinks`** and **`AccessCatalogs`** go down to
row locks: a transaction is a sequence of actions that lock (`Free`, `locks`),
compare and at last write everything at the commit. Locks taken without a
comparison between them are one action. Locks of an index range are compatible
with each other and keep others from inserting; two transactions that wait for
each other end by `Fail`. In `AccessRequests` a decision locks its line, its target (the
identity, the assignment or, when its identifier is new, the gap it falls in:
`LockTarget`), saves and audits the assignment (`SaveGrant`), updates the line
(`MarkLine`, which shares the identity of the decider for the foreign key of
`decided_by`), locks and counts the request (`Count`) and audits (`Commit`).
`Wanted` is what its next statement waits for, so that two decisions that wait for
each other can be named (`MutualWaitsAreKnown`). In `IdentityLinks`, no index leads from a principal
to its link, so `saveLinkRequest` locks the table of links. In
`AccessCatalogs` the application either is N09 Administration, whose catalogue
is also published by its bootstrap and whose rights are not granted from the
console, or another one; scope types are one more kind of identifier, *planned*
and *deprecated* are one status, provisioning and conditions are left out.

**`LeasedRows`** is what the two queues share: rows claimed under a lease by a
worker that holds a named lock, dates kept as remaining time (`wait`, `lease`)
that `Tick` decreases, a delay that doubles (`Backoff`); only the consumer caps it,
the mails' grows as long as `MaxAttempts` lets it. **`NotificationQueue`** adds the
reception, the answer of the emitting application, the materialization and its
conclusion in two transactions; **`EmailQueue`** the provider, which may accept
a mail whose answer is lost. Each worker may die, lose its lock with its
connection (`LoseLock`), or not hear that its statement has taken effect.
**`NotificationPromise`** is what the emitting application is promised.

The `MC...` modules give the instances. Operators called *Wrong variant of* are
plausible mistakes the checks must detect; no specification uses them.

## 4. Runs

States are the distinct states TLC finds, up to the symmetry of the configuration.

| run | module | question | bounds | states |
|---|---|---|---|---|
| PersonalSessions | MCIdentitySessions | do concurrent accesses and closings of one person keep windows, closings and confirmations right? | 1 person, 3 sessions, 2 requests, lag 1 | 489,157 |
| Lifecycle | MCIdentitySessions | do exits close all and only what is active, do returns restore nothing, does each closing concern one person (`RefinementInv`)? | an operator and a user, 2 sessions, 2 requests | 594,106 |
| Refinement | MCIdentitySessions | does the registry implement `AccessLifecycle`, with grants besides? | as Lifecycle, with grants instead of session revocations and the clock at rest (`MaxTime = 0`) | 424,923 |
| Disabled | MCIdentitySessions | *violated*, see findings | | |
| Logins | MCLoginTransactions | does a proof open one session, of a person who was active since it was issued? | 1 code, 1 link, 3 sessions, 2 requests, 2 changes of status, lag 1 | 1,243,807 |
| AccessDecisions | MCAccessRequests | deposits and decisions in two concurrent transactions: twins, summary, rights, which two decisions wait for each other | 2 people, one of whom is decided about elsewhere, 2 applications, 2 requests, 2 gaps, 2 versions of an assignment | 2,204,800 |
| Links | MCIdentityLinks | first logins and decisions in three concurrent transactions | 1 principal, 2 identities, 2 requests | 422,684 |
| Catalogs | MCAccessCatalogs | publications and bootstraps against grants | 3 versions, 2 roles, 2 permissions, 2 workers | 495,498 |
| Notifications | MCNotificationQueue | who concludes an event, refinement of `NotificationPromise`, every event ends | 2 events, batches of 1, 2 workers, 1 fault, 2 attempts | 373,828 |
| CrashedAttempts | MCNotificationQueue | *violated*, see findings | | |
| Emails | MCEmailQueue | attempts, duplicates, every due delivery ends | 3 deliveries, batches of 1, 2 workers, 1 fault, 2 attempts | 257,064 |
| Commands | MCMaintenanceCommands | commands beside each other and the console: what is withdrawn, twins, texts, the chain | 2 processes, 5 campaigns, 2 assignments when the console adds one | 1,231,488 |

Bounds, each a named constant. Two (or three) concurrent actors are what the
hazards need: each is a race of two decisions, and a third session, request or
event is there so that *all the others* is not *the other*. `MaxTime`, `Ttl` and
the deadlines are of a few instants, enough to lapse before, at and after each
step; `MaxVersion` lets a row change once more than a decision expects;
`Elsewhere` names the assignments that are also decided on from the console, with
their holders, who may be suspended and disabled: one of four in AccessDecisions;
`MaxFaults` bounds the crashes, lost locks and lost answers together;
`MaxAttempts` 2 has a first failure, which postpones, and a last one, which
sets aside; `MaxCatalogs` 3 has a first version, a next one and one after. A campaign of
`MaintenanceCommands` says which commands each process may run and whom the
console decides about: `Shared` puts together those that write the same rows or
give the same power (seed, labels and retirement; labels, texts and retirement;
the bootstraps and the authority of the owner; two openings of one application and
the console's grants on it; two creations and the texts),
since two commands that share no row meet in the audit chain only, which every
campaign exercises. Its only counter, `held`, is bounded over Administration by
what `TwinsAreBounded` states; on the opened application the console adds an
assignment only while there are fewer than `MaxGrants`. The clock of
PersonalSessions (`MaxTime = 2`) does not reach the absolute deadline, and that of
Refinement does not move: `WindowHolds` and `RegistryKeepsItsPromise` prove both
properties without bounds. The
Administration chain has seven versions (`administration-access-catalog.mjs`),
the model's has three; `ChainAssumption` says what is used of it. Deadlock is
not checked: the clock and the versions are bounded, so a system with nothing
left to do stops.

Fairness. `IdentitySessions`, `LoginTransactions`, `AccessRequests`,
`IdentityLinks`, `AccessCatalogs` and `MaintenanceCommands` assume none: a request may stop anywhere,
and only safety is stated. The queues assume weak fairness of time and of each
step of a worker (`FairSpec`), because `notification-worker-loop.mjs` starts
the command again every minute and the command goes through its batch. For
mails this counts on cycles whose consumer command succeeds, since a cycle
whose first command fails does not start the second. Faults are bounded:
endless crashes would let an event be retried without end (the finding
CrashedAttempts). The order in which rows are claimed is left open; attempts
are bounded, so no row starves another.

What the bounded faults show: with no fault one mail leaves at most
(`SentOnce`); with one, a mail may leave twice, which ADR-023 accepts.

## 5. Findings

Two statements of the documents do not hold of the code; each has a run that
finds the counterexample.

- **Disabled**: a login or a grant that read the identity while it was active
  is saved after the disablement has committed
  (`application-login.mjs:89`, `mariadb.mjs:873`), whereas LOT-56 says there is
  no interval where a disabled identity keeps an active session or assignment.
  `ExitClosesAllSessions` and `DisablementLeavesNoGrant` state what does hold:
  nothing is left at the moment the exit commits.
- **CrashedAttempts**: an event whose worker dies is claimed again without
  comparing its attempts with the maximum (`mariadb.mjs:1314-1328`), whereas
  ADR-016 says it is quarantined after five attempts.

Observations met while modelling, which no run states as a violation because a
property says precisely what does hold, or because no document says the opposite:

- The status of the recipient of a mail is read when a batch is claimed
  (`mariadb.mjs:1461-1474`), not when each mail is sent, as ADR-023:9 says: a
  mail of the batch may leave for an identity suspended in between. `EmailQueue`
  follows the code (`Send` reads no status).
- The repair of labels writes whole rows read before, status included
  (`historical-label-repair.mjs:121`): a suspension, disablement or retirement
  committed in between is undone. Its test (`historical-label-repair.test.mjs:68`)
  expects states to be kept, of a repair that runs alone. A second creation of
  one e-mail address goes through `ON DUPLICATE KEY UPDATE` on the unique index
  of addresses: it writes the other identity's row and audits an identifier that
  does not exist. `OnlyStaleMemoryRevives` states that these two are the only
  ways back of an identity, an application or the synthetic assignment.
- Two decisions may wait for each other, so that the database undoes one of them
  and its operator sees an error. `MutualWaitsAreKnown` names three cases: on one
  request, one decision saves an assignment, and so has the audit head before the
  request, which the other has first; two approvals look for identifiers that are
  not there, and each has locked the gap where the other inserts; an approval has
  locked the identity of someone who decides, whose own decision has the audit
  head or the identity the approval needs - two operators who approve for each
  other are one instance. The claim is about two decisions that wait directly for
  what the other holds: not about deposits, longer circles, or the order of a queue.
- Two bootstraps, or one and the command of the responsible authority, may give
  one power over Administration twice, after which that command refuses for as
  long as both are active. `TwinsAreBounded` states that it goes no further. On
  another application nothing bounds them, since the console adds its own.

## 6. Theorems

Proved by TLAPS for every value of the constants that satisfies the named
assumptions (any number of people, sessions, requests and workers; every
deadline).

- **`IdentitySessionsProofs`** (from `LifetimeAssumption` and
  `NobodyAssumption` of `SessionRecords` and `InstanceAssumption`):
  `TypeCorrect`, then `InvHolds`. `ActivityWindow` alone is not inductive: a
  touch writes what a request remembers. `Inv` therefore says what each request
  in flight may rely on (`RequestInv`): a request that goes on to write its
  session knows a version the registry has reached, and as long as the registry
  still has it the record is the one that was read, whose deadline was ahead
  (`ReadingIsVersioned`); only those about to write remember versions; a
  decision about to commit expects a status its arrow starts from; a
  confirmation names closed sessions only. From it follow the invariants
  (`WindowHolds`, `ConfirmationHolds`) and the action properties
  (`ClosureIsFinal`, `UpdatesAreKept`, `GateIsSound`, `ExitIsComplete`,
  `ExitIsMeasured`, `DisablementIsComplete`, `ReactivationIsBare`,
  `LifecycleIsOrdered`, `DecisionsAreKept`): each proof has one step per action.
- **`LoginTransactionsProofs`** (from `LoginAssumption`): `Inv` says that a
  consumed proof is held by one request or one session and by nothing else
  (`HeldOnce`), whence `EachProofOpensOneSession`, `SessionsFollowTheirProof`
  (the session is of the person, application and place the proof was issued to),
  `ProofsNeverReturn` and `OnlyActiveIdentitiesLogIn`.
- **`AccessRequestsProofs`** (from `AccessAssumption`): `Inv` says what a
  transaction holds under its locks (`Exclusive`), that a deposit that has
  scanned excludes twins and that a count made under the lock of the request is
  still the one to write, whence `RequestsFollowTheirLines`,
  `DepositsMakeOneRequest` and `LinesAreDecidedOnce`. Two more parts are
  inductive with it: `HoldsItsRows` names exactly the rows a decision holds at
  each stage, from which `WaitsOfDecisions` excludes every pair of waits but
  three; `TargetsStand` says that what an approval read of the assignment and the
  identity stands once their rows are locked, whence `ApprovalsHaveTheirGrant`
  (*in force* is the status of the assignment: like the code, it reads no term).
- **`MaintenanceCommandsProofs`** (from `CommandsAssumption`: any number of
  processes, any campaigns). `Inv` says that a transaction keeps its locks
  (`Exclusive`, `Remembers`), what it required under them (`Stands`), and what
  its command relied on to go so far (`Sees`: a retirement past its first
  transaction leaves a revoked assignment, which nothing brings back). Of the
  twins over Administration, the number of assignments and of processes that found none
  and have not yet created theirs never exceed the number of processes (`Planned`). From
  `CommandsSound` follow `RetirementIsSafe`, `TwinsBounded`, `ChainSound` (who
  has read the head of the chain holds its lock), `RevivalIsStale` and
  `TextsKept`.

- **The refinement of `AccessLifecycle`** (`IdentitySessionsProofs`, from the
  same assumptions). A step of a request that only moves what it holds in memory
  is invisible; each transaction is one abstract step (`InsertSeen`, `TouchSeen`,
  `ExpireSeen`, `CloseSeen`, `SuspendSeen`, `DisableSeen`, `ReactivateSeen`,
  `AssignmentSeen`), a touch that does not move the deadline and a decision that
  writes what is already so being invisible too. Two facts are needed that `Inv`
  does not have: an abstract closing is of one person, whereas
  `revokeApplicationSessions` takes any list it is handed, so every list a request
  remembers comes from one read of one owner's rows (`ConcernsOnePerson`); and
  dates stay inside the abstract domain of instants (`DatesAreInstants`). With
  `Inv` they make `RefinementInv`, inductive (`ClosingsConcernOnePerson`), and
  `RegistryKeepsItsPromise` follows. Live sessions are compared at the time of the
  commit although the transaction looks at them at the time of the decision: a
  session active later was active earlier (`LiveSeen`).
- **`IdentityLinksProofs`** (from `LinksAssumption`): `Inv` says what each transaction holds and has read under its
  locks, whatever instant it read before them. `WindowsAreDisjoint`: a login that
  has scanned the pending requests under the range lock saves one whose window
  starts after theirs end. `LinksComeFromOneApproval` (an approval that lost the
  race to a second request finds the principal linked and fails as a whole) and
  `DecisionsAreFinal` follow.
- **`NotificationQueueProofs`** (from `LeaseAssumption` and `QueueAssumption`): `Inv` adds to the conclusions that are earned what
  a worker may still rely on: while its claim is the latest one, the attempt it
  remembers is that of the row (`HolderKnowsItsAttempt`); an event it has
  materialized is decided (`WorkerInv`); a row that has not been received is blank
  (`RowInv`, which the step of the reception needs). From it,
  `OnlyTheHolderConcludes`, `ConclusionsAreEarned` and `QueueKeepsItsPromise`: the
  queue implements `NotificationPromise`, a reception being an acceptance of the
  events of the batch that are new, the two conclusions a settlement or a setting
  aside, and claims, leases, crashes and lost answers invisible.
- **`EmailQueueProofs`** (from `LeaseAssumption` and `DeliveryAssumption`): an
  argument of counting. `sent <= attempts` alone is not
  inductive, because a claim is counted before the mail leaves and several
  workers, whose leases have run out, may hold one delivery. `AttemptsCoverSends`
  counts with the mails those that may still leave: the workers that have claimed
  the delivery and not sent it (`Ready`), a finite set; `SendsNeverExceedAttempts`
  follows for any number of workers, and `NothingUndueIsSent`. `Undisturbed` says
  what the lock gives as long as nothing has failed: one run at a time, which
  holds all it has left; whence `OneMailWithoutFaults`.
- **`AccessCatalogsProofs`** (from `CatalogAssumption` and `ChainAssumption`): `Inv` says what a publication has read under its locks
  is still so (`ReadIsStill`: nobody else publishes, and the assignments it has
  looked at are locked), what a bootstrap submits follows the chain
  (`FollowsChain`), a decision in flight carries what a published version gave
  (`PreparedAsPublished`). `Interpretable` needs one more thing: a decision is
  prepared from an older catalogue and saved after a newer one has been
  published, so identifiers must never disappear between *any* two versions and
  not only between neighbours (`VersionsStand`), and no version is skipped. From
  `CatalogInvariant` follow `GrantsStayInterpretable`, `GrantsAreAsPublished` and
  `BootstrapsSucceed`.

Every inductive invariant is also an invariant of a run: the `Inv` of each
module, and for `IdentitySessions` `RefinementInv`, which contains its `Inv`. `DisablementLeavesNoGrant`, `LifecycleOrder`, `NoLostDecision`,
`BoundToItsProof`, `ProofsEnd`, `ConclusionIsEarned`, `OnlyDueAreSent` and
`GrantedAsPublished` are proved and are not properties of a run of their own: the
first two also follow from the refinement, the last three are parts of an `Inv`.

Only model-checked: liveness under fairness (`EveryEventEnds`,
`EveryDeliveryEnds`), which is out of the prover's reach. Every other property
of a passing run is proved. The two runs that expect a violation show what is
not so.

The proofs hold for all values of the bounds as well (`MaxTime`, `MaxVersion`,
`MaxFaults`, `MaxCatalogs`...), so the bounds of the runs restrict none of these
results.

## 7. What is abstracted everywhere

- Names, wording, pages, identifiers, hashes and audit payloads; a message or a
  content is a member of a small set.
- An audit append is part of the transaction it ends. Where the order of locks
  matters (`AccessRequests`, `MaintenanceCommands`) its row lock is modelled.
- Locks of foreign keys and secondary indexes are left out, but for the two a
  decision waits for in `AccessRequests`. One more lock delays a transaction or has
  the database undo it, and a transaction may be undone at any time (`Fail`,
  `Abort`): the behaviours that are left are behaviours of the model, so its safety
  properties hold with the lock. Which transactions wait for each other is another
  matter, and stated of the decisions of `AccessRequests` only.
- Refusals that depend on data left out (an application that is suspended, a
  missing permission) are `Fail`, possible at any time.

## 8. Not modelled, and why

- `production-promotion.mjs` copies one database into another, empty one that no
  process serves yet: one sequential program without a competitor.
- The worker loop starts no second cycle while one is active (the variable is
  set before any `await`) and its stop waits for the active one: nothing
  interleaves. What it starts is in the queues.
- `oidc.mjs`, the verification of signatures, sealed cookies, the CSRF check and
  `runtime-config.mjs` are computations on one request or at start, without
  state in the registry. The nonces of the internal clients and the counters of
  attempts are tables of one process, read and written between two awaits.
- The notification centre marks rows as read by single `UPDATE`s that keep the
  first instant; supervision and the portal directory only read.
- `repository.mjs` is the synchronous double the tests use; `n09_admin/` and
  `demo/` are not the service.
- Session mode *observe* writes in the background and decides nothing. The change to
  *enforce* enrols cookies sealed before it (`http.mjs:603-622`).

## 9. Plan

Done, in this order: (1) `SessionRecords`, `IdentitySessions`, its abstract
specification, refinement and proofs; (2) the queues and their promise;
(3) logins with proofs; (4) access requests with proofs; (5) external
identities and catalogues; (6) the account bridge, the commands and the audit
chain with proofs, the locks and the rights of approvals with proofs;
(7) the proofs of external identities, catalogues and both queues, and the
proofs of the two refinements.

Next, by importance:

1. The two reads before a commit that no property states yet: the authority of an
   operator (`identity-state-management.mjs:144`) and the recipient of a mail
   (`mariadb.mjs:1463`), as properties of what does hold, and their proofs.
2. The transition between the session modes *observe* and *enforce*.
3. The notification centre: marking as read against a concurrent consumer.
