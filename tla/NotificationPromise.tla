------------------------- MODULE NotificationPromise ------------------------
(***************************************************************************)
(* What the notification service promises to the application that hands it *)
(* an event: the event is kept as it was handed over, it is decided upon   *)
(* at most once, and it ends as processed - never before the decision - or *)
(* as quarantined.  Consumers, leases, retries and crashes do not show.    *)
(***************************************************************************)
EXTENDS Naturals

CONSTANTS
    Handed,          \* events an application may hand over
    Facts,           \* what an event may say
    NoFact,          \* the event has not been handed over
    Decisions,       \* what can be decided: recipients and channels
    Undecided        \* nothing has been decided yet

VARIABLES
    fact,            \* what each event says
    decision,        \* what has been decided about each event
    outcome          \* "open", "processed" or "quarantined"

promiseVars == <<fact, decision, outcome>>

PromiseInit ==
    /\ fact = [e \in Handed |-> NoFact]
    /\ decision = [e \in Handed |-> Undecided]
    /\ outcome = [e \in Handed |-> "open"]

\* A batch is accepted as a whole; what had already been accepted is ignored.
Accept(E) ==
    /\ \A e \in E : fact[e] = NoFact
    /\ \E said \in [E -> Facts] :
          fact' = [e \in Handed |-> IF e \in E THEN said[e] ELSE fact[e]]
    /\ UNCHANGED <<decision, outcome>>

DecideOnce(e, d) ==
    /\ fact[e] # NoFact /\ decision[e] = Undecided /\ outcome[e] = "open"
    /\ decision' = [decision EXCEPT ![e] = d]
    /\ UNCHANGED <<fact, outcome>>

Settle(e) ==
    /\ decision[e] # Undecided /\ outcome[e] = "open"
    /\ outcome' = [outcome EXCEPT ![e] = "processed"]
    /\ UNCHANGED <<fact, decision>>

SetAside(e) ==
    /\ fact[e] # NoFact /\ outcome[e] = "open"
    /\ outcome' = [outcome EXCEPT ![e] = "quarantined"]
    /\ UNCHANGED <<fact, decision>>

PromiseNext ==
    \/ \E E \in SUBSET Handed : E # {} /\ Accept(E)
    \/ \E e \in Handed, d \in Decisions : DecideOnce(e, d)
    \/ \E e \in Handed : Settle(e) \/ SetAside(e)

PromiseSpec == PromiseInit /\ [][PromiseNext]_promiseVars

\* No event stays open forever.
EveryEventEnds ==
    \A e \in Handed : fact[e] # NoFact ~> outcome[e] \in {"processed", "quarantined"}
=============================================================================
