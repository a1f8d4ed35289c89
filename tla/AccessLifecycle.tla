-------------------------- MODULE AccessLifecycle --------------------------
(***************************************************************************)
(* What the identity registry promises to the applications that rely on it,*)
(* without requests, versions or stale reads: every decision about an      *)
(* identity takes effect in one step.                                      *)
(*                                                                         *)
(* Two things are deliberately NOT promised, because nothing in the service *)
(* ensures them: Open and Entitle look at no status, and Renew may extend  *)
(* a session whose deadline has already passed.                            *)
(***************************************************************************)
EXTENDS Naturals

CONSTANTS
    People,          \* identities
    Outsider,        \* owner of a session not opened yet
    Ids,             \* session identifiers
    Rights,          \* roles that can be assigned
    Instants         \* dates

VARIABLES
    now,             \* current instant
    standing,        \* status of each identity
    session,         \* each session: owner, state, current deadline, last possible deadline
    entitled         \* assignments in force: pairs of an identity and a role

absVars == <<now, standing, session, entitled>>

AbstractSession ==
    [owner: People \cup {Outsider}, state: {"absent", "open", "closed"},
     until: Instants, limit: Instants]

AbstractTypeOK ==
    /\ now \in Nat
    /\ standing \in [People -> {"active", "suspended", "disabled"}]
    /\ session \in [Ids -> AbstractSession]
    /\ entitled \subseteq People \X Rights

OpenOf(i) == {s \in Ids : session[s].owner = i /\ session[s].state = "open"}
LiveOf(i) == {s \in OpenOf(i) : session[s].until > now}

AbstractInit ==
    /\ AbstractTypeOK
    /\ \A i \in People : standing[i] = "active"
    /\ \A s \in Ids : session[s].state # "closed"

CloseAll(S) ==
    session' = [s \in Ids |-> IF s \in S THEN [session[s] EXCEPT !.state = "closed"]
                                         ELSE session[s]]

Pass ==
    /\ now' = now + 1
    /\ UNCHANGED <<standing, session, entitled>>

Open(s, i) ==
    /\ session[s].state = "absent"
    /\ \E u, l \in Instants :
          /\ u <= l
          /\ session' = [session EXCEPT ![s] =
                            [owner |-> i, state |-> "open", until |-> u, limit |-> l]]
    /\ UNCHANGED <<now, standing, entitled>>

Renew(s) ==
    /\ session[s].state = "open"
    /\ \E u \in Instants :
          /\ session[s].until < u /\ u <= session[s].limit
          /\ session' = [session EXCEPT ![s].until = u]
    /\ UNCHANGED <<now, standing, entitled>>

\* Sessions of one person are closed together or not at all.
Close(S) ==
    /\ S # {}
    /\ CloseAll(S)
    /\ UNCHANGED <<now, standing, entitled>>

Suspend(i, S) ==
    /\ standing[i] = "active"
    /\ LiveOf(i) \subseteq S
    /\ standing' = [standing EXCEPT ![i] = "suspended"]
    /\ CloseAll(S)
    /\ UNCHANGED <<now, entitled>>

Reactivate(i) ==
    /\ standing[i] = "suspended"
    /\ LiveOf(i) = {}
    /\ standing' = [standing EXCEPT ![i] = "active"]
    /\ UNCHANGED <<now, session, entitled>>

Disable(i, S) ==
    /\ standing[i] # "disabled"
    /\ LiveOf(i) \subseteq S
    /\ standing' = [standing EXCEPT ![i] = "disabled"]
    /\ CloseAll(S)
    /\ entitled' = {e \in entitled : e[1] # i}
    /\ UNCHANGED now

Entitle(i, r) ==
    /\ <<i, r>> \notin entitled
    /\ entitled' = entitled \cup {<<i, r>>}
    /\ UNCHANGED <<now, standing, session>>

Withdraw(i, r) ==
    /\ <<i, r>> \in entitled
    /\ entitled' = entitled \ {<<i, r>>}
    /\ UNCHANGED <<now, standing, session>>

\* A step changes what those who rely on the registry see of it.
Visible == absVars' # absVars

AbstractNext ==
    /\ Visible
    /\ \/ Pass
       \/ \E s \in Ids, i \in People : Open(s, i)
       \/ \E s \in Ids : Renew(s)
       \/ \E i \in People : \E S \in SUBSET OpenOf(i) : Close(S) \/ Suspend(i, S) \/ Disable(i, S)
       \/ \E i \in People : Reactivate(i)
       \/ \E i \in People, r \in Rights : Entitle(i, r) \/ Withdraw(i, r)

AbstractSpec == AbstractInit /\ [][AbstractNext]_absVars
=============================================================================
