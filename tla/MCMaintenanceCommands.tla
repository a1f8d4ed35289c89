------------------------ MODULE MCMaintenanceCommands ------------------------
(* Small instances of MaintenanceCommands for TLC. *)
EXTENDS MaintenanceCommands, TLC

CONSTANTS p1, p2

Campaign(first, second, decides, gives) ==
    [runs |-> p1 :> first @@ p2 :> second, decides |-> decides, gives |-> gives]

\* The commands that touch the same rows, or give the same power, and the
\* identities they read.
Shared ==
    {Campaign({"labels", "seed"}, {"seed", "retire"}, {"robot"}, {}),
     Campaign({"labels"}, {"texts", "retire"}, {"robot"}, {}),
     Campaign({"bootstrap", "authority"}, {"bootstrap", "appoint"}, {"owner"}, {}),
     Campaign({"open"}, {"open"}, {"owner"}, {"use"}),
     Campaign({"create"}, {"create", "texts"}, {"owner", "newcomer"}, {})}
=============================================================================
