------------------------- MODULE MCNotificationQueue ------------------------
(* Small instances of NotificationQueue for TLC. *)
EXTENDS NotificationQueue, TLC

CONSTANTS w1, w2, e1, e2, ann, toAnn, toNobody

\* Ann is a recipient of one resolution; the other has none.
RecipientsOf == toAnn :> {ann} @@ toNobody :> {}

\* The first event may be handed over again with another content.
SaidTwice == [e \in Events |-> IF e = e1 THEN {"a", "b"} ELSE {"a"}]

SameWorkers == Permutations({w1, w2})
=============================================================================
