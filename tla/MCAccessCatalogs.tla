-------------------------- MODULE MCAccessCatalogs ---------------------------
(* Small instances of AccessCatalogs for TLC. *)
EXTENDS AccessCatalogs, TLC

CONSTANTS ann, p1, p2

Catalogue(reader, writer, reads, writes, edits) ==
    [roles |-> "reader" :> reader @@ "writer" :> writer,
     permissions |-> "read" :> reads @@ "write" :> writes,
     of |-> "reader" :> (IF reader = "none" THEN {} ELSE {"read"})
              @@ "writer" :> (IF writer = "none" THEN {} ELSE edits)]

OneRole  == Catalogue("active", "none", "active", "none", {})
TwoRoles == Catalogue("active", "active", "active", "active", {"read", "write"})
Retired  == Catalogue("active", "inactive", "active", "inactive", {"write"})
Narrowed == Catalogue("active", "active", "active", "active", {"write"})

Contents == {OneRole, TwoRoles, Retired, Narrowed}
Versions == <<OneRole, TwoRoles, Retired>>

\* Ann was a writer before there was a catalogue.
Older == [g \in {ann} \X {"reader", "writer"} |->
            IF g = <<ann, "writer">> THEN {"write"} ELSE {}]

SameWorkers == Permutations(Workers)
=============================================================================
