------------------------ MODULE MCConflictDetection -------------------------
(***************************************************************************)
(* Diffs on both sides of every threshold of the detector: lines two and   *)
(* three lines apart from a change, an insertion, two migrations, a        *)
(* manifest, and a diff whose text reads like a file header.               *)
(***************************************************************************)
EXTENDS ConflictDetection, TLC

Plain(start, count) == <<[start |-> start, count |-> count, lookalike |-> "none"]>>

\* Lines 1 and 2 of one file, and the manifest.
Top == [f \in {"code", "go.mod"} |-> IF f = "code" THEN Plain(1, 2) ELSE Plain(3, 1)]

\* Line 5 of that file, three lines below; two lines of another; a migration.
Near == [f \in {"code", "docs", "migrations/a.sql"} |->
           CASE f = "code" -> Plain(5, 1) [] f = "docs" -> Plain(1, 2) [] OTHER -> Plain(0, 0)]

\* An insertion four lines below those two, and another migration.
Apart == [f \in {"docs", "migrations/b.sql"} |->
            IF f = "docs" THEN Plain(6, 0) ELSE Plain(0, 0)]

\* A migration whose first hunk removes a line that begins with dashes.
Dashes == [f \in {"migrations/b.sql"} |->
             <<[start |-> 1, count |-> 1, lookalike |-> "minus"],
               [start |-> 9, count |-> 1, lookalike |-> "none"]>>]

MCDiffs == {Top, Near, Apart, Dashes}
MCMigrations == {"migrations/a.sql", "migrations/b.sql"}
MCManifests == {"go.mod"}

Symmetry == Permutations(Tasks) \cup Permutations(Owners)
=============================================================================
