------------------------------ MODULE MCFiles ------------------------------
(* Two uploads of one name, two downloads and a deletion of the first file. *)
EXTENDS Files, TLC

CONSTANTS f1, f2, d1, d2, x1, x2, u

MCFilesSet == {f1, f2}
MCDownloads == {d1, d2}
MCDeletions == {x1, x2}
MCWorkloads == {{f1, d1, d2, x1}, {f1, f2, x2}}
MCFileOf == [r \in {d1, d2, x1, x2} |-> IF r = x2 THEN f2 ELSE f1]
MCSharings == {<<f1, u>>}
MCExpiring == {f1}
\* The first file is found infected from the start, by the second database
\* or never.  Neither database need be reported with its number.
MCContents == {c \in [MCFilesSet -> 0 .. 2] : c[f2] = 2}
MCNameless == {0, 1}
=============================================================================
