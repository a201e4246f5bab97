------------------------- MODULE MCStoreMigration ---------------------------
(***************************************************************************)
(* Three binaries, the releases on both sides of this one and this one,    *)
(* open one file at the same time.                                         *)
(***************************************************************************)
EXTENDS StoreMigration

CONSTANTS older, this, newer, plain, legacy, scoped

MCProcs == {older, this, newer}

MCVersion == [p \in MCProcs |-> IF p = older THEN 9 ELSE IF p = this THEN 10 ELSE 11]

\* Files of the releases around each gated rewrite: unstamped, 2, 3, 9, 10, 11.
MCVersions == {0, 2, 3, 9, 10, 11}

MCRows == {plain, legacy, scoped}
MCCatalogRows == {legacy, scoped}
MCLegacyRows == {legacy}
=============================================================================
