--------------------------- MODULE MCUpgradeApply ---------------------------
(* Two releases and two commits between them with the version of the first:    *)
(* one that changes no code, one that does.                                    *)
EXTENDS UpgradeApply

CONSTANTS r1, docs, dev, r2

MCCommits  == {r1, docs, dev, r2}
MCReleases == {r1, r2}
MCVersion  == [c \in MCCommits |-> IF c = r2 THEN 2 ELSE 1]
MCNeutral  == {<<r1, docs>>}

=============================================================================
