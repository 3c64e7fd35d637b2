---------------------------- MODULE MCPoolControl ----------------------------
(* Instances of PoolControl for TLC.                                       *)
EXTENDS PoolControl

CONSTANTS i1, i2, d1

OneIP      == {i1}
TwoIPs     == {i1, i2}
NoDomain   == {}
OneDomain  == {d1}

FreshInstall == {EmptyPool}
TwoMembers   == {Examined({i1, i2}, {})}
Mixed        == {Examined({i1}, {d1})}
MixedOrFresh == Mixed \cup FreshInstall

\* Pools that the user has made a selection on before.
Chosen == Mixed \cup UNION {{Selected(p, {i1}, {i1}, TRUE), Selected(p, {d1}, {}, FALSE)} : p \in Mixed}

==============================================================================
