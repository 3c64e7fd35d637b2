------------------------------ MODULE ActivePool ------------------------------
(***************************************************************************)
(* What the replacement of the pool promises (applyPoolLocked): cfnat, the *)
(* saved pool and the pool in memory follow one another through the same   *)
(* sequence of pools.  A replacement switches cfnat and the file over      *)
(* together, to a pool that can be forwarded to; memory follows before the *)
(* next replacement, so that it is never more than one pool behind.        *)
(* PoolControl implements this (PoolControl!Abstract).                     *)
(***************************************************************************)
CONSTANTS
    PoolStates,    \* pools
    Forwarding     \* the members that cfnat forwards to, for each of them

VARIABLES
    active,        \* the pool in memory
    saved,         \* the pool that a restart would read
    forwarded      \* the members that cfnat forwards to

poolVars == <<active, saved, forwarded>>

\* loadProxyActivePool and the start of cfnat.
Start ==
    /\ active \in PoolStates
    /\ saved = active
    /\ forwarded = Forwarding[active]

Replace ==
    /\ saved = active
    /\ \E p \in PoolStates : /\ Forwarding[p] # {}
                        /\ saved' = p
                        /\ forwarded' = Forwarding[p]
    /\ UNCHANGED active

Announce ==
    /\ active' = saved
    /\ UNCHANGED <<saved, forwarded>>

ActiveSpec == Start /\ [][Replace \/ Announce]_poolVars

=============================================================================
