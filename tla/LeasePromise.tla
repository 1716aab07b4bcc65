---------------------------- MODULE LeasePromise ----------------------------
(***************************************************************************)
(* What a server lease promises, without its commands, files and retries:  *)
(* a service exists only for a role whose use was declared first, it is    *)
(* taken away only after its closing was declared, a role is closed only   *)
(* when its service is gone and is never used again, and absence is        *)
(* claimed only for the whole bundle.                                      *)
(***************************************************************************)
CONSTANT Role

VARIABLES
    phase,    \* role -> how far its declared life has come
    up,       \* roles whose service exists
    spent,    \* roles that have had their one service
    claimed   \* absence of the bundle has been reported

vars == <<phase, up, spent, claimed>>

Init ==
    /\ phase = [r \in Role |-> "unused"]
    /\ up = {} /\ spent = {}
    /\ claimed = FALSE

Declare(r) ==
    /\ phase[r] = "unused"
    /\ phase' = [phase EXCEPT ![r] = "held"]
    /\ UNCHANGED <<up, spent, claimed>>

Appear(r) ==
    /\ phase[r] = "held" /\ r \notin spent
    /\ up' = up \cup {r} /\ spent' = spent \cup {r}
    /\ UNCHANGED <<phase, claimed>>

Close(r) ==
    /\ phase' = [phase EXCEPT ![r] = "closing"]
    /\ UNCHANGED <<up, spent, claimed>>

Vanish(r) ==
    /\ phase[r] = "closing"
    /\ up' = up \ {r}
    /\ UNCHANGED <<phase, spent, claimed>>

Settle(r) ==
    /\ phase[r] = "closing" /\ r \notin up
    /\ phase' = [phase EXCEPT ![r] = "closed"]
    /\ UNCHANGED <<up, spent, claimed>>

Claim ==
    /\ \A r \in Role : phase[r] = "closed"
    /\ claimed' = TRUE
    /\ UNCHANGED <<phase, up, spent>>

\* Another cleanup looks again before it repeats the claim.
Reopen == claimed' = FALSE /\ UNCHANGED <<phase, up, spent>>

Next ==
    \/ \E r \in Role : Declare(r) \/ Appear(r) \/ Close(r) \/ Vanish(r) \/ Settle(r)
    \/ Claim \/ Reopen

Spec == Init /\ [][Next]_vars
=============================================================================
