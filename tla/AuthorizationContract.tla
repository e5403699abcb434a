------------------------ MODULE AuthorizationContract ------------------------
(***************************************************************************)
(* What the live authorizations promise to whoever relies on them: the     *)
(* authority to publish a plan is granted in episodes that never overlap.  *)
(* An episode is opened only when the previous one of its plan has ended,  *)
(* becomes effective at most once, and once ended never changes again.     *)
(***************************************************************************)
EXTENDS Naturals, Sequences

CONSTANT Plans

VARIABLE grants   \* the episodes, oldest first: the plan and the state of each

OpenGrants == {"requested", "authorized"}

EndedGrants == {"revoked", "expired", "superseded", "closed"}

Init == grants = <<>>

IsOpenFor(g, p) == grants[g].plan = p /\ grants[g].state \in OpenGrants

\* A new episode; the one that the plan has may run out at the same time.
Open(p) ==
    \E state \in OpenGrants :
        LET before == [g \in DOMAIN grants |->
                         IF IsOpenFor(g, p) THEN [grants[g] EXCEPT !.state = "expired"]
                         ELSE grants[g]]
        IN  grants' = Append(before, [plan |-> p, state |-> state])

Approve(g) ==
    /\ grants[g].state = "requested"
    /\ grants' = [grants EXCEPT ![g].state = "authorized"]

End(g) ==
    /\ grants[g].state \in OpenGrants
    /\ \E state \in EndedGrants : grants' = [grants EXCEPT ![g].state = state]

Next ==
    \/ \E p \in Plans : Open(p)
    \/ \E g \in DOMAIN grants : Approve(g) \/ End(g)

Spec == Init /\ [][Next]_grants
=============================================================================
