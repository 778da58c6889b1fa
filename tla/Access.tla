------------------------------- MODULE Access -------------------------------
(***************************************************************************)
(* What a deployment promises to whoever sends it requests: the verdict on *)
(* a request is given once, and is one that the configuration as a whole   *)
(* has for its credential, on whichever node and at whatever time it is    *)
(* given.  Auth implements this specification.                             *)
(***************************************************************************)
CONSTANTS
    Requests,
    Policies,           \* the configurations of a deployment
    Credentials,
    Nobody,             \* a request that was not sent yet has this credential
    Open,               \* it has no verdict yet
    Refused,            \* it gets no access
    Rights(_, _)        \* the accesses that a policy has for a credential

VARIABLES policy, cred, verdict

Init ==
    /\ policy \in Policies
    /\ cred = [r \in Requests |-> Nobody]
    /\ verdict = [r \in Requests |-> Open]

Stay(r) == cred'[r] = cred[r] /\ verdict'[r] = verdict[r]

Present(r) ==
    /\ cred[r] = Nobody
    /\ cred'[r] \in Credentials
    /\ verdict'[r] = verdict[r]

Decide(r) ==
    /\ cred[r] # Nobody /\ cred'[r] = cred[r]
    /\ verdict[r] = Open
    /\ verdict'[r] \in {Refused} \cup Rights(policy, cred[r])

\* One event may decide several requests: all that wait for the same keys.
Next ==
    /\ UNCHANGED policy
    /\ \A r \in Requests : Stay(r) \/ Present(r) \/ Decide(r)

Spec == Init /\ [][Next]_<<policy, cred, verdict>>
=============================================================================
