---------------------------- MODULE AtLeastOnce ----------------------------
(***************************************************************************)
(* What the outbox promises of a message that was enqueued: copies of it   *)
(* go out while it is pending, it is reported done only when one was       *)
(* accepted (or nobody was there to get it), and nothing goes out and      *)
(* nothing changes once it is done or was given up.                        *)
(***************************************************************************)
CONSTANTS Messages, Addressed     \* messages with an address of their own
VARIABLES state, accepted

aloVars == <<state, accepted>>

Post(m) ==
    /\ state[m] = "none"
    /\ state' = [state EXCEPT ![m] = "pending"]
    /\ UNCHANGED accepted

Accept(m) ==
    /\ state[m] = "pending"
    /\ accepted' = accepted \cup {m}
    /\ UNCHANGED state

Finish(m) ==
    /\ state[m] = "pending"
    /\ m \in Addressed => m \in accepted
    /\ state' = [state EXCEPT ![m] = "done"]
    /\ UNCHANGED accepted

GiveUp(m) ==
    /\ state[m] = "pending"
    /\ state' = [state EXCEPT ![m] = "lost"]
    /\ UNCHANGED accepted

AloInit == state = [m \in Messages |-> "none"] /\ accepted = {}
AloNext == \E m \in Messages : Post(m) \/ Accept(m) \/ Finish(m) \/ GiveUp(m)
AloSpec == AloInit /\ [][AloNext]_aloVars
=============================================================================
