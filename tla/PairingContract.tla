-------------------------- MODULE PairingContract --------------------------
(***************************************************************************)
(* What pairing an instance by QR code promises, without calls, locks,     *)
(* hubs, consumers and clean-ups: each process has one pairing session at  *)
(* a time, for a client of its own; a session pairs once at most, is given *)
(* up only when its pairing is over, and no step of one process touches    *)
(* the session of another.  InstanceConnection implements this             *)
(* specification.                                                          *)
(***************************************************************************)
CONSTANTS
    Processes,
    Clients,
    NoClient,
    MayCrash   \* whether processes stop without notice

VARIABLES
    session,   \* session[p]: the client that p's pairing session is for
    stage      \* stage[p]: how far that session has come

vars == <<session, stage>>

Init ==
    /\ session = [p \in Processes |-> NoClient]
    /\ stage = [p \in Processes |-> "none"]

\* The session is registered; one of a process that shuts down is over at once.
Begin(p, c) ==
    /\ session[p] = NoClient
    /\ \A q \in Processes : session[q] # c
    /\ session' = [session EXCEPT ![p] = c]
    /\ \E first \in {"added", "over"} : stage' = [stage EXCEPT ![p] = first]

\* QR codes are handed out.
Pair(p) ==
    /\ stage[p] = "added"
    /\ stage' = [stage EXCEPT ![p] = "pairs"]
    /\ UNCHANGED session

\* The client is paired, or is not going to be.
Stop(p) ==
    /\ stage[p] \in {"added", "pairs"}
    /\ stage' = [stage EXCEPT ![p] = "over"]
    /\ UNCHANGED session

End(p) ==
    /\ stage[p] = "over"
    /\ session' = [session EXCEPT ![p] = NoClient]
    /\ stage' = [stage EXCEPT ![p] = "none"]

\* A process that stops without notice forgets its session.
Forget(p) ==
    /\ MayCrash
    /\ session' = [session EXCEPT ![p] = NoClient]
    /\ stage' = [stage EXCEPT ![p] = "none"]

Next ==
    \E p \in Processes :
        \/ \E c \in Clients : Begin(p, c)
        \/ Pair(p)
        \/ Stop(p)
        \/ End(p)
        \/ Forget(p)

Spec == Init /\ [][Next]_vars

=============================================================================
