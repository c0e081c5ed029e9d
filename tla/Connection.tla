----------------------------- MODULE Connection -----------------------------
(***************************************************************************)
(* What a connection promises (Conn.Serve as Server.HandleConn uses it).   *)
(* It accepts requests while it is open.  Each accepted request is         *)
(* answered by its handler at most once, and each answer reaches the peer  *)
(* at most once.  The connection is closed only when it accepts no more    *)
(* and every accepted request has been answered: this is the connection of *)
(* module Workers, whose EndConn waits for the operations under way.       *)
(***************************************************************************)
EXTENDS FiniteSets

CONSTANT Requests   \* the requests of the peer

VARIABLES
    life,       \* open, draining or closed, as in Workers
    accepted,   \* requests passed on to the handlers
    answered,   \* requests whose handler has produced a response
    delivered   \* requests whose reply the peer has received

connectionVars == <<life, accepted, answered, delivered>>

Init ==
    /\ life = "open"
    /\ accepted = {}
    /\ answered = {}
    /\ delivered = {}

Accept(r) ==
    /\ life = "open"
    /\ r \notin accepted
    /\ accepted' = accepted \cup {r}
    /\ UNCHANGED <<life, answered, delivered>>

Answer(r) ==
    /\ life # "closed"
    /\ r \in accepted \ answered
    /\ answered' = answered \cup {r}
    /\ UNCHANGED <<life, accepted, delivered>>

\* A write to the peer carries the replies collected so far.
Deliver(R) ==
    /\ life # "closed"
    /\ R # {}
    /\ R \cap delivered = {}
    /\ delivered' = delivered \cup R
    /\ UNCHANGED <<life, accepted, answered>>

Drain ==
    /\ life = "open"
    /\ life' = "draining"
    /\ UNCHANGED <<accepted, answered, delivered>>

End ==
    /\ life = "draining"
    /\ accepted = answered
    /\ life' = "closed"
    /\ UNCHANGED <<accepted, answered, delivered>>

Next ==
    \/ \E r \in Requests : Accept(r) \/ Answer(r)
    \/ \E R \in SUBSET answered : Deliver(R)
    \/ Drain \/ End

Spec == Init /\ [][Next]_connectionVars
=============================================================================
