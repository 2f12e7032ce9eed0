---------------------------- MODULE AtLeastOnce ----------------------------
(* What a publisher of events promises: an event that was accepted is      *)
(* delivered, once or more often, or ends among the dead letters; and only *)
(* events that were accepted are.                                          *)
CONSTANT Event
VARIABLES
    accepted,   \* events whose writer was told, or could rely on, their being sent
    delivered,  \* events a consumer can find, or has handled
    buried      \* events an operator can find
promise == <<accepted, delivered, buried>>

Init == accepted = {} /\ delivered = {} /\ buried = {}

Accept(e) == accepted' = accepted \cup {e} /\ UNCHANGED <<delivered, buried>>
Deliver(e) ==
    e \in accepted /\ delivered' = delivered \cup {e} /\ UNCHANGED <<accepted, buried>>
Bury(e) ==
    e \in accepted /\ buried' = buried \cup {e} /\ UNCHANGED <<accepted, delivered>>

Next == \E e \in Event : Accept(e) \/ Deliver(e) \/ Bury(e)

Reach(e) == e \notin delivered \cup buried /\ (Deliver(e) \/ Bury(e))

Spec == Init /\ [][Next]_promise /\ \A e \in Event : WF_promise(Reach(e))
=============================================================================
