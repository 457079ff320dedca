-------------------------- MODULE DeliveryContract --------------------------
(***************************************************************************)
(* What WebhooksService promises about the delivery of an event, without   *)
(* saying how: the receiver gets it at most twice; a record that says it   *)
(* was delivered is written only after the receiver got it; a delivery     *)
(* ends, and once it has ended no further record is written.  Nothing is   *)
(* promised about an event being received, about the order of events, or   *)
(* about one record per event.                                             *)
(***************************************************************************)
EXTENDS Naturals

CONSTANT Events

VARIABLES
  opened,   \* events whose status change was saved
  closed,   \* events whose delivery has ended
  got,      \* what the receiver got: pairs of an event and 1 or 2
  records   \* what the log says of events

vars == <<opened, closed, got, records>>

Init ==
  /\ opened = {}
  /\ closed = {}
  /\ got = {}
  /\ records = {}

Open(e) ==
  /\ e \notin opened
  /\ opened' = opened \cup {e}
  /\ UNCHANGED <<closed, got, records>>

\* The receiver gets an event; late, when its delivery has ended already.
Receive(e, n) ==
  /\ e \in opened
  /\ got' = got \cup {<<e, n>>}
  /\ UNCHANGED <<opened, closed, records>>

\* A delivery is recorded, and may end with that.
Record(e, ok) ==
  /\ e \in opened \ closed
  /\ ok => \E n \in {1, 2} : <<e, n>> \in got
  /\ records' = records \cup {[event |-> e, ok |-> ok]}
  /\ closed' \in {closed, closed \cup {e}}
  /\ UNCHANGED <<opened, got>>

\* Deliveries end without a record, one or, when the instance stops, many.
Close ==
  /\ \E E \in SUBSET (opened \ closed) : closed' = closed \cup E
  /\ UNCHANGED <<opened, got, records>>

\* The records of some events go with the application these are about.
Forget ==
  /\ \E E \in SUBSET Events : records' = {x \in records : x.event \notin E}
  /\ UNCHANGED <<opened, closed, got>>

Next ==
  \/ \E e \in Events : \/ Open(e)
                      \/ \E n \in {1, 2} : Receive(e, n)
                      \/ \E ok \in BOOLEAN : Record(e, ok)
  \/ Close
  \/ Forget

Ends == \A e \in Events : e \in opened ~> e \in closed

Spec == Init /\ [][Next]_vars /\ Ends
=============================================================================
