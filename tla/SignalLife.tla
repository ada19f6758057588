----------------------------- MODULE SignalLife -----------------------------
(***************************************************************************)
(* The life of a disruption signal, as a subscriber may rely on it: it is  *)
(* fired; alternatives are stored, then he is sent a push, once; the       *)
(* airline may confirm it, and then a proof card may be published.  Queues *)
(* and tasks do not appear, nor does the end of the story: any signal may  *)
(* stop at any point.                                                      *)
(***************************************************************************)
EXTENDS Naturals

CONSTANT Signals

VARIABLES fired, stored, pushes, confirmed, carded

Init ==
    /\ fired = {}
    /\ stored = {}
    /\ pushes = [s \in Signals |-> 0]
    /\ confirmed = {}
    /\ carded = {}

Fire(s) ==
    /\ s \notin fired
    /\ fired' = fired \cup {s}
    /\ UNCHANGED <<stored, pushes, confirmed, carded>>

Store(s) ==
    /\ s \in fired \ stored
    /\ stored' = stored \cup {s}
    /\ UNCHANGED <<fired, pushes, confirmed, carded>>

Alert(s) ==
    /\ s \in stored
    /\ pushes[s] = 0
    /\ pushes' = [pushes EXCEPT ![s] = 1]
    /\ UNCHANGED <<fired, stored, confirmed, carded>>

Confirm(s) ==
    /\ s \in fired \ confirmed
    /\ confirmed' = confirmed \cup {s}
    /\ UNCHANGED <<fired, stored, pushes, carded>>

Publish(s) ==
    /\ s \in confirmed \ carded
    /\ carded' = carded \cup {s}
    /\ UNCHANGED <<fired, stored, pushes, confirmed>>

Next ==
    \E s \in Signals :
        Fire(s) \/ Store(s) \/ Alert(s) \/ Confirm(s) \/ Publish(s)

Spec == Init /\ [][Next]_<<fired, stored, pushes, confirmed, carded>>

=============================================================================
