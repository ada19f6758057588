------------------------ MODULE MCDisruptionPipeline ------------------------
(***************************************************************************)
(* Three deliveries are the fewest with which two signals of one flight    *)
(* and an announcement, or a signal and two announcements, race; with two  *)
(* drain tasks any order of their commits is possible.                     *)
(***************************************************************************)
EXTENDS DisruptionPipeline

CONSTANT f1

MCEvents == [kind: Kinds, flight: {f1}]
                \cup {[kind |-> "quiet", flight |-> Unknown]}

=============================================================================
