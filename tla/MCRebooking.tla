----------------------------- MODULE MCRebooking -----------------------------
(***************************************************************************)
(* u1 can pay and fly, u2 has no passenger profile (a missing payment      *)
(* profile is refused at the same point), each owns a signal and u1 also   *)
(* asks for the signal of u2.  The two offers differ in price: requests    *)
(* about one signal share its intent, or collide on it.                    *)
(***************************************************************************)
EXTENDS Rebooking, TLC

CONSTANTS r1, r2, r3, u1, u2, s1, s2, o1, o2

MCOwner == (s1 :> u1) @@ (s2 :> u2)

MCPrice == (o1 :> 200) @@ (o2 :> 300)

Ask(u, s, o) == [user |-> u, signal |-> s, offer |-> o]

MCAsks == {Ask(u1, s1, o1), Ask(u1, s1, o2), Ask(u1, s2, o1), Ask(u2, s2, o1)}

Interchangeable == Permutations(Requests)

=============================================================================
