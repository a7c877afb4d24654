------------------------------ MODULE Barrier -------------------------------
(***************************************************************************)
(* What the gate promises to a driver, whatever the program does inside:   *)
(* an arm that rests only fully down or fully up, that always finishes     *)
(* going up, and that abandons its way down only to go back up.            *)
(***************************************************************************)
EXTENDS Integers

CONSTANT Top      \* height of the raised arm, at least 1

VARIABLES
    height,       \* 0 .. Top
    course        \* "shut", "raising", "open" or "lowering"

vars == <<height, course>>

Init == height = 0 /\ course = "shut"

LeaveShut == course = "shut" /\ course' = "raising" /\ UNCHANGED height

Raise == course = "raising" /\ height < Top /\ height' = height + 1 /\ UNCHANGED course

ReachOpen == course = "raising" /\ height = Top /\ course' = "open" /\ UNCHANGED height

LeaveOpen == course = "open" /\ course' = "lowering" /\ UNCHANGED height

Lower == course = "lowering" /\ height > 0 /\ height' = height - 1 /\ UNCHANGED course

(* Only in mid-air: an arm that is down is shut before it is raised again. *)
TurnBack ==
    /\ course = "lowering" /\ 0 < height /\ height < Top
    /\ course' = "raising"
    /\ UNCHANGED height

ReachShut == course = "lowering" /\ height = 0 /\ course' = "shut" /\ UNCHANGED height

Upwards   == Raise \/ ReachOpen
Downwards == Lower \/ TurnBack \/ ReachShut

Next == LeaveShut \/ LeaveOpen \/ Upwards \/ Downwards

(* A stroke that was begun goes on; nobody is obliged to begin one.        *)
Spec == Init /\ [][Next]_vars /\ WF_vars(Upwards) /\ WF_vars(Downwards)

SafeSpec == Init /\ [][Next]_vars

=============================================================================
