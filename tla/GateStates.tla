----------------------------- MODULE GateStates -----------------------------
(***************************************************************************)
(* What the rest of the system may rely on about the state that            *)
(* /dev/gate_node reports: how it moves.  GateNode implements this module, *)
(* GateReport is built on it.                                              *)
(***************************************************************************)

VARIABLE state

States == {"IDLE", "ENTRY_DETECTED", "ENTRY_WAITING", "EXIT_REQUESTED",
           "EXIT_VEHICLE_DETECTED", "EXIT_VEHICLE_WAITING"}

Init == state = "IDLE"

(* A trip is an entry or an exit; it begins and ends in IDLE and never     *)
(* turns into the other.                                                   *)
Moves ==
    {<<"IDLE", "ENTRY_DETECTED">>, <<"ENTRY_DETECTED", "ENTRY_WAITING">>,
     <<"ENTRY_WAITING", "ENTRY_DETECTED">>, <<"ENTRY_WAITING", "IDLE">>,
     <<"IDLE", "EXIT_REQUESTED">>, <<"EXIT_REQUESTED", "EXIT_VEHICLE_DETECTED">>,
     <<"EXIT_REQUESTED", "IDLE">>,
     <<"EXIT_VEHICLE_DETECTED", "EXIT_VEHICLE_WAITING">>,
     <<"EXIT_VEHICLE_WAITING", "EXIT_VEHICLE_DETECTED">>,
     <<"EXIT_VEHICLE_WAITING", "IDLE">>}

Next == \E next \in States : <<state, next>> \in Moves /\ state' = next

Spec == Init /\ [][Next]_state

=============================================================================
