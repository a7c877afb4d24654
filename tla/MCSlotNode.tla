----------------------------- MODULE MCSlotNode -----------------------------
(***************************************************************************)
(* SlotNode for TLC.                                                       *)
(***************************************************************************)
EXTENDS SlotNode, TLC

(* The slots differ only in their pins.                                    *)
Symmetry == Permutations(Slots)

(* Two states that differ only in variables nobody reads before they are   *)
(* assigned again, or in the history variables, have the same futures; the *)
(* invariants checked under this view do not read them either.             *)
LiveState ==
    <<echo, pulse, queue, occupied, status_changed, locks, rpc, report,
      IF wpc = "idle" THEN "idle" ELSE <<wpc, slot>>,
      IF wpc \in {"update", "notify", "lock_fsm"} THEN sample ELSE "bad",
      IF wpc = "turn" THEN <<do_lock, turned>> ELSE <<FALSE, 0>>,
      IF rpc = "copy" THEN <<unread, [s \in Slots |-> s \notin unread /\ got[s]]>> ELSE "none">>

=============================================================================
