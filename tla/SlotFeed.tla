------------------------------ MODULE SlotFeed ------------------------------
(***************************************************************************)
(* What a program that calls read() on /dev/parking again and again may    *)
(* rely on, whatever happens between the worker and the reader inside the  *)
(* driver.  SlotNode implements this module, LotStatus is built on it.     *)
(***************************************************************************)
EXTENDS Naturals

CONSTANT Slots

VARIABLES
    occupied,   \* what the sensors say
    report,     \* what the last read() returned
    due         \* how many more read()s may return without another change

vars == <<occupied, report, due>>

(* A read() that has cleared the flag, one for the flag set since, one for *)
(* the flag the worker is about to set.                                    *)
MostDue == 3

Init ==
    /\ occupied = [s \in Slots |-> FALSE]
    /\ report = occupied
    /\ due = 0

(* Every change makes a report due.                                        *)
Change(s) ==
    /\ occupied' = [occupied EXCEPT ![s] = ~@]
    /\ due' \in 1 .. MostDue
    /\ UNCHANGED report

(* A report may mix old and new values, or repeat the last one; but the    *)
(* last one that is due is up to date.                                     *)
Read ==
    /\ due > 0
    /\ due' \in 0 .. due - 1
    /\ report' \in [Slots -> BOOLEAN]
    /\ due' = 0 => report' = occupied
    /\ UNCHANGED occupied

(* A flag set twice wakes the reader once.                                 *)
Merge ==
    /\ due > 1
    /\ due' \in 1 .. due - 1
    /\ UNCHANGED <<occupied, report>>

Next == Read \/ Merge \/ \E s \in Slots : Change(s)

Spec == Init /\ [][Next]_vars

=============================================================================
