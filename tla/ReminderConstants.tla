------------------------- MODULE ReminderConstants --------------------------
(***************************************************************************)
(* The projects or companies that an adviser may need reminders of,        *)
(* numbered in the order in which a job goes through them.                 *)
(***************************************************************************)
EXTENDS Naturals

CONSTANTS DueItems

ASSUME DueItemsAssumption == DueItems \subseteq Nat

=============================================================================
