--------------------------- MODULE MergeConstants ---------------------------
(***************************************************************************)
(* What merges are about: companies, and the rows of one relation that may *)
(* belong to them.                                                         *)
(***************************************************************************)

CONSTANTS Companies,
          Items,
          None       \* NULL in a foreign key

ASSUME NoneAssumption == None \notin Companies \cup Items

=============================================================================
