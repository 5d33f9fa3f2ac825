---------------------------- MODULE MCFieldRegistry ---------------------------
(***************************************************************************)
(* Two raw fields, which the heuristic maps onto a UDM field whose model   *)
(* field exists.  An analyst may take the mapping away: unmapped, each     *)
(* stands for a model field of its own, which does not exist.              *)
(***************************************************************************)
EXTENDS FieldRegistry, TLC

MCHeuristic == [f \in Fields |-> "udm"]

MCModelFieldOf ==
  [f \in Fields |-> [m \in Mappings |-> IF m = "udm" THEN "known" ELSE f]]

(* Updaters have no names in the code, and the fields are alike. *)
Symmetry == Permutations(Fields) \cup Permutations(Updaters)

===============================================================================
