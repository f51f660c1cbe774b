--------------------------- MODULE MCSpecEditing ---------------------------
(***************************************************************************)
(* Instances of SpecEditing for TLC: three ways a criterion can be.        *)
(***************************************************************************)
EXTENDS SpecEditing

MCShapes ==
  {[pattern |-> "ubiquitous", fields |-> {}, contract |-> FALSE, terms |-> {}],
   [pattern |-> "unwanted", fields |-> {"error_condition"}, contract |-> FALSE, terms |-> Terms],
   [pattern |-> "event_driven", fields |-> {}, contract |-> TRUE, terms |-> {}]}

\* A careful caller, one with every habit, one that refers ahead from a scaffold, and
\* plans that hold a subtask or a group number twice.
MCStarts == {<<"bootstrap", {}, 3>>, <<"complete", {}, 3>>,
             <<"complete", {"own_ids", "loose_refs", "remove_last"}, 2>>,
             <<"created", {"loose_refs"}, 3>>,
             <<"repeats", {"own_ids"}, 2>>, <<"twins", {}, 2>>}
=============================================================================
