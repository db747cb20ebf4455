-------------------------- MODULE RelationalManifest --------------------------
(***************************************************************************)
(* What the relational backends have in common: the relations and row keys *)
(* of a Manifest, the states they span, and what the conformance harness   *)
(* names (relational.py, tck_adapter/relational_harness.py).               *)
(*                                                                         *)
(* A relation is a function from logical row keys to a value or NoRow, so  *)
(* key uniqueness and row order, which _validate_state establishes, are    *)
(* its type; input that fails validation is refused without a step.        *)
(***************************************************************************)
CONSTANTS
    Relations,      \* Manifest relations
    Keys,           \* logical row keys
    Values,         \* what the other columns of a row hold
    NoRow,          \* no row has this key
    Labels,         \* the fixture control's names of held mutations
    Unobserved,     \* no final projection has been taken
    Baseline        \* the bound baseline state

Tables == [Keys -> Values \cup {NoRow}]
Stores == [Relations -> Tables]

ASSUME BaselineAssumption == Baseline \in Stores
ASSUME NoRowAssumption == NoRow \notin Values
ASSUME UnobservedAssumption == Unobserved \notin Stores

=============================================================================
