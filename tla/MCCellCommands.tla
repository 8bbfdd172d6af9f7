---------------------------- MODULE MCCellCommands ----------------------------
(* Instances of CellCommands for TLC. *)
EXTENDS CellCommands, TLC

\* cmd objects are interchangeable: nothing orders or names them
SlotSymmetry == Permutations(Slots)
====
