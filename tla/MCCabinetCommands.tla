-------------------------- MODULE MCCabinetCommands --------------------------
(* Small instances of CabinetCommands for TLC. *)
EXTENDS CabinetCommands, TLC

CommandSymmetry == Permutations(CommandId)
=============================================================================
