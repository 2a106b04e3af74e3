---------------------------- MODULE MCVaultCopies ---------------------------
(* Two files and two commands, each a replica or a restore.                 *)
EXTENDS VaultCopies, TLC

CONSTANTS f1, f2, c1, c2
MCFiles == {f1, f2}
MCCommands == {c1, c2}
Symmetric == Permutations(MCFiles) \cup Permutations(MCCommands)
=============================================================================
