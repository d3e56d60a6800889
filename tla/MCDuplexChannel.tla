-------------------------- MODULE MCDuplexChannel --------------------------
(* Instances of DuplexChannel for TLC. *)
EXTENDS DuplexChannel, TLC

Interchangeable == Permutations(Channel) \cup Permutations(Command)

=============================================================================
