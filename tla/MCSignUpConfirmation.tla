------------------------ MODULE MCSignUpConfirmation ------------------------
(* Instances of SignUpConfirmation for TLC. *)
EXTENDS SignUpConfirmation

=============================================================================
