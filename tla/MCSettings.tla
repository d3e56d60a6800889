---------------------------- MODULE MCSettings ----------------------------
(* Every part of the settings, each with the calls and changes it needs. *)
EXTENDS Settings

AllUses == {"greeting", "profile", "clients", "key", "totp", "emails", "marketing", "account"}
===========================================================================
