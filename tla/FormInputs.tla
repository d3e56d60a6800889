------------------------------ MODULE FormInputs ------------------------------
(***************************************************************************)
(* What is typed in the inputs of a form and how it is judged: the formats *)
(* (lib/validate), the schemas named for them (lib/vat) and the kinds of   *)
(* inputs (views/elements), each with the conversion of its value and the  *)
(* errors it reports.                                                      *)
(*                                                                         *)
(* A text keeps the class of its characters, whether its letters are upper *)
(* case, its length, and how many blanks or signs stand around and between *)
(* them; `pad' is what a conversion takes away.                            *)
(***************************************************************************)
EXTENDS Naturals, SequencesExt

NoText == [chars |-> "digits", upper |-> TRUE, length |-> 0, pad |-> 0]

RawLength(t) == t.length + t.pad

\* The text is made of nothing but characters of the class.
MadeOf(t, classes) == t.pad = 0 /\ t.length > 0 /\ t.chars \in classes

AlphaNumeric == {"digits", "hex", "base32", "letters"}

(***************************************************************************)
(* The formats.                                                            *)
(***************************************************************************)
IsHexValid(t) == MadeOf(t, {"digits", "hex"}) /\ t.length % 2 = 0

IsCodeValid(t) == RawLength(t) = 32 /\ IsHexValid(t)

IsOAuthCodeValid(t) == RawLength(t) = 64 /\ IsHexValid(t)

IsTokenValid(t) == IsHexValid(t)

IsUidValid(t) == RawLength(t) = 32 /\ IsHexValid(t)

IsEmailValid(t) == RawLength(t) <= 256 /\ MadeOf(t, {"email"})

\* Blanks count: a password is taken as it is.
IsPasswordValid(t) == RawLength(t) >= 8

IsUuidValid(t) == MadeOf(t, {"uuid"})

\* Only capitals, and no letter that looks like a digit.
IsBase32Valid(t) == MadeOf(t, {"digits"}) \/ (MadeOf(t, {"hex", "base32"}) /\ t.upper)

IsUnblockCodeValid(t) == MadeOf(t, AlphaNumeric) /\ t.length = 8

IsTotpCodeValid(t) == MadeOf(t, {"digits"}) /\ t.length = 6

IsRecoveryCodeValid(t) == MadeOf(t, AlphaNumeric) /\ t.length \in 8..10

IsBase64Url(t) == MadeOf(t, AlphaNumeric \cup {"base64url", "uuid"})

\* The schemas whose test is on one text.
Fits(schema, t) ==
    CASE schema = "base32"           -> IsBase32Valid(t)
      [] schema \in {"channelId", "channelKey", "keysJwk"} -> IsBase64Url(t)
      [] schema = "codeChallenge"    -> RawLength(t) \in 43..128
      [] schema = "email"            -> IsEmailValid(t)
      [] schema \in {"hex", "clientId"} -> IsHexValid(t)
      [] schema = "oauthCode"        -> IsOAuthCodeValid(t)
      [] schema = "password"         -> IsPasswordValid(t)
      [] schema = "recoveryCode"     -> IsRecoveryCodeValid(t)
      [] schema = "token"            -> IsTokenValid(t)
      [] schema = "totpCode"         -> IsTotpCodeValid(t)
      [] schema = "uid"              -> IsUidValid(t)
      [] schema = "unblockCode"      -> IsUnblockCodeValid(t)
      [] schema = "uuid"             -> IsUuidValid(t)
      [] schema = "verificationCode" -> IsCodeValid(t)
      [] schema = "phone"            -> MadeOf(t, {"phone"})
      [] OTHER                       -> TRUE

(***************************************************************************)
(* The kinds of inputs: the types and marks (class or id) they match, what *)
(* their value drops of the text, whether an empty value is an error       *)
(* always, only when it is required, or of the schema, and the errors.     *)
(***************************************************************************)
Marks == {"none", "password", "totp-code", "token-code", "recovery-code", "recovery-key", "unblock-code"}

Kind(matches, drops, asks, missing, schema, invalid) ==
    [matches |-> matches, drops |-> drops, asks |-> asks, missing |-> missing, schema |-> schema, invalid |-> invalid]

TotpCode ==
    Kind({<<"number", "totp-code">>}, "none", "always", "TOTP_CODE_REQUIRED", "totpCode", "INVALID_TOTP_CODE")

TokenCode ==
    Kind({<<"number", "token-code">>}, "none", "always", "TOKEN_VERIFICATION_CODE_REQUIRED", "totpCode",
         "INVALID_TOKEN_VERIFICATION_CODE")

RecoveryCode ==
    Kind({<<"text", "recovery-code">>}, "blanks", "always", "RECOVERY_CODE_REQUIRED", "recoveryCode",
         "INVALID_RECOVERY_CODE")

\* Its blanks are dropped and its letters made capitals.
RecoveryKey ==
    Kind({<<"text", "recovery-key">>}, "blanks and case", "always", "RECOVERY_KEY_REQUIRED", "base32",
         "INVALID_RECOVERY_KEY")

Checkbox == Kind({"checkbox"} \X Marks, "none", "never", "none", "any", "none")

Email == Kind({"email"} \X Marks, "blanks", "always", "EMAIL_REQUIRED", "email", "INVALID_EMAIL")

\* A password made legible is a text of the class `password'.
Password ==
    Kind(({"password"} \X Marks) \cup {<<"text", "password">>}, "none", "always", "PASSWORD_REQUIRED", "password",
         "PASSWORD_TOO_SHORT")

\* An empty value that is not required is still tested, and fails.
UnblockCode ==
    Kind({<<"text", "unblock-code">>}, "blanks", "if required", "UNBLOCK_CODE_REQUIRED", "unblockCode",
         "INVALID_UNBLOCK_CODE")

Telephone ==
    Kind({"tel"} \X Marks, "blanks", "if required", "PHONE_NUMBER_REQUIRED", "phone", "INVALID_PHONE_NUMBER")

Text == Kind({"text"} \X Marks, "none", "if required", "INPUT_REQUIRED", "any", "none")

Fallback == Kind({"number", "radio", "hidden"} \X Marks, "none", "never", "none", "any", "none")

\* The first that matches is taken.
ElementHelpers ==
    <<TotpCode, TokenCode, RecoveryCode, RecoveryKey, Checkbox, Email, Password, UnblockCode, Telephone, Text, Fallback>>

GetHelper(el) ==
    LET Matches(kind) == <<el.type, el.mark>> \in kind.matches
    IN  ElementHelpers[SelectInSeq(ElementHelpers, Matches)]

Val(el, t) ==
    LET drops == GetHelper(el).drops
    IN  [t EXCEPT !.pad = IF drops = "none" THEN @ ELSE 0, !.upper = (@ \/ drops = "blanks and case")]

\* The error an input is refused with, or "none".
Validate(el, t) ==
    LET kind  == GetHelper(el)
        value == Val(el, t)
        empty == RawLength(value) = 0
    IN  IF empty /\ (kind.asks = "always" \/ (kind.asks = "if required" /\ el.required)) THEN kind.missing
        ELSE IF ~Fits(kind.schema, value) /\ ~(empty /\ kind.schema = "phone") THEN kind.invalid
        ELSE "none"
=============================================================================
