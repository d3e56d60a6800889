-------------------------------- MODULE MCPage --------------------------------
(* Screens with one or two inputs, with and without a link to refresh. *)
EXTENDS Page

Txt(chars, length, pad) == [chars |-> chars, upper |-> FALSE, length |-> length, pad |-> pad]

Input(type, mark, required) == [type |-> type, mark |-> mark, required |-> required]

Short == Txt("letters", 7, 0)

Long == Txt("letters", 8, 0)

Blanks == Txt("letters", 0, 2)

Plain ==
    [inputs |-> <<Input("password", "password", TRUE)>>, texts |-> <<NoText>>, typed |-> <<{Short, Long}>>,
     synchronized |-> FALSE, passed |-> "none", success |-> FALSE, text |-> "plain", title |-> "title",
     links |-> <<40, 40>>, autofocus |-> FALSE, touch |-> FALSE, leaves |-> FALSE, refreshes |-> FALSE,
     halts |-> FALSE, elsewhere |-> FALSE]

Two ==
    [Plain EXCEPT !.inputs = <<Input("email", "none", TRUE), Input("password", "password", TRUE)>>,
                  !.texts = <<Txt("email", 10, 1), NoText>>,
                  !.typed = <<{Blanks, Txt("email", 10, 0)}, {Short, Long}>>]

One(type, mark, required, texts) ==
    [Plain EXCEPT !.inputs = <<Input(type, mark, required)>>, !.typed = <<texts>>]

AllScenarios ==
    {Two, [Two EXCEPT !.elsewhere = TRUE, !.halts = TRUE],
     [Plain EXCEPT !.refreshes = TRUE, !.texts = <<Long>>, !.success = TRUE],
     [Plain EXCEPT !.leaves = TRUE, !.texts = <<Long>>, !.passed = "passed", !.autofocus = TRUE, !.links = <<>>],
     [Two EXCEPT !.inputs[1] = Input("password", "password", TRUE), !.synchronized = TRUE,
                 !.texts = <<Short, Long>>, !.typed = <<{Long}, {Short}>>, !.text = "html", !.title = ""],
     One("number", "totp-code", TRUE, {Txt("digits", 6, 0), Txt("digits", 5, 0)}),
     One("number", "token-code", TRUE, {Txt("digits", 6, 0), Txt("hex", 6, 0)}),
     One("text", "recovery-code", TRUE, {Txt("letters", 10, 1), Txt("letters", 11, 0)}),
     One("text", "recovery-key", TRUE, {Txt("base32", 32, 7), Txt("letters", 32, 0)}),
     One("text", "unblock-code", FALSE, {Txt("letters", 8, 1), Txt("letters", 7, 1)}),
     One("tel", "none", FALSE, {Txt("phone", 10, 3), Txt("digits", 3, 0)}),
     One("text", "none", TRUE, {Blanks, Long}),
     One("checkbox", "none", FALSE, {Long})}
=============================================================================
