------------------------------- MODULE MCMetrics -------------------------------
(* Pages with and without a flow, for each of the ways a report is sent. *)
EXTENDS Metrics

Whole(id) == [id |-> id, begin |-> TRUE]

Plain ==
    [source |-> [resume |-> NoFlow, url |-> NoFlow, attribute |-> Whole("signed")], begin |-> 0, age |-> 0,
     until |-> 0, skew |-> 0, jump |-> 0, sender |-> "beacon", full |-> FALSE, shows |-> {"form"}, views |-> {"signin"},
     entrypoint |-> "a", dnt |-> FALSE, load |-> 0, sampled |-> FALSE]

AllScenarios ==
    {[Plain EXCEPT !.source.url = Whole("signed"), !.skew = 3, !.shows = {"link"}],
     [Plain EXCEPT !.source.url = Whole("unsigned"), !.sender = "xhr", !.dnt = TRUE],
     [Plain EXCEPT !.source.url = Whole("mangled"), !.sender = "xhr"],
     [Plain EXCEPT !.source.resume = Whole("signed"), !.age = 1, !.until = 2, !.sender = "xhr", !.skew = -1,
                   !.load = 1, !.shows = {"link"}, !.sampled = TRUE],
     [Plain EXCEPT !.until = 2, !.skew = 2, !.full = TRUE, !.load = 1],
     [Plain EXCEPT !.source.resume = [id |-> "signed", begin |-> FALSE]],
     [Plain EXCEPT !.source.resume = [id |-> "none", begin |-> TRUE], !.shows = {"experiment"}],
     [Plain EXCEPT !.source.attribute = Whole("mangled"), !.shows = {"snippet"}],
     [Plain EXCEPT !.entrypoint = "a:b", !.sender = "storage", !.shows = {"account"}],
     [Plain EXCEPT !.jump = 1, !.until = 1, !.views = {"settings"}, !.shows = {"error"}],
     [Plain EXCEPT !.jump = -1, !.until = 1, !.sender = "xhr", !.shows = {}]}
=============================================================================
