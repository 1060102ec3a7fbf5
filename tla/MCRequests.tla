----------------------------- MODULE MCRequests -----------------------------
(***************************************************************************)
(* Interactions for TLC: each scene tries one part of the way through with   *)
(* as few kinds of interaction as the question needs.                        *)
(***************************************************************************)
EXTENDS Requests, TLC

Command == [kind |-> "command", person |-> "ann", tier |-> "unlinked", inServer |-> TRUE, installed |-> TRUE,
            private |-> FALSE, always |-> FALSE, reads |-> "nothing"]
Reading(query) == [Command EXCEPT !.person = IF query \in {"acm", "rsos"} THEN "ann" ELSE "bob",
                                  !.tier = "linked", !.inServer = FALSE, !.reads = query]
Typing(query) == [Command EXCEPT !.kind = "completion", !.reads = query]

\* Every way to be answered, with a switch being turned and things failing.
Ways == {Command, [Command EXCEPT !.private = TRUE], [Command EXCEPT !.installed = FALSE],
         [Command EXCEPT !.kind = "panel", !.private = TRUE, !.tier = "linked", !.always = TRUE],
         [Command EXCEPT !.kind = "opener", !.private = TRUE],
         [Command EXCEPT !.kind = "unknown"], [Command EXCEPT !.kind = "orphan"],
         Typing("rsos"), Typing("nothing")}

\* An event, its card and a listing with it, in a channel and elsewhere.
Card(form) == [form EXCEPT !.reads = "event"]
Cards == {Card(Command), Card([Command EXCEPT !.installed = FALSE]), Card([Command EXCEPT !.inServer = FALSE]),
          Card([Command EXCEPT !.kind = "panel"]), Card([Command EXCEPT !.kind = "panel", !.private = TRUE]),
          Card([Command EXCEPT !.kind = "opener", !.private = TRUE]),
          [Command EXCEPT !.reads = "internal"]}

Nobody == [forms |-> {}, most |-> 3, topics |-> {}, changes |-> 0, minutes |-> 0, toggles |-> 0, faults |-> 0]

SomeScenes == {
  [Nobody EXCEPT !.forms = Ways, !.most = 2, !.toggles = 1, !.faults = 1],
  [Nobody EXCEPT !.forms = Cards, !.most = 2, !.topics = {"acm"}, !.changes = 1],
  [Nobody EXCEPT !.forms = {Command, [Command EXCEPT !.tier = "linked", !.inServer = FALSE]},
                 !.minutes = 2],
  [Nobody EXCEPT !.forms = {Typing("courses"), Typing("acm")}, !.minutes = 1],
  [Nobody EXCEPT !.forms = {Reading(q) : q \in Lists}, !.minutes = 1],
  [Nobody EXCEPT !.forms = {Reading("acm"), Reading("every"), Reading("rsos")}, !.most = 2,
                 !.topics = {"acm", "ieee", "courses"}, !.changes = 2, !.minutes = 1]}

SomeLimits == [t \in {"unlinked", "linked", "guild", "autocomplete"} |-> IF t = "linked" THEN 2 ELSE 1]
Alike == Permutations(Interactions)
=============================================================================
