--------------------------- MODULE MCAnnouncements ---------------------------
(***************************************************************************)
(* Meetings for TLC: some scenes of the polls, and some of what is announced *)
(* about one event, one series, and a repeat created from a poll.            *)
(***************************************************************************)
EXTENDS Announcements, TLC

Evening(at, score) == [at |-> at, score |-> score]
\* The first and the second evening read alike; 9 and 10 halves are five, 3 and
\* 4 are two.
SomeWords == <<"tue", "tue", "wed">>
Chosen  == [picks |-> <<Evening(1, 9), Evening(3, 4), Evening(2, 4)>>, options |-> <<Evening(2, 2)>>]
Alike   == [picks |-> <<Evening(2, 6), Evening(1, 10)>>, options |-> <<>>]
Wider   == [picks |-> <<>>, options |-> <<Evening(3, 3)>>]
Nothing == [picks |-> <<>>, options |-> <<>>]
SomeOffers == {Chosen, Alike, Wider, Nothing}

Calm == [offers |-> {Nothing}, answers |-> 0, polls |-> 0, votes |-> 0, repeats |-> 0, closes |-> FALSE, faults |-> 0,
           first |-> "none", changes |-> 0, posts |-> 0, manages |-> 0, acts |-> {}]
PollScenes == {
  [Calm EXCEPT !.offers = SomeOffers, !.polls = 2, !.votes = 2, !.faults = 1],
  [Calm EXCEPT !.offers = {Chosen, Alike}, !.polls = 1, !.votes = 3, !.closes = TRUE, !.faults = 2],
  [Calm EXCEPT !.offers = SomeOffers, !.polls = 1, !.votes = 1, !.answers = 1, !.repeats = 1],
  [Calm EXCEPT !.offers = {Alike}, !.polls = 1, !.repeats = 2, !.faults = 1]}
EventScenes == {
  [Calm EXCEPT !.first = "event", !.changes = 3, !.posts = 1, !.acts = {"move", "visibility", "repost"}],
  [Calm EXCEPT !.first = "event", !.changes = 3, !.posts = 1, !.faults = 1, !.acts = {"move", "repost"}],
  [Calm EXCEPT !.first = "event", !.changes = 2, !.posts = 2, !.faults = 1,
                 !.acts = {"move", "visibility", "repost"}],
  [Calm EXCEPT !.first = "event", !.changes = 3, !.posts = 1, !.manages = 1,
                 !.acts = {"move", "cancel", "visibility"}],
  [Calm EXCEPT !.first = "event", !.changes = 2, !.posts = 1, !.manages = 1, !.faults = 1,
                 !.acts = {"move", "cancel", "visibility"}],
  [Calm EXCEPT !.first = "event", !.changes = 3, !.posts = 1, !.manages = 1, !.faults = 1,
                 !.acts = {"cancel", "visibility"}],
  [Calm EXCEPT !.first = "series", !.changes = 3, !.faults = 1,
                 !.acts = {"change", "cancel"}],
  [Calm EXCEPT !.first = "series", !.changes = 3, !.posts = 1, !.acts = {"repost"}],
  [Calm EXCEPT !.first = "series", !.changes = 2, !.posts = 1, !.faults = 1, !.acts = {"repost"}],
  [Calm EXCEPT !.offers = {Wider}, !.polls = 1, !.votes = 1, !.repeats = 1, !.changes = 2, !.acts = {"cancel"}]}
SomeScenes == PollScenes \cup EventScenes
HandsAlike == Permutations(Hands)
InternalScenes == {[Calm EXCEPT !.first = "event", !.changes = 3, !.acts = {"cancel", "visibility"}]}
=============================================================================
