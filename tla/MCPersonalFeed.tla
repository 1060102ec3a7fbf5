--------------------------- MODULE MCPersonalFeed ---------------------------
(***************************************************************************)
(* Instances of PersonalFeed.                                              *)
(***************************************************************************)
EXTENDS PersonalFeed

CONSTANTS phone, laptop

MCPresses == {phone, laptop}
Scene(verbs, with, n, site, m, jobs, failures) ==
  [verbs |-> verbs, presses |-> with, asks |-> n, site |-> site, happenings |-> m,
   jobs |-> jobs, collects |-> TRUE, faults |-> failures]

\* Reminders of an event that may be cancelled, asked for on both sides, or at
\* another time.
Reminders == Scene({"remind"}, {phone}, 2, {"reminds", "cancels"}, 1, {"reminders"}, 0)
Leading == Scene({"remind", "lead"}, {phone}, 2, {"cancels"}, 1, {"reminders"}, 0)
\* A reminder asked for again and again, and failures.
Repeats == Scene({"remind"}, {phone}, 3, {"closes"}, 1, {"reminders"}, 1)
\* The messages that come by the hour, and the switch that stops them.
Digests == Scene({"follow", "closed", "hour"}, {phone}, 3, {"closes"}, 1, {"digest"}, 0)
Hourly == Scene({"follow", "closed", "course"}, {phone}, 2, {"moves the exam", "closes"}, 1,
                {"digest", "exams"}, 0)
\* Unlinking on either side, with choices under way.
Unlinking == Scene({"unlink", "follow"}, {phone, laptop}, 2, {"unlinks", "links"}, 2, {}, 0)
\* The same, with a reminder asked for on the website in between.
Between == Scene({"unlink", "follow"}, {phone, laptop}, 2, {"unlinks", "links", "reminds"}, 1, {}, 0)
\* What the calendar and the website show.
Copies == Scene({"follow", "all", "calendar"}, {phone, laptop}, 3, {"follows"}, 1, {}, 0)
Unfollowed == Scene({"unfollow", "calendar"}, {phone, laptop}, 3, {"follows"}, 1, {}, 0)
\* Interest, and the question the morning after.
Asking == Scene({"interest", "signal", "quiet", "stop"}, {phone, laptop}, 2, {"closes", "removes"}, 1,
                {"feedback"}, 1)
\* What else of the person an unlinking leaves nothing of.
Signals == Scene({"unlink", "interest", "course"}, {phone, laptop}, 2, {"unlinks"}, 1, {}, 0)
\* A reminder that went out, and the question the morning after.
Reminded == Scene({"remind", "forget"}, {phone}, 2, {}, 0, {"reminders", "feedback"}, 0)
\* A reminder that Discord turns away, and asked for once more.
Turned == Scene({"remind", "lead", "closed"}, {phone}, 4, {"closes"}, 2, {"reminders"}, 0)
\* Follows on both sides, what is shown of them and an unlinking, with a failure.
Failing == Scene({"follow", "calendar", "unlink"}, {phone}, 2, {"follows"}, 2, {}, 1)
MCScenes == {Reminders, Leading, Repeats, Digests, Hourly, Unlinking, Between, Signals,
             Copies, Unfollowed, Asking, Reminded, Turned, Failing}
RemindedOnly == {Reminded}
=============================================================================
