-------------------------- MODULE FeatureRegistry --------------------------
(***************************************************************************)
(* The feature registry (features/registry.ts): the features of the bot,   *)
(* in the order the registry lists them, with what the dispatcher and the  *)
(* setup panels read of each. The words people read are left out.          *)
(***************************************************************************)
EXTENDS FiniteSets

Purposes == {"announcements", "digest", "reminders", "exams", "thisweek"}
Categories == {"command", "proactive", "roles", "administration"}
FirstCategory == "command"
Anywhere == {"guild", "botDm", "privateChannel"}

\* A feature that answers people, on until a manager switches it off.
Answers(id, category, tier, contexts) ==
  [id |-> id, category |-> category, default |-> TRUE, permissions |-> {},
   purposes |-> {}, tier |-> tier, contexts |-> contexts]
Command(id, tier) == Answers(id, "command", tier, Anywhere)
InServer(id, tier) == Answers(id, "administration", tier, {"guild"})

\* A feature that acts on its own, off until a manager switches it on.
Acts(id, permissions, purposes) ==
  [id |-> id, category |-> "proactive", default |-> FALSE, permissions |-> permissions,
   purposes |-> purposes, tier |-> "manager", contexts |-> {"guild"}]
ToPost == {"ViewChannel", "SendMessages"}
Posts(id, purpose) == Acts(id, ToPost, {purpose})
PostsAndPins(id, purpose) == Acts(id, ToPost \cup {"ManageMessages"}, {purpose})

Looking ==
  {Command(id, "read") : id \in {"identity.link", "events.list", "events.detail", "rsos.detail"}}

Announcing ==
  {Posts("announce.new", "announcements"), Posts("announce.changes", "announcements"),
   Acts("mirror.scheduled", {"ManageEvents"}, {})}

SettingUp == {InServer(id, "manager") : id \in {"setup.configure", "setup.remove"}}

Following ==
  {Command(id, "linked") : id \in {"feed.follow", "feed.digest", "feed.reminders", "feed.calendar"}}

Digesting ==
  {PostsAndPins("announce.digest", "digest"), Posts("announce.dayof", "reminders"),
   PostsAndPins("living.thisweek", "thisweek")}

Examining ==
  {Command("midterms.lookup", "read"), Command("feed.courses", "linked"),
   Posts("announce.exams", "exams")}

\* The one that acts on its own and is on from the start: it writes to nobody
\* who has not asked for it.
Asking == {[Acts("feedback.request", {}, {}) EXCEPT !.default = TRUE]}

OnCampus == {Command(id, "read") : id \in {"campus.rooms", "campus.course", "campus.building"}}

Editing ==
  {InServer(id, "editor") : id \in {"admin.postpone", "admin.cancel", "admin.describe",
                                    "admin.visibility", "admin.locationnote"}}
    \cup {[InServer("admin.repost", "editor") EXCEPT !.permissions = ToPost]}

Scheduling ==
  {InServer("scheduler.recommend", "editor"), InServer("scheduler.accept", "editor"),
   [InServer("scheduler.poll", "editor") EXCEPT !.permissions = ToPost]}

GivingRoles ==
  {[Acts("roles.membership", {"ManageRoles"}, {}) EXCEPT !.category = "roles"],
   Answers("roles.linked", "roles", "linked", {"guild"})}

Leaving == {Command("identity.unlink", "linked")}

Features == Looking \cup Announcing \cup SettingUp \cup Following \cup Digesting
              \cup Examining \cup Asking \cup OnCampus \cup Editing \cup Scheduling
              \cup GivingRoles \cup Leaving

FeatureIds == {f.id : f \in Features}
FeatureById(id) == CHOOSE f \in Features : f.id = id
=============================================================================
