---------------------------- MODULE Announcements ----------------------------
(***************************************************************************)
(* What one server reads about an event or a series, after it was announced: *)
(* the handlers of the outbox (announce/handlers.ts) with the row that says  *)
(* which message is the announcement (mirror/eventMirrors.ts), and the       *)
(* actions of a board (commands/admin.ts), which change the event on VIA or  *)
(* post its announcement again.  A repeat created from a poll of             *)
(* MeetingPolls is announced by the same handlers.                           *)
(*                                                                         *)
(* The handler takes the entries in order, one at a time, and again after a  *)
(* failure or where the cursor was put back (OutboxConsumer); buttons are    *)
(* pressed between any two of its steps.  The faults are fewer than the      *)
(* attempts an entry has, so none is given up here.                          *)
(***************************************************************************)
EXTENDS MeetingPolls

CONSTANTS
  Events,   \* the meetings, as numbers: the first alone is an event, together a series
  Hands     \* the presses of administrative buttons that may be under way at once

ASSUME AnnouncementsAssumption == Events \subseteq Nat \ {0} /\ 1 \in Events

VARIABLES
  event,     \* VIA: each meeting: its state, version, whether internal and whether cancelled
  pattern,   \* VIA: the version of the series they are meetings of, 0 for none
  outbox,    \* VIA: the entries, each with the event as it was then
  cursor,    \* how many of them have been handled
  follows, features, bound, shut,  \* the server: whether it follows the organization, the
                                   \* features on, whether a channel is bound, and closed to the bot
  managed,   \* how often the server was managed
  messages,  \* Discord: the announcements: what each shows, for which entry (0: posted again)
  notices,   \* Discord: the entries the notices posted were for
  mirror,    \* Event_Mirrors: the announcement of each meeting, 0 for none
  delivered, \* Deliveries: what was recorded as posted: [entry, purpose, message]
  work,      \* what the handler holds of the entry it is at
  hand,      \* what the bot holds of each press
  crossed,   \* history: announcements posted again from a reading that a change had overtaken
  unheard,   \* history: meetings a change of which was passed over in this server
  reached,   \* history: how far the handler had come when the cursor was put back, or 0
  redone     \* history: meetings whose announcement an entry taken again has replaced or redrawn

site     == <<event, pattern, outbox>>
server   == <<follows, features, bound, shut, managed>>
channel  == <<messages, notices>>
records  == <<mirror, delivered>>
handler  == <<cursor, work>>
bot      == <<handler, hand>>
pasts    == <<crossed, unheard>>
replay   == <<reached, redone>>
vars     == <<pollVars, site, server, channel, records, bot, pasts, replay>>

NoMeeting == [state |-> "none", version |-> 0, private |-> FALSE, cancelled |-> FALSE]
Nowhere == [what |-> "nothing", of |-> 1, event |-> NoMeeting, pattern |-> 0]
NoWork == [step |-> "idle", shows |-> Nowhere, found |-> 1, message |-> 0]
NoHand == [step |-> "idle", act |-> "none", of |-> 1, read |-> NoMeeting, message |-> 0]

Init ==
  /\ PollsInit
  /\ event = [e \in Events |-> NoMeeting] /\ pattern = 0 /\ outbox = <<>> /\ cursor = 0
  /\ follows = TRUE /\ features = {"new", "changes"} /\ bound = TRUE /\ shut = FALSE /\ managed = 0
  /\ messages = <<>> /\ notices = <<>>
  /\ mirror = [e \in Events |-> 0] /\ delivered = {}
  /\ work = NoWork /\ hand = [h \in Hands |-> NoHand]
  /\ crossed = {} /\ unheard = {} /\ reached = 0 /\ redone = {}

-----------------------------------------------------------------------------
(* VIA writes an entry down with each change.                               *)

Writes(kind, of, moved, events, version) ==
  /\ event' = events /\ pattern' = version
  /\ outbox' = Append(outbox, [kind |-> kind, of |-> of, moved |-> moved,
                               event |-> events[of], pattern |-> version,
                               ids |-> {e \in Events : event[e].state = "on" \/ events[e].state = "on"}])

Elsewhere == UNCHANGED <<server, channel, records, bot, pasts>>
PollsStand == UNCHANGED pollVars

MayChange == Len(outbox) < scene.changes
New(private) == [NoMeeting EXCEPT !.state = "on", !.private = private]

\* On the website: an event, or a series, is created.
Publishes ==
  /\ MayChange /\ scene.first = "event" /\ event[1].state = "none"
  /\ \E private \in BOOLEAN : Writes("event.created", 1, FALSE, [event EXCEPT ![1] = New(private)], 0)
  /\ Elsewhere /\ PollsStand
SeriesOn(private) == Writes("series.created", 1, FALSE, [e \in Events |-> New(private)], 1)
PublishesSeries ==
  /\ MayChange /\ scene.first = "series" /\ event[1].state = "none"
  /\ \E private \in BOOLEAN : SeriesOn(private)
  /\ Elsewhere /\ PollsStand

\* The repeat a board created from a poll; the first one is followed here.
CreatesRepeat ==
  /\ Creates
  /\ IF event[1].state = "none" /\ MayChange THEN SeriesOn(FALSE) ELSE UNCHANGED site
  /\ Elsewhere

\* On the website: meetings are deleted, and the series is changed or deleted.
Deleted(e) ==
  /\ MayChange /\ event[e].state = "on"
  /\ Writes("event.deleted", e, FALSE, [event EXCEPT ![e].state = "gone"], pattern)
  /\ Elsewhere /\ PollsStand
SeriesChanged ==
  /\ MayChange /\ pattern > 0 /\ \E e \in Events : event[e].state = "on"
  /\ Writes("series.updated", 1, FALSE,
            [e \in Events |-> IF event[e].state = "on" THEN [event[e] EXCEPT !.version = @ + 1] ELSE event[e]],
            pattern + 1)
  /\ Elsewhere /\ PollsStand
SeriesDeleted ==
  /\ MayChange /\ pattern > 0 /\ \E e \in Events : event[e].state = "on"
  /\ Writes("series.deleted", 1, FALSE, [e \in Events |-> [event[e] EXCEPT !.state = "gone"]], pattern)
  /\ Elsewhere /\ PollsStand

\* What a manager, or anybody who may delete a message or close a channel, does.
Manages ==
  /\ managed < scene.manages
  /\ managed' = managed + 1
  /\ \/ follows' = ~follows /\ UNCHANGED <<features, bound, shut, messages>>
     \/ \E f \in {"new", "changes"} :
          /\ features' = IF f \in features THEN features \ {f} ELSE features \cup {f}
          /\ UNCHANGED <<follows, bound, shut, messages>>
     \/ bound' = ~bound /\ UNCHANGED <<follows, features, shut, messages>>
     \/ ~shut /\ shut' = TRUE /\ UNCHANGED <<follows, features, bound, messages>>
     \/ \E m \in DOMAIN messages :
          /\ ~messages[m].gone
          /\ messages' = [messages EXCEPT ![m].gone = TRUE]
          /\ UNCHANGED <<follows, features, bound, shut>>
  /\ UNCHANGED <<pollVars, site, notices, records, bot, pasts>>

-----------------------------------------------------------------------------
(* The actions of a board.  Each begins with a reading of the event.         *)

Acts == {"move", "change", "cancel", "visibility", "repost"}

Presses(h, e, act) ==
  /\ hand[h].step = "idle" /\ act \in scene.acts
  /\ event[e].state = "on"
  /\ IF act = "repost" THEN Len(messages) < scene.posts ELSE MayChange
  /\ hand' = [hand EXCEPT ![h] = [NoHand EXCEPT !.step = "act", !.act = act, !.of = e, !.read = event[e]]]
  /\ UNCHANGED <<pollVars, site, server, channel, records, handler, pasts>>

\* VIA refuses the person, or no longer has the event.
Refused(h) ==
  /\ hand[h].step = "act"
  /\ hand' = [hand EXCEPT ![h] = NoHand]
  /\ UNCHANGED <<pollVars, site, server, channel, records, handler, pasts>>

\* The event is moved, described, given a note, cancelled, or switched to what
\* it was not as it was read.
Changes(h) ==
  LET e == hand[h].of
      act == hand[h].act
      changed == [event[e] EXCEPT !.version = @ + 1,
                                  !.cancelled = @ \/ act = "cancel",
                                  !.private = IF act = "visibility" THEN ~hand[h].read.private ELSE @]
  IN  /\ hand[h].step = "act" /\ act # "repost" /\ MayChange
      /\ event[e].state = "on"
      /\ Writes(IF act = "cancel" THEN "event.cancelled" ELSE "event.updated",
                e, act = "move", [event EXCEPT ![e] = changed], pattern)
      /\ hand' = [hand EXCEPT ![h] = NoHand]
      /\ UNCHANGED <<pollVars, server, channel, records, handler, pasts>>

\* The announcement as it would be drawn of a reading of the event.
CardOf(e, read) == [Nowhere EXCEPT !.what = "event", !.of = e, !.event = read]
Announced(shows, entry) == Append(messages, [shows |-> shows, entry |-> entry, gone |-> FALSE])

\* Posting it again is refused for an event read as internal, and where the
\* server does not follow the organization or has no channel bound.
PostsAgain(h) ==
  /\ hand[h].step = "act" /\ hand[h].act = "repost"
  /\ ~hand[h].read.private /\ follows /\ bound /\ ~shut
  /\ messages' = Announced(CardOf(hand[h].of, hand[h].read), 0)
  /\ hand' = [hand EXCEPT ![h].step = "record", ![h].message = Len(messages) + 1]
  /\ UNCHANGED <<pollVars, site, server, notices, records, handler, pasts>>
RecordsAgain(h) ==
  /\ hand[h].step = "record"
  /\ mirror' = [mirror EXCEPT ![hand[h].of] = hand[h].message]
  /\ crossed' = IF event[hand[h].of] # hand[h].read THEN crossed \cup {hand[h].message} ELSE crossed
  /\ hand' = [hand EXCEPT ![h] = NoHand]
  /\ UNCHANGED <<pollVars, site, server, channel, delivered, handler, unheard>>

-----------------------------------------------------------------------------
(* The handlers.                                                            *)

Now == outbox[cursor + 1]
Handled == work' = NoWork /\ cursor' = cursor + 1
Settled(purpose) == {d \in delivered : d.entry = cursor + 1 /\ d.purpose = purpose}
Delivers(purpose, message) ==
  delivered' = delivered \cup {[entry |-> cursor + 1, purpose |-> purpose, message |-> message]}

\* The first meeting of a series is read from VIA as it is now.
FirstMeeting == {e \in Now.ids : event[e].state = "on" /\ \A d \in Now.ids : event[d].state = "on" => e <= d}
IsSeries == Now.kind \in {"series.created", "series.updated", "series.deleted"}
ReplyToAll == {CardOf(Now.of, Now.event)}
Reply ==
  CASE Now.kind \in {"event.deleted", "series.deleted"}  -> {[Nowhere EXCEPT !.what = "removed"]}
    [] Now.kind = "event.updated" /\ Now.event.private   -> {[Nowhere EXCEPT !.what = "internal"]}
    [] Now.kind \in {"series.created", "series.updated"} ->
         {[Nowhere EXCEPT !.what = "series", !.of = e, !.event = event[e], !.pattern = Now.pattern] : e \in FirstMeeting}
    [] OTHER                                             -> {CardOf(Now.of, Now.event)}
IsNew == Now.kind \in {"event.created", "series.created"}
HasNotice(entry) ==
  entry.kind = "event.cancelled" \/ (entry.kind = "event.updated" /\ entry.moved /\ ~entry.event.private)

\* What the entry comes to: nothing is announced of what is internal, and a
\* series without meetings has nothing to be drawn from.
Takes ==
  /\ work.step = "idle" /\ cursor < Len(outbox)
  /\ IF \E r \in Reply : ~(IsNew /\ r.event.private)
       THEN /\ \E r \in Reply : work' = [NoWork EXCEPT !.step = IF IsNew THEN "post" ELSE "find", !.shows = r]
            /\ UNCHANGED cursor
       ELSE Handled
  /\ UNCHANGED <<pollVars, site, server, channel, records, hand, pasts>>

\* Something new is posted, once, to the channel bound; a feature without a
\* channel it can be posted in is switched off.
PostNew ==
  /\ work.step = "post"
  /\ CASE ~follows \/ "new" \notin features ->
            Handled /\ UNCHANGED <<features, messages, mirror>>
       [] follows /\ "new" \in features /\ ~bound ->
            features' = features \ {"new"} /\ Handled /\ UNCHANGED <<messages, mirror>>
       [] follows /\ "new" \in features /\ bound /\ Settled("post") # {} ->
            /\ \E d \in Settled("post") : mirror' = [mirror EXCEPT ![work.shows.of] = d.message]
            /\ Handled /\ UNCHANGED <<features, messages>>
       [] follows /\ "new" \in features /\ bound /\ Settled("post") = {} /\ shut ->
            features' = features \ {"new"} /\ Handled /\ UNCHANGED <<messages, mirror>>
       [] OTHER ->
            /\ messages' = Announced(work.shows, cursor + 1)
            /\ work' = [work EXCEPT !.step = "recordPost", !.message = Len(messages) + 1]
            /\ UNCHANGED <<features, mirror, cursor>>
  /\ UNCHANGED <<pollVars, site, follows, bound, shut, managed, notices, delivered, hand, pasts>>
RecordPost ==
  /\ work.step = "recordPost"
  /\ Delivers("post", work.message)
  /\ work' = [work EXCEPT !.step = "recordRow"]
  /\ UNCHANGED <<pollVars, site, server, channel, mirror, cursor, hand, pasts>>
RecordAnnouncement ==
  /\ work.step = "recordRow"
  /\ mirror' = [mirror EXCEPT ![work.shows.of] = work.message]
  /\ Handled
  /\ UNCHANGED <<pollVars, site, server, channel, delivered, hand, pasts>>

\* A change is brought to the announcement of the first of the meetings that
\* has one, in a server that follows and hears about changes.
About == IF IsSeries THEN Now.ids ELSE {Now.of}
FindAnnouncement ==
  /\ work.step = "find"
  /\ LET rows == {e \in About : mirror[e] # 0}
     IN  IF follows /\ "changes" \in features /\ rows # {}
           THEN /\ LET e == CHOOSE e \in rows : \A d \in rows : e <= d
                   IN  /\ work' = [work EXCEPT !.step = "edit", !.found = e, !.message = mirror[e]]
                       /\ unheard' = unheard \cup (rows \ {e})
                /\ UNCHANGED cursor
           ELSE Handled /\ unheard' = unheard \cup rows
  /\ UNCHANGED <<pollVars, site, server, channel, records, hand, crossed>>

AfterEdit == IF HasNotice(Now) THEN work' = [work EXCEPT !.step = "notice"] /\ UNCHANGED cursor ELSE Handled
Edit ==
  /\ work.step = "edit"
  /\ IF Settled("edit") # {} THEN AfterEdit /\ UNCHANGED messages
     ELSE /\ messages' = IF shut \/ messages[work.message].gone THEN messages
                         ELSE [messages EXCEPT ![work.message].shows = work.shows]
          /\ work' = [work EXCEPT !.step = "recordEdit"]
          /\ UNCHANGED cursor
  /\ UNCHANGED <<pollVars, site, server, notices, records, hand, pasts>>
RecordEdit ==
  /\ work.step = "recordEdit"
  /\ Delivers("edit", work.message)
  /\ AfterEdit
  /\ UNCHANGED <<pollVars, site, server, channel, mirror, hand, pasts>>

\* A notice replies to the announcement, which may be gone by then.
Notice ==
  /\ work.step = "notice"
  /\ IF Settled("notice") # {} \/ shut THEN Handled /\ UNCHANGED notices
     ELSE /\ notices' = Append(notices, cursor + 1)
          /\ work' = [work EXCEPT !.step = "recordNotice"]
          /\ UNCHANGED cursor
  /\ UNCHANGED <<pollVars, site, server, messages, records, hand, pasts>>
RecordNotice ==
  /\ work.step = "recordNotice"
  /\ Delivers("notice", work.message)
  /\ Handled
  /\ UNCHANGED <<pollVars, site, server, channel, mirror, hand, pasts>>

-----------------------------------------------------------------------------
(* What goes wrong.                                                         *)

\* A call fails: the entry is taken again from its start, or a press is forgotten.
\* And the re-stamp of the cursor, which counts as a fault here, writes a value it
\* read before the handler went on (jobs/housekeeping.ts:217-222); amid an entry
\* the advance that follows would write over it.
AnnouncementFault ==
  /\ Strikes
  /\ \/ work.step # "idle" /\ work' = NoWork /\ UNCHANGED <<cursor, hand>>
     \/ \E h \in Hands : hand[h].step = "record" /\ hand' = [hand EXCEPT ![h] = NoHand] /\ UNCHANGED handler
     \/ work.step = "idle" /\ cursor' \in 0..(cursor - 1) /\ UNCHANGED <<work, hand>>
  /\ UNCHANGED <<offered, series, board, tally, pollJob, creation, scene, answers, votes, checked, unsaved>>
  /\ UNCHANGED <<site, server, channel, records, pasts>>

\* The bot stops and starts again.  Everything under way is forgotten, and the
\* drain puts the cursor back to the oldest entry that owes a post: to this server,
\* or to another, to its Events tab or to a person, none of which are followed
\* here, so that it may be any entry, or none.
Stops ==
  /\ PollsStop
  /\ cursor' \in 0..cursor
  /\ work' = NoWork /\ hand' = [h \in Hands |-> NoHand]
  /\ UNCHANGED <<site, server, channel, records, pasts>>

\* What is remembered of entries that are taken again.  A meeting is redone where
\* one of them gives it another announcement, or draws the one it has otherwise,
\* until an entry that is taken for the first time is brought to an announcement of
\* its own or a board posts it again.
Redrawn == {e \in Events : \/ mirror'[e] # mirror[e]
                           \/ mirror[e] # 0 /\ messages'[mirror[e]].shows # messages[mirror[e]].shows}
Brought == IF work'.step = "recordEdit" THEN {e \in Events : mirror[e] = work.message} ELSE {}
ByHandler == work' # work \/ cursor' > cursor
Remembers ==
  /\ reached' = IF cursor' < cursor /\ reached < cursor THEN cursor ELSE reached
  /\ redone' =
       CASE ByHandler /\ cursor < reached -> redone \cup {e \in Events : \E d \in Redrawn : mirror'[d] = mirror'[e]}
         [] ByHandler /\ cursor >= reached -> IF Brought = {work.found} THEN redone \ Brought ELSE redone
         [] OTHER                          -> redone \ Redrawn

PollStep == PollsMove /\ UNCHANGED <<site, server, channel, records, bot, pasts>>
Handler == \/ Takes \/ PostNew \/ RecordPost \/ RecordAnnouncement \/ FindAnnouncement
           \/ Edit \/ RecordEdit \/ Notice \/ RecordNotice
Board(h) == \/ \E e \in Events, act \in Acts : Presses(h, e, act)
            \/ Refused(h) \/ Changes(h) \/ PostsAgain(h) \/ RecordsAgain(h)
Website == \/ Publishes \/ PublishesSeries \/ SeriesChanged \/ SeriesDeleted
           \/ \E e \in Events : Deleted(e)

Moves == \/ PollStep \/ CreatesRepeat \/ Website \/ Manages \/ Handler \/ AnnouncementFault \/ Stops
         \/ \E h \in Hands : Board(h)
Next == Moves /\ Remembers
Spec == Init /\ [][Next]_vars

-----------------------------------------------------------------------------
TypeOK ==
  /\ PollsTypeOK
  /\ \A e \in Events : event[e].state \in {"none", "on", "gone"} /\ mirror[e] \in 0..Len(messages)
  /\ features \subseteq {"new", "changes"} /\ {follows, bound, shut} \subseteq BOOLEAN
  /\ work.step \in {"idle", "post", "recordPost", "recordRow", "find", "edit", "recordEdit", "notice", "recordNotice"}
  /\ \A h \in Hands : hand[h].step \in {"idle", "act", "record"} /\ hand[h].act \in Acts \cup {"none"}
  /\ Range(notices) \subseteq DOMAIN outbox /\ reached \in 0..Len(outbox) /\ redone \subseteq Events
  /\ crossed \subseteq DOMAIN messages /\ unheard \subseteq Events

\* Nothing is under way that would still change what is read.
Rests == cursor = Len(outbox) /\ work.step = "idle" /\ \A h \in Hands : hand[h].step # "record"
\* The announcement of a meeting, where it can still be kept current and no
\* change was passed over.
Kept == {e \in Events : /\ mirror[e] # 0 /\ ~shut /\ e \notin unheard
                        /\ ~messages[mirror[e]].gone /\ mirror[e] \notin crossed}
ShownOf(e) == messages[mirror[e]].shows

\* What is shown is so: the event or the series as it is now, that it is
\* internal, or that it was removed.  The last word is that of the latest
\* change, so that a cancelled internal event may show either; and a series
\* announced again after a failure may be recorded for another meeting than the
\* one it was drawn from, if that one was deleted in between.  A meeting that was
\* posted by hand shows the series once the series has changed, drawn from the
\* first of its meetings, which that one need not be.
IsSo(e, shows) ==
  CASE shows.what = "removed"  -> event[e].state = "gone"
    [] shows.what = "internal" -> event[e].state = "on" /\ event[e].private
    [] shows.what = "event"    -> /\ shows.of = e /\ shows.event = event[e]
                                  /\ event[e].private => event[e].cancelled
    [] shows.what = "series"   -> IF shows.of = e THEN shows.event = event[e] /\ shows.pattern = pattern
                                                  ELSE \/ faults > 0
                                                       \/ messages[mirror[e]].entry = 0 /\ shows.pattern = pattern
    [] OTHER                   -> FALSE

\* An announcement describes the event as it is now (announce/handlers.ts:35-36),
\* unless a repost crossed a change, or entries taken again have redone it: what
\* was posted for one of them is put back in the place of a later message
\* (handlers.ts:166-170), or one that was passed over is drawn only now, and the
\* changes that were brought to the channel before are not brought again (:199).
\* What was new or moved is said once (announce/handlers.ts:51-53), unless a step
\* failed, however often its entry is taken, and said at all, unless the channel
\* was closed.
ToldOnce == \A n \in DOMAIN outbox :
  /\ Cardinality({m \in DOMAIN messages : messages[m].entry = n}) <= 1 + faults
  /\ Cardinality({i \in DOMAIN notices : notices[i] = n}) <= 1 + faults
NoticesFollow == \A d \in delivered : \/ d.purpose # "edit" \/ ~HasNotice(outbox[d.entry]) \/ shut
                                     \/ outbox[d.entry].of \in unheard \/ d.entry > cursor
                                     \/ d.entry \in Range(notices)
AnnouncementsTell ==
  /\ Rests => \A e \in Kept \ redone : IsSo(e, ShownOf(e))
  /\ ToldOnce
  /\ NoticesFollow

\* An event marked internal keeps none of its details in a channel the whole
\* server reads (announce/handlers.ts:427-431).
InternalKeepsNoDetails ==
  Rests => \A e \in Kept : event[e].state = "on" /\ event[e].private => ShownOf(e).what = "internal"
=============================================================================
