---------------------------- MODULE PersonalFeed ----------------------------
(***************************************************************************)
(* What the bot holds for one person (feed/store.ts, feed/interestMarks.ts) *)
(* under those who write it and act on it: the person's own presses, two   *)
(* of which may be under way at once (commands/feed.ts, events.ts,         *)
(* midterms.ts, feedback.ts, unlink.ts, mirror/interest.ts); the choices   *)
(* made on the website, which arrive through the outbox (feed/optIns.ts,   *)
(* identity/links.ts, the cancellations and the exams of announce/); and   *)
(* the jobs that write to the person (jobs/personalReminders.ts,           *)
(* personalDigest.ts, examReminders.ts, feedback.ts).                      *)
(*                                                                         *)
(* Each is an actor working through the steps of one operation, a step     *)
(* ending at an await after which another actor may write.                 *)
(***************************************************************************)
EXTENDS Naturals, Sequences, FiniteSets

CONSTANTS
  Presses,   \* the interactions of the person that may be under way at once
  Rsos,      \* the organizations
  Events,    \* the events of VIA, all of which begin at Start
  Start,     \* the hour they begin; they are over by the next one
  Scenes,    \* what happens: [verbs, presses, asks, site, happenings, jobs, collects,
             \* faults], the verbs the person presses and how often, what the website
             \* and the world do and how often, the jobs that write, whether the
             \* server of the organization collects feedback, and what may fail
  MaxIds,    \* bound on the identifiers of reminders
  MaxFaults  \* bound on failed calls, lost answers and crashes

ASSUME FeedAssumption ==
  /\ Start \in Nat \ {0, 1}
  /\ MaxIds \in Nat \ {0}
  /\ MaxFaults \in 0..4  \* fewer than an entry has attempts
  /\ \A s \in Scenes : s.presses \subseteq Presses /\ s.asks \in Nat /\ s.happenings \in Nat
                       /\ s.faults \in 0..MaxFaults

Job == "job"
Handler == "handler"
Actors == Presses \cup {Job, Handler}
Morning == Start + 1
Exam == "exam"
All == "every organization"
NoCalendar == {"no calendar"}

\* A delivery is one purpose for this person, of no outbox entry or of one.
Entries == 1..3
Key == ({"reminder", "feedback"} \X Events) \cup ({"digest", "exam"} \X {Exam})
         \cup ({"entry"} \X Entries)

Default == [row |-> FALSE, closed |-> FALSE, quiet |-> FALSE, all |-> FALSE, lead |-> 1, hour |-> 1]
Leads == {1, 2}
Hours == {1, 2}

Blank == [key |-> <<"digest", Exam>>, due |-> {}, id |-> 0, event |-> Exam, prefs |-> Default,
          set |-> {}, web |-> [follows |-> {}, reminders |-> {}], marked |-> FALSE]
Idle == [op |-> "none", on |-> Exam, want |-> FALSE, todo |-> <<>>, saw |-> Blank]

VARIABLES
  prefs,      \* User_Preferences
  follows,    \* Subscriptions: the organizations followed one by one
  reminders,  \* Reminders: [id, event, at]
  course,     \* User_Courses: whether the course of the exam was added
  marks,      \* Interest_Marks: the events interest was marked in
  rows,       \* Deliveries, by key: "absent", "owed" or "done"
  lastId,     \* the identifiers of reminders given so far
  linked,     \* VIA: whether the Discord account is linked
  event,      \* VIA: each event "standing", "cancelled" or "gone"
  interest,   \* VIA: the events the person is interested in
  mirror,     \* VIA: what the website shows as followed and to be reminded of
  calendar,   \* VIA: the organizations the personal calendar carries
  accepts,    \* Discord: whether the person takes direct messages
  outbox,     \* the entries not yet finished: [kind, on, want, n]
  now,        \* the hour
  ran,        \* the jobs that have run in this hour
  hand,       \* what each actor is at: its operation, steps and readings
  scene, asks, written, happenings, faults,
  sent,       \* history: how often each message went out
  heard,      \* history: who has since it began seen the person linked, and listening
  strayed,    \* history: what a deletion of everything that was straddled may have left
  apart,      \* history: the copies on VIA that nothing has been told of a change
  turned,     \* history: the events whose reminder Discord turned away
  promised    \* history: the events a reminder was set for in good time

table    == <<prefs, follows, reminders, course, marks, rows, lastId>>
via      == <<linked, event, interest, mirror, calendar, accepts, outbox>>
clock    == <<now, ran>>
budget   == <<scene, asks, written, happenings, faults, sent>>
history  == <<heard, strayed, apart, turned, promised>>
vars == <<table, via, clock, hand, budget, history>>

-----------------------------------------------------------------------------
\* The operations, step by step.

SendsCalendar == <<"calRead", "calSend">>
PreferencesFirst == <<"delPrefs", "delFollows", "delReminders", "delCourse", "delMarks">>
Forgetting == <<"delFollows", "delPrefs", "delReminders", "delCourse", "delMarks">>
Reporting == <<"repRead", "repSend", "advance">>
Writing == <<"prefs", "link", "intend", "deliver", "record">>

\* What the person presses.
FollowSteps == <<"link", "ensureRow", "follow">> \o SendsCalendar
UnfollowSteps == <<"link", "unfollow">> \o SendsCalendar
FollowAllSteps == <<"link", "setAll">> \o SendsCalendar
CalendarSteps == <<"link", "calRead", "calCreate">>
RemindSteps == <<"link", "event", "toggle">>
ForgetSteps == <<"link", "find", "delete">>
SettingSteps == <<"link", "prefs", "save">>
CourseSteps(added) == (IF added THEN <<"link", "ensureRow">> ELSE <<"link">>) \o <<"setCourse">>
InterestSteps == <<"link", "hasMark", "event", "setInterest", "writeMark">>
SignalSteps == <<"setInterest", "writeMark">>
StopSteps == <<"save">>
UnlinkSteps == <<"viaUnlink">> \o Forgetting

\* What the outbox carries.
SiteFollowSteps(want) == (IF want THEN <<"ensureRow", "follow">> ELSE <<"unfollow">>) \o Reporting
SiteRemindSteps(want) ==
  (IF want THEN <<"event", "prefs", "ensureRow", "addReminder">> ELSE <<"find", "delete">>) \o Reporting
CompletedSteps == <<"intend", "deliver", "record", "advance">>
RevokedSteps == Forgetting \o <<"advance">>
CancelledSteps == <<"holders">>
ExamSteps == <<"followers">> \o Writing

\* What the jobs do.
ReminderSteps == <<"dueReminders", "nextReminder">>
DigestSteps == <<"digestDueAt", "follows", "link", "intend", "deliver", "record">>
FeedbackSteps == <<"marked", "outstanding", "nextEvent">>

Steps(op, want) ==
  CASE op = "follow"       -> FollowSteps
    [] op = "unfollow"     -> UnfollowSteps
    [] op = "all"          -> FollowAllSteps
    [] op = "calendar"     -> CalendarSteps
    [] op = "remind"       -> RemindSteps
    [] op = "forget"       -> ForgetSteps
    [] op \in {"closed", "quiet", "lead", "hour"} -> SettingSteps
    [] op = "course"       -> CourseSteps(want)
    [] op = "interest"     -> InterestSteps
    [] op = "signal"       -> SignalSteps
    [] op = "stop"         -> StopSteps
    [] op = "unlink"       -> UnlinkSteps
    [] op = "site follow"  -> SiteFollowSteps(want)
    [] op = "site remind"  -> SiteRemindSteps(want)
    [] op = "completed"    -> CompletedSteps
    [] op = "revoked"      -> RevokedSteps
    [] op = "cancelled"    -> CancelledSteps
    [] op = "exam changed" -> ExamSteps \o <<"advance">>
    [] op = "reminders"    -> ReminderSteps
    [] op = "digest"       -> DigestSteps
    [] op = "exams"        -> ExamSteps
    [] op = "feedback"     -> FeedbackSteps
    [] OTHER               -> <<>>

Busy(a) == hand[a].todo # <<>>
At(a, step) == Busy(a) /\ Head(hand[a].todo) = step
Left(a) == Tail(hand[a].todo)
SayTo(a) == hand[a].saw.event

Takes(a, op, on, want, key) ==
  /\ ~Busy(a)
  /\ hand' = [hand EXCEPT ![a] = [Idle EXCEPT !.op = op, !.on = on, !.want = want,
                                    !.todo = Steps(op, want),
                                    !.saw = [Blank EXCEPT !.key = key, !.event = on]]]

\* What the actor has left to do and knows; a job that is through has run.
Moves(a, todo, saw) ==
  /\ hand' = [hand EXCEPT ![a] = IF todo = <<>> THEN Idle
                                 ELSE [@ EXCEPT !.todo = todo, !.saw = saw]]
  /\ ran' = IF a = Job /\ todo = <<>> THEN ran \cup {hand[a].op} ELSE ran
Knowing(a, saw) == Moves(a, Left(a), saw)
Goes(a) == Knowing(a, hand[a].saw)
Turns(a, todo) == Moves(a, todo, hand[a].saw)
Drops(a) == hand' = [hand EXCEPT ![a] = Idle] /\ UNCHANGED ran

\* What is left where the person is not to be written to.
PassedOver(a) ==
  CASE hand[a].op = "reminders" -> <<"delete", "nextReminder">>
    [] hand[a].op = "cancelled" -> <<"delete", "advance">>
    [] hand[a].op \in {"exam changed", "completed"} -> <<"advance">>
    [] hand[a].op = "feedback"  -> <<"clear", "nextEvent">>
    [] OTHER -> <<>>

EventsOf(held) == {r.event : r \in held}
ForEvent(e) == {r \in reminders : r.event = e}
Carried == IF prefs.all THEN {All} ELSE follows

Init ==
  /\ prefs = Default /\ follows = {} /\ reminders = {} /\ course = FALSE /\ marks = {}
  /\ rows = [k \in Key |-> "absent"] /\ lastId = 0
  /\ linked = TRUE /\ event = [e \in Events |-> "standing"] /\ interest = {}
  /\ mirror = [follows |-> {}, reminders |-> {}] /\ calendar = NoCalendar
  /\ accepts = TRUE /\ outbox = <<>>
  /\ now = 0 /\ ran = {}
  /\ hand = [a \in Actors |-> Idle]
  /\ scene \in Scenes
  /\ asks = 0 /\ written = 0 /\ happenings = 0 /\ faults = 0
  /\ sent = [k \in Key |-> 0] /\ heard = {} /\ strayed = {} /\ apart = {}
  /\ turned = {} /\ promised = {}

-----------------------------------------------------------------------------
\* Who takes up what.

Offers ==
  ({"follow", "unfollow"} \X Rsos) \cup ({"remind", "forget", "interest", "signal"} \X Events)
    \cup ({"all", "calendar", "closed", "quiet", "stop", "course", "unlink"} \X {Exam})
    \cup ({"lead"} \X Leads) \cup ({"hour"} \X Hours)

Presses_(p) ==
  /\ p \in scene.presses /\ asks < scene.asks /\ ~Busy(p)
  /\ \E offer \in {o \in Offers : o[1] \in scene.verbs}, want \in BOOLEAN :
    /\ want \/ offer[1] \in {"all", "course", "signal"}
    /\ Takes(p, offer[1], offer[2], want, Blank.key)
    /\ asks' = asks + 1
    /\ UNCHANGED <<table, via, clock, scene, written, happenings, faults, sent>>

Handles ==
  /\ outbox # <<>>
  /\ LET entry == Head(outbox) IN
     Takes(Handler, entry.kind, entry.on, entry.want, <<"entry", entry.n>>)
  /\ UNCHANGED <<table, via, clock, budget>>

\* The jobs of the scheduler that write to people, in its order.
JobList == <<"digest", "reminders", "exams", "feedback">>
Jobs == {job \in scene.jobs : job = "feedback" => now = Morning}
Before(job) == {other \in Jobs : \E m, n \in DOMAIN JobList :
                                  m < n /\ JobList[m] = other /\ JobList[n] = job}

Starts ==
  \E job \in Jobs \ ran :
    /\ Before(job) \subseteq ran
    /\ Takes(Job, job, Exam, TRUE, IF job = "exams" THEN <<"exam", Exam>> ELSE <<"digest", Exam>>)
    /\ UNCHANGED <<table, via, clock, budget>>

-----------------------------------------------------------------------------
\* The reads.

Link(a) ==
  /\ At(a, "link")
  /\ IF ~linked THEN Turns(a, PassedOver(a))
     ELSE IF hand[a].op = "exams" /\ now < Start - hand[a].saw.prefs.lead THEN Turns(a, PassedOver(a))
     ELSE Goes(a)
  /\ UNCHANGED <<table, via, now, budget>>

\* The jobs and the cancellation ask whether the person takes messages at all.
RefusesTheQuiet(a, held) == hand[a].op = "feedback" /\ held.quiet
Refuses(a, held) == held.closed \/ (hand[a].op = "feedback" /\ held.quiet)

ReadPreferences(a) ==
  /\ At(a, "prefs")
  /\ IF a \in Presses \/ hand[a].op = "site remind" \/ ~Refuses(a, prefs)
     THEN Knowing(a, [hand[a].saw EXCEPT !.prefs = prefs])
     ELSE Turns(a, PassedOver(a))
  /\ UNCHANGED <<table, via, now, budget>>

\* The event may be gone, cancelled, or have begun.
ReadEvent(a) ==
  /\ At(a, "event")
  /\ LET e == SayTo(a)
         over == hand[a].op = "reminders" /\ (event[e] = "cancelled" \/ now >= Start)
     IN IF event[e] # "gone" /\ ~over THEN Goes(a)
        ELSE IF hand[a].op = "site remind" THEN Turns(a, <<"advance">>)
        ELSE Turns(a, PassedOver(a))
  /\ UNCHANGED <<table, via, now, budget>>

\* The button on the card takes a reminder back where there is one.
Toggle(a) ==
  /\ At(a, "toggle")
  /\ Turns(a, IF ForEvent(SayTo(a)) # {} THEN <<"find", "delete">>
              ELSE <<"prefs", "ensureRow", "addReminder">>)
  /\ UNCHANGED <<table, via, now, budget>>

\* The row is found first, and deleted by its identifier.
Find(a) ==
  /\ At(a, "find")
  /\ IF ForEvent(SayTo(a)) = {} THEN Turns(a, Tail(Left(a)))
     ELSE \E r \in ForEvent(SayTo(a)) : Knowing(a, [hand[a].saw EXCEPT !.id = r.id])
  /\ UNCHANGED <<table, via, now, budget>>

HasMark(a) ==
  /\ At(a, "hasMark")
  /\ Knowing(a, [hand[a].saw EXCEPT !.marked = SayTo(a) \in marks])
  /\ UNCHANGED <<table, via, now, budget>>

ReadCarried(a) ==
  /\ At(a, "calRead")
  /\ Knowing(a, [hand[a].saw EXCEPT !.set = Carried])
  /\ UNCHANGED <<table, via, now, budget>>

ReadReport(a) ==
  /\ At(a, "repRead")
  /\ Knowing(a, [hand[a].saw EXCEPT !.web =
                   [follows |-> follows, reminders |-> EventsOf(reminders)]])
  /\ UNCHANGED <<table, via, now, budget>>

DueLater == {r \in reminders : r.at < now}
DueReminders == {r \in reminders : r.at <= now}

ReadDue(a) ==
  /\ At(a, "dueReminders")
  /\ Knowing(a, [hand[a].saw EXCEPT !.due = DueReminders])
  /\ UNCHANGED <<table, via, now, budget>>

\* The reminders of the pass, or of a cancelled event, one after the other.
TakesReminder(a, r, key, todo, due) ==
  Moves(a, todo, [hand[a].saw EXCEPT !.due = due, !.id = r.id, !.event = r.event, !.key = key])

NextReminder(a) ==
  /\ At(a, "nextReminder")
  /\ LET due == hand[a].saw.due IN
     IF due = {} THEN Goes(a)
     ELSE \E r \in due : TakesReminder(a, r, <<"reminder", r.event>>,
                           <<"event">> \o Writing \o <<"delete", "nextReminder">>, due \ {r})
  /\ UNCHANGED <<table, via, now, budget>>

Holders(a) ==
  /\ At(a, "holders")
  /\ IF ForEvent(hand[a].on) = {} THEN Turns(a, <<"advance">>)
     ELSE \E r \in ForEvent(hand[a].on) :
            TakesReminder(a, r, hand[a].saw.key, Writing \o <<"delete", "advance">>, {})
  /\ UNCHANGED <<table, via, now, budget>>

Followers(a) ==
  /\ At(a, "followers")
  /\ IF course /\ (a = Job => now < Start) THEN Goes(a) ELSE Turns(a, PassedOver(a))
  /\ UNCHANGED <<table, via, now, budget>>

\* The digest finds the person through the row of preferences.
DigestDue == prefs.row /\ ~prefs.closed /\ prefs.hour = now

DigestDueAt(a) ==
  /\ At(a, "digestDueAt")
  /\ IF DigestDue THEN Goes(a) ELSE Turns(a, PassedOver(a))
  /\ UNCHANGED <<table, via, now, budget>>

ReadFollows(a) ==
  /\ At(a, "follows")
  /\ IF prefs.all \/ follows # {} THEN Goes(a) ELSE Turns(a, PassedOver(a))
  /\ UNCHANGED <<table, via, now, budget>>

\* Whom to ask for feedback: the marks, and the reminders still outstanding.
Candidates(a) ==
  /\ \/ At(a, "marked") /\ Knowing(a, [hand[a].saw EXCEPT !.set = marks])
     \/ At(a, "outstanding") /\ Knowing(a, [hand[a].saw EXCEPT !.set = @ \cup EventsOf(reminders)])
  /\ UNCHANGED <<table, via, now, budget>>

NextEvent(a) ==
  /\ At(a, "nextEvent")
  /\ LET left == hand[a].saw.set IN
     IF left = {} THEN Goes(a)
     ELSE \E e \in left :
       Moves(a, (IF event[e] = "standing" /\ scene.collects
                 THEN <<"prefs", "link", "event", "intend", "deliver", "record">> ELSE <<>>)
                  \o <<"clear", "nextEvent">>,
             [hand[a].saw EXCEPT !.set = left \ {e}, !.event = e, !.key = <<"feedback", e>>])
  /\ UNCHANGED <<table, via, now, budget>>

-----------------------------------------------------------------------------
\* The writes of the bot's tables.

EnsureRow(a) ==
  /\ At(a, "ensureRow")
  /\ prefs' = [prefs EXCEPT !.row = TRUE]
  /\ Goes(a)
  /\ UNCHANGED <<follows, reminders, course, marks, rows, lastId, via, now, budget>>

Follow(a) ==
  /\ \/ At(a, "follow") /\ follows' = follows \cup {hand[a].on}
     \/ At(a, "unfollow") /\ follows' = follows \ {hand[a].on}
  /\ Goes(a)
  /\ UNCHANGED <<prefs, reminders, course, marks, rows, lastId, via, now, budget>>

\* One setting is written, whatever the others have become since they were read.
Saved(a) ==
  LET held == hand[a].saw.prefs   kept == [prefs EXCEPT !.row = TRUE] IN
  CASE hand[a].op = "closed" -> [kept EXCEPT !.closed = ~held.closed]
    [] hand[a].op = "quiet"  -> [kept EXCEPT !.quiet = ~held.quiet]
    [] hand[a].op = "stop"   -> [kept EXCEPT !.quiet = TRUE]
    [] hand[a].op = "lead"   -> [kept EXCEPT !.lead = hand[a].on]
    [] OTHER                 -> [kept EXCEPT !.hour = hand[a].on]

Save(a) ==
  /\ \/ At(a, "save") /\ prefs' = Saved(a)
     \/ At(a, "setAll") /\ prefs' = [prefs EXCEPT !.row = TRUE, !.all = hand[a].want]
     \/ At(a, "closeToBot") /\ prefs' = [prefs EXCEPT !.row = TRUE, !.closed = TRUE]
  /\ Goes(a)
  /\ UNCHANGED <<follows, reminders, course, marks, rows, lastId, via, now, budget>>

SetCourse(a) ==
  /\ At(a, "setCourse")
  /\ course' = hand[a].want
  /\ Goes(a)
  /\ UNCHANGED <<prefs, follows, reminders, marks, rows, lastId, via, now, budget>>

NeverAsked(e) == FALSE
AskedBefore(e) == ForEvent(e) # {}

\* Asked for twice, a reminder is one reminder, at the new time.
AddReminder(a) ==
  LET e == SayTo(a)   at == Start - hand[a].saw.prefs.lead IN
  /\ At(a, "addReminder")
  /\ IF AskedBefore(e)
     THEN /\ reminders' = {IF r.event = e THEN [r EXCEPT !.at = at] ELSE r : r \in reminders}
          /\ UNCHANGED lastId
     ELSE /\ lastId < MaxIds
          /\ lastId' = lastId + 1
          /\ reminders' = reminders \cup {[id |-> lastId', event |-> e, at |-> at]}
  /\ Goes(a)
  /\ UNCHANGED <<prefs, follows, course, marks, rows, via, now, budget>>

RemindersRead(a) == {r \in reminders : r.id = hand[a].saw.id}

DeleteReminder(a) ==
  /\ At(a, "delete")
  /\ reminders' = reminders \ RemindersRead(a)
  /\ Goes(a)
  /\ UNCHANGED <<prefs, follows, course, marks, rows, lastId, via, now, budget>>

WriteMark(a) ==
  /\ \/ /\ At(a, "writeMark")
        /\ LET wanted == IF hand[a].op = "interest" THEN ~hand[a].saw.marked ELSE hand[a].want
           IN marks' = IF wanted THEN marks \cup {SayTo(a)} ELSE marks \ {SayTo(a)}
     \/ At(a, "clear") /\ marks' = marks \ {SayTo(a)}
  /\ Goes(a)
  /\ UNCHANGED <<prefs, follows, reminders, course, rows, lastId, via, now, budget>>

\* Everything held for the person, table by table.
Forget(a) ==
  /\ \/ /\ At(a, "delFollows") /\ follows' = {}
        /\ UNCHANGED <<prefs, reminders, course, marks>>
     \/ /\ At(a, "delPrefs") /\ prefs' = Default
        /\ UNCHANGED <<follows, reminders, course, marks>>
     \/ /\ At(a, "delReminders") /\ reminders' = {}
        /\ UNCHANGED <<prefs, follows, course, marks>>
     \/ /\ At(a, "delCourse") /\ course' = FALSE
        /\ UNCHANGED <<prefs, follows, reminders, marks>>
     \/ /\ At(a, "delMarks") /\ marks' = {}
        /\ UNCHANGED <<prefs, follows, reminders, course>>
  /\ Goes(a)
  /\ UNCHANGED <<rows, lastId, via, now, budget>>

-----------------------------------------------------------------------------
\* The messages.

Settled(key) == rows[key] = "done"

Intend(a) ==
  /\ At(a, "intend")
  /\ LET key == hand[a].saw.key IN
     IF Settled(key) THEN Turns(a, PassedOver(a)) /\ UNCHANGED rows
     ELSE rows' = [rows EXCEPT ![key] = "owed"] /\ Goes(a)
  /\ UNCHANGED <<prefs, follows, reminders, course, marks, lastId, via, now, budget>>

\* Somebody who takes no messages is not tried again, and is taken to have
\* turned them off, but where the message confirms a link.
Deliver(a) ==
  /\ At(a, "deliver")
  /\ IF accepts \/ hand[a].op = "completed" THEN Goes(a)
     ELSE Turns(a, <<"closeToBot">> \o Left(a))
  /\ sent' = [sent EXCEPT ![hand[a].saw.key] = IF accepts THEN @ + 1 ELSE @]
  /\ UNCHANGED <<table, via, now, scene, asks, written, happenings, faults>>

\* The row of an intention that a crash has left is found by its key.
Record(a) ==
  /\ At(a, "record")
  /\ rows' = [rows EXCEPT ![hand[a].saw.key] = "done"]
  /\ Goes(a)
  /\ UNCHANGED <<prefs, follows, reminders, course, marks, lastId, via, now, budget>>

-----------------------------------------------------------------------------
\* The calls that change VIA.

SendCarried(a) ==
  /\ \/ /\ At(a, "calSend") /\ Goes(a)
        /\ calendar' = IF calendar = NoCalendar THEN calendar ELSE hand[a].saw.set
     \/ /\ At(a, "calCreate") /\ Goes(a)
        /\ calendar' = IF linked THEN hand[a].saw.set ELSE calendar
  /\ UNCHANGED <<table, linked, event, interest, mirror, accepts, outbox, now, budget>>

SendReport(a) ==
  /\ At(a, "repSend")
  /\ mirror' = hand[a].saw.web
  /\ Goes(a)
  /\ UNCHANGED <<table, linked, event, interest, calendar, accepts, outbox, now, budget>>

SetInterest(a) ==
  /\ At(a, "setInterest")
  /\ LET wanted == IF hand[a].op = "interest" THEN ~hand[a].saw.marked ELSE hand[a].want
     IN interest' = IF wanted THEN interest \cup {SayTo(a)} ELSE interest \ {SayTo(a)}
  /\ Goes(a)
  /\ UNCHANGED <<table, linked, event, mirror, calendar, accepts, outbox, now, budget>>

ViaUnlink(a) ==
  /\ At(a, "viaUnlink")
  /\ linked' = FALSE
  /\ Goes(a)
  /\ UNCHANGED <<table, event, interest, mirror, calendar, accepts, outbox, now, budget>>

Advance(a) ==
  /\ At(a, "advance")
  /\ outbox' = Tail(outbox)
  /\ Goes(a)
  /\ UNCHANGED <<table, linked, event, interest, mirror, calendar, accepts, now, budget>>

-----------------------------------------------------------------------------
\* What goes wrong.  A report that fails is given up, a message that fails is
\* owed, any other failure ends the command, the handling or what the job is at.

\* What is left of an event after a failure in the feedback job.  The reads of the
\* event take a refusal or a silence of VIA for an event there is not.
LeftOfAsking(step) ==
  CASE step = "deliver"              -> {<<"clear", "nextEvent">>}
    [] step \in {"nextEvent", "event"} -> {<<"clear", "nextEvent">>, <<"nextEvent">>}
    [] OTHER                         -> {<<"nextEvent">>}

FailsToAsk(a) ==
  LET step == Head(hand[a].todo)   left == hand[a].saw.set IN
  \E todo \in LeftOfAsking(step) :
    IF step # "nextEvent" THEN Turns(a, todo)
    ELSE \E e \in left : Moves(a, todo, [hand[a].saw EXCEPT !.set = left \ {e}, !.event = e])

AfterFailure(a) ==
  LET step == Head(hand[a].todo) IN
  CASE step \in {"repRead", "repSend"} -> Turns(a, <<"advance">>)
    [] step \notin {"dueReminders", "digestDueAt", "marked", "outstanding"} /\ a = Job ->
         CASE hand[a].op = "reminders" ->
                Turns(a, IF step = "deliver" THEN <<"delete", "nextReminder">> ELSE <<"nextReminder">>)
           [] hand[a].op = "feedback" -> FailsToAsk(a)
           [] OTHER -> Turns(a, <<>>)
    [] OTHER -> Drops(a)

\* The call did nothing, or did what it was for and the answer was lost.
Fails(a) ==
  /\ faults < scene.faults /\ Busy(a)
  /\ Head(hand[a].todo) # "nextReminder"
  /\ AfterFailure(a)
  /\ \/ UNCHANGED <<linked, sent>>
     \/ /\ At(a, "deliver") /\ accepts
        /\ sent' = [sent EXCEPT ![hand[a].saw.key] = @ + 1]
        /\ UNCHANGED linked
     \/ At(a, "viaUnlink") /\ linked' = FALSE /\ UNCHANGED sent
  /\ faults' = faults + 1
  /\ UNCHANGED <<table, event, interest, mirror, calendar, accepts, outbox, now, scene, asks, written, happenings>>

Crash ==
  /\ faults < scene.faults /\ \E a \in Actors : Busy(a)
  /\ hand' = [a \in Actors |-> Idle]
  /\ faults' = faults + 1
  /\ UNCHANGED <<table, via, clock, sent, scene, asks, written, happenings>>

-----------------------------------------------------------------------------
\* The website, the person and time.

Appends(kind, on, want) ==
  /\ written < Cardinality(Entries)
  /\ outbox' = Append(outbox, [kind |-> kind, on |-> on, want |-> want, n |-> written + 1])
  /\ written' = written + 1

World(what) ==
  /\ what \in scene.site /\ happenings < scene.happenings
  /\ happenings' = happenings + 1
  /\ CASE what = "follows" ->
            /\ linked /\ \E rso \in Rsos, want \in BOOLEAN : Appends("site follow", rso, want)
            /\ UNCHANGED <<linked, event, accepts>>
       [] what = "reminds" ->
            /\ linked /\ \E e \in Events, want \in BOOLEAN : Appends("site remind", e, want)
            /\ UNCHANGED <<linked, event, accepts>>
       [] what = "unlinks" ->
            /\ linked /\ linked' = FALSE
            /\ Appends("revoked", Exam, FALSE)
            /\ UNCHANGED <<event, accepts>>
       [] what = "links" ->
            /\ ~linked /\ linked' = TRUE
            /\ Appends("completed", Exam, TRUE)
            /\ UNCHANGED <<event, accepts>>
       [] what = "cancels" ->
            /\ now < Start
            /\ \E e \in Events : /\ event[e] = "standing"
                                 /\ event' = [event EXCEPT ![e] = "cancelled"]
                                 /\ Appends("cancelled", e, FALSE)
            /\ UNCHANGED <<linked, accepts>>
       [] what = "removes" ->
            /\ \E e \in Events : event[e] # "gone" /\ event' = [event EXCEPT ![e] = "gone"]
            /\ UNCHANGED <<linked, accepts, outbox, written>>
       [] what = "moves the exam" ->
            Appends("exam changed", Exam, FALSE) /\ UNCHANGED <<linked, event, accepts>>
       [] what = "closes" ->
            accepts' = ~accepts /\ UNCHANGED <<linked, event, outbox, written>>
  /\ UNCHANGED <<table, clock, interest, mirror, calendar, hand, scene, asks, faults, sent>>

\* The bot is up through every hour, and the hour's jobs are run in it; a scene
\* without jobs is played within an hour.
Time ==
  /\ now < Morning /\ Jobs \subseteq ran /\ scene.jobs # {}
  /\ ~Busy(Job)
  /\ now' = now + 1 /\ ran' = {}
  /\ UNCHANGED <<table, via, hand, budget>>

-----------------------------------------------------------------------------
\* What is remembered of the past, for the properties.

Quiet == outbox = <<>> /\ \A a \in Actors : ~Busy(a)
Deleting(a) == Busy(a) /\ hand[a].op \in {"unlink", "revoked"}
BotSide == {"stop", "signal", "site follow", "site remind"}   \* they ask for no link
FromSite == hand[Handler].op \in {"site follow", "site remind"}
Sending(a) == At(a, "calSend") \/ At(a, "calCreate")
Stepped(a, step) == At(a, step) /\ hand'[a].todo = Left(a)

Watch ==
  /\ heard' = {<<a, fact>> \in {Job, Handler} \X {"linked", "open"} :
                 /\ Busy(a)'
                 /\ \/ Busy(a) /\ <<a, fact>> \in heard
                    \/ fact = "linked" /\ linked'
                    \/ fact = "open" /\ ~prefs'.closed}
  /\ LET crossed == \E a, b \in Actors : a # b /\ Deleting(a)' /\ Busy(b)'
         begins == \E a \in Actors : ~Busy(a) /\ Deleting(a)'
         afterwards == \E a \in Actors : ~Busy(a) /\ Busy(a)' /\ hand'[a].op \in BotSide /\ ~linked
         through == follows' = {} /\ ~\E a \in Actors : Busy(a)'
     IN strayed' = (IF crossed \/ afterwards \/ ("held" \in strayed /\ ~begins) THEN {"held"} ELSE {})
                     \cup (IF crossed \/ ("row" \in strayed /\ ~through) THEN {"row"} ELSE {})
  /\ apart' =
       LET web == IF Stepped(Handler, "repRead") THEN FALSE
                  ELSE \/ "web" \in apart
                       \/ /\ follows' # follows \/ EventsOf(reminders') # EventsOf(reminders)
                          /\ hand[Handler] = hand'[Handler] \/ ~FromSite
           reads == \E a \in Actors : Stepped(a, "calRead")
           crossing == \E a, b \in Actors : a # b /\ Sending(a)' /\ Sending(b)'
           untold == Carried' # Carried /\ \E a \in Actors : (a = Handler \/ Deleting(a)) /\ hand'[a] # hand[a]
           refused == ~linked /\ \E a \in Presses : Stepped(a, "calCreate")
           cal == crossing \/ refused \/ (~reads /\ ("calendar" \in apart \/ untold))
           failed == faults' # faults
       IN {copy \in {"web", "calendar"} : failed \/ (copy = "web" /\ web) \/ (copy = "calendar" /\ cal)}
  /\ turned' = turned \cup {e \in Events : At(Job, "deliver") /\ At(Job, "closeToBot")'
                                           /\ hand[Job].saw.key = <<"reminder", e>>}
  /\ promised' =
       IF ~linked' \/ prefs'.closed \/ ~accepts' \/ faults' > 0 THEN {}
       ELSE {e \in promised \cup (IF now < Start - 1 THEN EventsOf(reminders' \ reminders) ELSE {}) :
               /\ event'[e] = "standing" /\ e \notin turned'
               /\ \/ e \in EventsOf(reminders')
                  \/ e \notin EventsOf(reminders)
                  \/ At(Job, "delete")}

Step(a) ==
  \/ Link(a) \/ ReadPreferences(a) \/ ReadEvent(a) \/ Toggle(a) \/ Find(a) \/ HasMark(a)
  \/ ReadCarried(a) \/ ReadReport(a) \/ ReadDue(a) \/ NextReminder(a) \/ Holders(a)
  \/ Followers(a) \/ DigestDueAt(a) \/ ReadFollows(a) \/ Candidates(a) \/ NextEvent(a)
  \/ EnsureRow(a) \/ Follow(a) \/ Save(a) \/ SetCourse(a) \/ AddReminder(a) \/ DeleteReminder(a)
  \/ WriteMark(a) \/ Forget(a) \/ Intend(a) \/ Deliver(a) \/ Record(a)
  \/ SendCarried(a) \/ SendReport(a) \/ SetInterest(a) \/ ViaUnlink(a) \/ Advance(a)
  \/ Fails(a)

Happenings == {"follows", "reminds", "unlinks", "links", "cancels", "removes", "moves the exam", "closes"}

Next ==
  /\ \/ \E p \in Presses : Presses_(p)
     \/ Handles \/ Starts \/ Crash \/ Time
     \/ \E a \in Actors : Busy(a) /\ Step(a)
     \/ \E what \in Happenings : World(what)
  /\ Watch

Spec == Init /\ [][Next]_vars

-----------------------------------------------------------------------------
TypeOK ==
  /\ prefs \in [row : BOOLEAN, closed : BOOLEAN, quiet : BOOLEAN, all : BOOLEAN,
                lead : Leads, hour : Hours]
  /\ ~prefs.row => prefs = Default
  /\ follows \subseteq Rsos /\ course \in BOOLEAN /\ marks \subseteq Events
  /\ reminders \subseteq [id : 1..lastId, event : Events, at : 0..Start]
  /\ \A r, q \in reminders : r # q => r.event # q.event /\ r.id # q.id
  /\ rows \in [Key -> {"absent", "owed", "done"}] /\ lastId \in 0..MaxIds
  /\ linked \in BOOLEAN /\ accepts \in BOOLEAN
  /\ event \in [Events -> {"standing", "cancelled", "gone"}] /\ interest \subseteq Events
  /\ mirror \in [follows : SUBSET Rsos, reminders : SUBSET Events]
  /\ calendar = NoCalendar \/ calendar \subseteq Rsos \cup {All}
  /\ Len(outbox) <= Cardinality(Entries)
  /\ now \in 0..Morning /\ ran \subseteq {"reminders", "digest", "exams", "feedback"}
  /\ \A a \in Actors : Busy(a) => hand[a].op # "none"
  /\ Busy(Handler) => outbox # <<>> /\ Head(outbox).kind = hand[Handler].op
  /\ faults \in 0..MaxFaults

\* A message of one purpose goes out once, and again only for a fault, however
\* often a reminder is asked for, the entry is read and the hours are run
\* (Deliveries, and the removal of a reminder that has been dealt with).
RepeatsCostFaults == \A k \in Key : sent[k] <= 1 + faults

\* Nobody is written to who was not linked, or had turned direct messages off,
\* all the while the bot was at it; the confirmation of a link excepted
\* (the checks of every job and handler, and digestDueAt).
OnlyTheWilling ==
  [][\A k \in Key : sent'[k] > sent[k] =>
       \E a \in Actors : /\ At(a, "deliver") /\ hand[a].saw.key = k
                         /\ \/ hand[a].op = "completed"
                            \/ {<<a, "linked">>, <<a, "open">>} \subseteq heard]_vars

MessagesAreWanted == []RepeatsCostFaults /\ OnlyTheWilling

\* Once an account is unlinked, on either side, nothing is held for it: no press,
\* job or entry of the outbox that comes after puts anything back, unless it was
\* under way during the deletion or asks for no link (unlink.ts, link.revoked).
NothingIsLeft ==
  Quiet /\ ~linked /\ faults = 0 /\ "held" \notin strayed =>
    follows = {} /\ reminders = {} /\ marks = {} /\ ~course /\ ~prefs.row

\* Whoever follows something can be found by the digest, which reads the rows
\* of preferences: they are written first and deleted last, so no crash comes
\* between, only another actor (store.ts, ensureRow; unlink.ts, deleteLocalData).
FollowersAreFound == follows # {} /\ "row" \notin strayed => prefs.row

\* The copies on VIA are what the bot holds.  The website is told at every choice
\* made there, and so shows what has not been changed here since: a press, a job,
\* a cancellation and a deletion tell it nothing.  The calendar is told at every
\* press, and so carries what has not been changed from the website since, nor by a
\* deletion, where no two presses sent it at once and VIA took the last (it makes no
\* calendar for an account unlinked meanwhile).  A call that failed is made good by
\* the next (optIns.ts, report and optin.changed; feed.ts, sendCalendarSet).
CopiesAgree ==
  Quiet =>
    /\ "web" \notin apart => mirror = [follows |-> follows, reminders |-> EventsOf(reminders)]
    /\ "calendar" \notin apart /\ calendar # NoCalendar => calendar = Carried

\* What is held of a person is whole: nothing is left of an account unlinked, who
\* follows is found, and the copies agree (the three above).
KeptWhole == NothingIsLeft /\ FollowersAreFound /\ CopiesAgree

\* A reminder asked for in good time goes out before the event begins, whatever
\* is pressed, followed, moved or asked for again meanwhile (personalReminders.ts);
\* but where Discord turned one away for the event before: it was recorded as
\* delivered, and the next, however it is asked for, is taken for a repetition.
AskedIsReminded ==
  now >= Start => \A e \in promised : sent[<<"reminder", e>>] > 0

\* jobs/feedback.ts: a linked person who marked interest in an event or asked to
\* be reminded of it receives one direct message the morning after it.
RemindedIsAsked ==
  "feedback" \in ran /\ scene.collects /\ ~prefs.quiet =>
    \A e \in promised : sent[<<"feedback", e>>] > 0
=============================================================================
