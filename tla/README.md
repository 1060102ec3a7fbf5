# A TLA+ development of the VIA Illinois Discord bot

The bot keeps Discord servers and Discord accounts in step with the VIA web
platform. It is one process with a MySQL database. This directory holds
specifications of the parts where order, failure and concurrency matter, the
TLC configurations that check them on small instances, and proofs of theorems
about them that TLAPS checks. Paths below are relative to `src/src/`.

## 1. Inventory

### The parts, their state and their operations

| Part | State | Operations | Module |
|---|---|---|---|
| Outbox consumer (`outbox/consumer.ts`, `outbox/cursor.ts`) | `Outbox_Cursor` row; attempts per entry, in memory | poll a page of 50 after the cursor, run the handler of each entry in order, advance the cursor, give up after 5 failures | `OutboxConsumer` |
| Deliveries (`delivery/deliveries.ts`) | a row per outbox entry, target and purpose; owed, or posted with the message | `intend`, `recordPosted`, `abandon`, `pending`, `pruneBefore` | every module that posts |
| Announcements (`announce/handlers.ts`, `mirror/eventMirrors.ts`) | announcement columns of `Event_Mirrors` | announce, edit, give notice; the board's moves, cancellations, switches and repeated posts (`commands/admin.ts`) | `Announcements` |
| Polls and repeats (`commands/scheduler.ts`, `scheduler/*.ts`, `jobs/schedulerPolls.ts`) | `Scheduler_Polls`; what buttons carry | recommend, ask in a poll, close it, accept an evening, create a repeat | `MeetingPolls` |
| Living message (`announce/thisWeek.ts`) | `Guild_Messages` (`thisweek`) | refresh: edit in place, post first, post a replacement, pin | `LivingMessage` |
| Events tab (`mirror/scheduledEvents.ts`, `jobs/mirrorWindow.ts`) | `Event_Mirrors.scheduled_event_id` | `apply` an event, `remove`, roll every server once a day | `ScheduledEventMirror` |
| Job scheduler and server digest (`jobs/scheduler.ts`, `jobs/runs.ts`, `jobs/guildDigest.ts`) | `Job_Runs`; the pinned digest | hourly jobs caught up in order; post, unpin, pin | `ScheduledDigest` |
| Membership roles (`roles/*.ts`, `announce/membership.ts`, `jobs/roleReconcile.ts`) | `Role_Grants`; NetID directory, in memory, one hour | `apply` a membership to a person in a server | `MembershipRoles` |
| A server (`guilds/*.ts`, `commands/setup.ts`) | `Guild_Installations`, channels, features, follows | answer a panel of setup, bind and report, disconnect, leave, switch off what has no channel | `ServerSetup`, `FeatureRegistry` |
| A person (`feed/*.ts`, `commands/feed.ts`, `commands/unlink.ts`, `identity/links.ts`, `mirror/interest.ts`, the personal jobs) | `Subscriptions`, `User_Preferences`, `Reminders`, `User_Courses`, `Interest_Marks` | follow, remind, be interested, link, unlink; reminders, digest, exams and the question after an event | `PersonalFeed` |
| An interaction (`commands/index.ts`, `ratelimit/windows.ts`, `discord/adapter.ts`, `via/cache.ts`) | `Rate_Windows`; reads held for a minute, in memory | dispatch, limit, acknowledge, answer; read through, drop | `Requests` |
| Rendering, configuration, health | none of their own | conversions | none |

### How they interact

`index.ts` starts three loops in one process: the consumer (every five
seconds), the mirror window (every day) and the job scheduler (every five
minutes). Beside them the gateway calls back for commands, joins, removals and
interest signals. Nothing locks: between two awaits of one loop any other may
run. The loops meet in the database and in Discord, whose calls may fail, may
be refused, or may succeed without the answer arriving. What the web platform
shows of a server or a person is a copy that the bot reports; what people
choose on the website arrives through the outbox. A restart forgets what was in
memory, drains what is owed by putting the cursor back, and goes on.

### What is hard

- A post and its record are two steps, so a crash between them repeats a post.
- The outbox is read at least once: pages, rewinds and failed writes of the
  cursor serve entries again, and a replayed entry meets newer state.
- Two loops apply the same event, message or membership, each between its own
  read and its own write; two people answer the same panel.
- A button, a form or a poll carries what was so on the day it was drawn.
- Deletions, edits and permissions change by hand under calls in flight.
- Campus readings repeat an hour once a year; catch up is bounded.
- One server or person of many fails and the rest go on, so something is
  written down as done that is not.
- A call to VIA may be carried out and its answer lost.

`PROJECT.json` lists the hazards that matter most at their lines, with the
properties that watch for each.

## 2. The modules

Each constant has a named assumption. A budget of faults (`MaxFaults`, or the
`faults` of a scene) bounds how often something may fail, and a property that
holds only in the absence of faults says so with the budget in it
(`1 + faults`): this is what tells "exactly once" from "once more for each
failure".

In the larger modules TLC starts from one of several *scenes*: records that
say who takes part, what may happen and how often. A scene only bounds the
behaviours; it never changes what an action does. Variables marked *history*
in a module are read by properties (and by nothing else), most of them to say
whether two actors were at the same thing at once.

### OutboxConsumer, OutboxPromise (and OutboxConsumerProofs, MCOutboxConsumer)

The consumer, the deliveries of its entries and the parts of housekeeping that
move its cursor. An entry has targets; which of them a handling meets is
chosen anew each time, since the audience is read from the database.
`Poll`, `Begin`, `Intend`, `Post`, `RecordPosted`, `MissingAccess`/`Abandon`,
`HandlerReturns`, `HandlerThrew`, `Advance` follow the code from await to
await. `Crash`, `Start`, `DrainPending`, `AdvanceFails`, `CallFails`,
`AnswerLost` are the failures, `PoisonedPost` a target that is refused every
time, `StampRead`/`StampWrite` the daily re-stamp. `OutboxPromise` says in a
page what all that is for: entries are finished in the order they were written,
a post is only made for an entry whose predecessors are all finished, and a
delivery is recorded only after it was made and never made again once it is.
The consumer implements it with its posts, the rows that say posted and the
entries passed as the refinement mapping.

### ScheduledEventMirror (ScheduledEventMirrorProofs)

One event in one server under two actors, `consumer` and `roll`, which both run
`apply` one await at a time: feature, mirror row, permission, then delete, edit
or create. The consumer alone writes a delivery row. Versions of the event are
numbered by its entries, and `tab[i]` is the version a scheduled event shows.
Hazards are switched on by a constant, and `struck` is history: which kinds of
them a behaviour has met, so that each property says what it survives.

### ScheduledDigest (ScheduledDigestProofs, MCScheduledDigest)

The scheduler and `Job_Runs`, with the digest of every server as its job. Hours
are instants; what is stored is a reading, and `Fold` is the hour whose reading
the next one repeats. A server wants its digest at some readings; each reading
stands for the day that the delivery is keyed by. Within an hour the servers
come one by one: channel, intention, post, record, unpin, pin, remember.

### LivingMessage (LivingMessageProofs, MCLivingMessage)

`refresh` of one server as two loops call it, the hourly job again and again
and the handlers once per entry, with channels rebound and closed, messages
deleted by hand, crashes, failures and lost answers. Messages have identifiers,
the channel they are in and the week they show. A scene says which loops run and
how often a channel is bound anew.

### MembershipRoles (MembershipRolesProofs, MCMembershipRoles)

One person in one server bound to one organization. Three actors call `apply`:
the outbox handlers, the reconciliation and the unlink command. The world
changes memberships, links, mappings, the feature, the permission and what the
person has by hand, or the person leaves and comes back. `byHand`, `asked`
and `happened` are history: which roles the person has from somebody else,
which the bot ever gave, and what kinds of change the world has made.

### ServerSetup, FeatureRegistry (ServerSetupProofs, MCServerSetup)

What the bot holds for one server: `installed`, `kind`, `binding`, `timing`,
`followed`, `channels`, `changes` are the columns and tables of
`guilds/store.ts`; `dashboard` is the copy VIA keeps. An actor has an operation
and the steps it has left (`Steps(op)`, one per await), and each step is an
action: `read` creates the row if it is missing, `readBinding` and `report` are
`guilds/binding.ts`, `bindSet`, `unfollow` and `follow` the three statements of
`setFollowedRsos`, `readInstruction` and `disconnect` the handler of
`guild.unbound`, `isEnabled` to `recordNotice` a post that finds no channel.
`panel` is what the walker has in front of them, and `Offers` what can be
pressed on it. `FeatureRegistry` is the registry as data: category, default,
permissions, purposes and tier of each feature.

### PersonalFeed (MCPersonalFeed)

What the bot holds for one person, under presses of theirs (two at once), the
outbox handler, and the jobs that write to people, hour by hour until the
morning after the event. As in `ServerSetup` an operation is a sequence of
steps, one per await. `rows` are the deliveries by key; a key has the person
and the event, or the entry. VIA is in the model as far as the bot reads it:
whether the account is linked, the events, the interest, and the two copies
(`mirror`, `calendar`). `apart` is history: the copies that something has changed
under which nothing told, and `turned` the events whose reminder Discord turned
away, which counts as delivered. In the feedback job a read of the event that
VIA refuses or does not answer is an event there is not, so its marks go; any
other failure keeps them (`LeftOfAsking`).

### Requests (RequestsProofs, MCRequests)

Interactions on their way through the dispatcher: the switch of the server, the
windows of the person, of their typing and of the server, read in one step and
counted in another, the acknowledgement, the handler with its read through the
cache, and the answer. `shown` is what Discord has of the interaction, so that a
call it would refuse in that state is seen. The cache holds a version of each
read until a minute; the consumer drops what an entry concerns. The sum of the
rows of a window is the number of marks in it (`Marks`, one for each command
counted), and the order of use of the cache a sequence without repeats
(`Among`): both are forms that the proofs can count with. A window is
bounded by scenes of few interactions against limits of one or two.

### MeetingPolls, Announcements (AnnouncementsProofs, MCAnnouncements)

`MeetingPolls` is the life of a recommendation: VIA answers with evenings and
scores that change; buttons carry an evening with its rounded score
(`ProposalOf`); a poll is posted and then written down; the pass of the job
reads, posts the result and records; an accepted evening is looked for again in
a fresh answer, and the form that names it creates the repeat. Creating is a
request (`call`): VIA may do it, refuse, or be busy once or twice. Its answer may
be lost, which the person is told as "did not answer", or be cut off as its body is
read, which ends as a general failure, and the bot may stop in the middle
(`PollsStop`), which tells nobody anything: `told` counts each, so that
`AnswersAreTrue` can say that no repeat goes untold for any other reason.

`Announcements` extends it with what one server reads: the outbox with the event
as each entry carried it, the handler with the step it is at, the row that says
which message is the announcement, and the presses of a board, each beginning
with a reading. `CreatesRepeat` composes the two: the repeat that a request of
`MeetingPolls` creates is a series whose entry the handlers announce.
The cursor goes back as it does in `OutboxConsumer`: a start of the bot puts it at
the oldest entry owed, to whatever server or person, so at any entry before it
(`Stops`), and the re-stamp writes an older value (`AnnouncementFault`). Entries
already handled are then taken again against what has happened since; a settled
post writes its message back into the row, a settled edit does nothing.
`reached` and `redone` are history: how far the handler had come when the cursor
went back, and which meetings an entry taken again has since given another
announcement or another look, until one that is taken for the first time is
brought to it.

## 3. The runs

Runs that pass:

| Run | Shows | Bounds |
|---|---|---|
| `consumer` | order, repeats, the cursor, the drain and the refinement under every fault; a post refused every time stops nothing behind it for ever, and what is owed behind the cursor was given up on | 3 entries, pages of 2, 2 targets, 3 attempts, 2 faults, 1 re-stamp; a rewind past a page boundary with an entry in hand happens |
| `mirror` | with nothing wrong and no two applies at once the tab holds the event once and as it stands; the identifier held is good across crashes; an orphan costs a fault, giving up as many as attempts; the roll repairs what it knows of | 4 entries for the consumer alone, 3 beside the roll, 2 faults of any kind, fair |
| `digest` | repeats and pins cost faults, hours run in order, none is left out within the reach of a catch up, none but the repeated one runs again | 2 servers, 4 hours of which one repeats, 1 fault, fair |
| `living` | one message posted for each channel but for faults and the returns after one, the one known pinned, while no two refreshes overlap; however they overlap the channel holds in the end the message known, showing the week | 2 channels, 1 fault; both loops with 1 rebinding, the job alone with 4, so that it comes back to a channel twice; fair |
| `roles` | a stranded role costs a fault, only what the bot gave is taken, the grants come into step | consumer alone under 3 changes of everything, the two loops under 2 of memberships, links and mappings, all 3 actors under 2 of links, 2 levels, 2 roles, 1 fault, fair |
| `setup` | the dashboard knows the binding, what is held is what was answered last, a server that was left is quiet, every answer stays in reach, features are switched off for a cause and that is told once, instructions come into force and undo only what they name | 2 managers with 2 answers in each of 3 parts, 1 manager with 3, 1 or 2 happenings, 1 fault, fair; and all panels walked |
| `feed` | nothing is left of an account unlinked, followers are found, the copies show what they are told of, also after a telling that failed; a reminder asked for goes out; messages go out once, to the willing | 14 scenes of one person and one event: 2 presses at once, 2 to 4 asked, 1 or 2 happenings (2 with a reminder turned away), at most 1 fault (with follows on both sides in one scene), 4 hours; 360,000 states |
| `requests` | answers fit what Discord takes and who may read them, limits hold but for those counted while another was between read and write, the cache is no older than the entries handled | 3 interactions at once in 6 scenes, limits of 1 and 2, a cache of 2 listings, 3 minutes |
| `meetings` | polls tell the final count once, repeats come from evenings still recommended, what is told of them is true; announcements describe the event as it is, and each thing is told once, also where entries are taken again | 14 scenes: 2 polls and 2 votes, or 1 poll with 3 votes and deletions, 2 requests; 3 changes of an event or series with 1 press (the switch and the repost together without a fault) and 1 fault, which may be a stop or a re-stamp that puts the cursor back to any entry, 2 changes with 2 presses at once, or with a meeting of it posted again by hand; 1,150,000 states |

Runs that find what the text of the repository says violated by what the code
does (the findings of `PROJECT.json` quote the lines):

| Run | Finding |
|---|---|
| `roles_race` | two applies leave a role that nothing remembers |
| `feed_feedback` | somebody who was reminded is not asked for feedback, because the reminder it is read from was removed as it was sent |
| `announcements_internal` | an event made internal has its details back in the channel as soon as it is cancelled |

Some sentences of the repository are contradicted without a run of their own;
the properties say what holds instead:

| Sentence | What holds |
|---|---|
| `outbox/consumer.ts:12-14`, "exactly once ... under any single failure" | once more for each fault (`RepeatsCostFaults`): a crash between post and record posts again |
| `announce/thisWeek.ts:176-180`, a replacement "only happens when Discord has said the message is gone", and so once | the row of the channel still names the first message: each time the channel is bound away and back that one is restored, found gone, and replaced once more, beside the replacement that is there (`ExtrasCostFaults`, with 1 deletion and 4 rebindings) |
| `ratelimit/windows.ts:184-186`, two interactions cannot interleave between the read and the count | there is an await between them; the limit holds up to the overlaps (`LimitsHold`) |
| `commands/events.ts:287-290`, the card of a row is answered privately | the row edits the listing it is on, which the channel reads (`AnswersFit`, the `panel` exception) |
| `commands/setup.ts:239`, over the menu of organizations to follow, "run the config command again to add more" | the menu always holds the first 25, and choosing again replaces the set; the others stay out of reach (`EveryAnswerInReach` speaks of those the menu holds) |
| `announce/handlers.ts:35-36`, "an announcement always describes the event as it is now" | not where an entry is taken again: `handlers.ts:166-170` puts the message posted for it back into the row, in place of one posted later (a repost by hand, say), and the changes brought to the later one are settled and skipped (`:199`), so the announcement stays as it was until the next change. `AnnouncementsTell` excepts those meetings (`redone`) |
| `jobs/schedulerPolls.ts:43-44`, "either finds the evening the answer stood for", and `scheduler/polls.ts:9-12`, the winning answer "can be turned back into a time and a room" | the first evening of the poll whose words are those of the winner is taken; the words are cut, so it may be another one. `TellsTheCount` allows the winner, and an earlier evening only where it reads alike |
| `jobs/personalReminders.ts:22-24`, for somebody who had turned messages off "pressing Remind me again after turning them back on is what asks for it once more" | not where the switch was turned by a message Discord did not take: it is recorded as delivered (`:118-125`), and the reminder asked for again is dropped as a repetition (`:99-103`). `AskedIsReminded` excepts those events (`turned`) |
| `commands/feed.ts:26-28` and `CHANGELOG.md:207-209`, the set of organizations followed is sent "whenever it changes" | `feed/optIns.ts:106-108` changes it for a choice made on the website and sends nothing, nor does a deletion; and of two presses the set read first may be sent last. `CopiesAgree` speaks of a calendar that was told since |
| `feed/optIns.ts:9-13`, "the website shows the same answer whichever side the choice was made on", and `:128-129`, it agrees "even where both sides were changed at nearly the same moment" | only a choice made on the website is reported: presses, jobs and cancellations are not, so the website shows them at its next own change. `CopiesAgree` speaks of what was reported since |
| `commands/scheduler.ts:330-335`, nothing is created but what VIA still recommends | checked as the evening is accepted, not as the form is sent back (`RepeatsAreChecked`) |

Several properties carry a condition that the code makes necessary. Taking it
away shows what it is there for:

| Property | Without its condition |
|---|---|
| `MirrorInStep` with the roll | roll and consumer each read that there is no scheduled event and both create one; a listing from before the event was made internal brings it back |
| `MirrorInStep` after a failed deletion | `deleteScheduledEvent` clears the identifier in its `finally`, so the retry has nothing to delete and the cancelled event stays |
| `HoursRunInOrder` at the repeated hour | the second reading is written down as the first and counted again |
| `MessageIsKept` with two loops at once | both take an owed row for a crash of the other and both post |
| `StrandedCostsFaults` with a link revoked while the feature is off | `apply` returns at once and the grants are deleted |
| `DashboardKnowsBound` for a server bound to all or to a set | nothing reports that binding, so the dashboard keeps what it had |
| `HeldIsAnswered` with two answers at once | each writes a row it read before, and `setFollowedRsos` deletes and inserts |
| `LeftIsQuiet` with interactions under way | they create the row of the server again |
| `KeptWhole` during a deletion | a press writes to a table that was emptied already |
| `CacheTells` for a read under way | it is stored after what it shows was dropped, and served for its minute |
| `AnnouncementsTell` (`redone`) | the row names the message an entry posted long ago, and the changes of since are not brought to it |
| `AskedIsReminded` (`turned`) | a reminder asked for after Discord turned one away is dropped |
| `KeptWhole` (`apart`) | a press is not reported to the website, nor a choice of the website sent to the calendar |
| `AnnouncementsTell` (`crossed`) | an announcement posted again from a reading overtaken by a change becomes the row |
| `AnnouncementsTell` (`unheard`) | a change passed over while the feature was off, or brought to the first meeting of a series only |

The bounds are small because each property is about at most two actors, two
entries or two hours around one boundary; between them the runs of a module
fire every action of it, and each property is broken by the mutant of the code
that `PROJECT.json` names for it.

### Fairness

Weak fairness is assumed of the process's own steps only: the loops of
`index.ts` run for as long as the process does, `startLoops` never awaits them,
each loop catches what its pass throws (`scheduler.ts` `every`, `consumer.ts`
`poll`), and the process is restarted when it dies. Nothing is assumed of the
environment: managers, people, Discord and the web platform may stop for good.
In `LivingMessage` the handler runs once per entry, not for ever: with two
loops that both come back for ever each may undo the other. In `ServerSetup` an
operation that was begun goes on; nobody has to begin one. `PersonalFeed` states
its promises about times instead (`AskedIsReminded` when the event begins), with
every hour in which the bot is up running its jobs. `Requests`, `MeetingPolls`
and `Announcements` have no liveness property: who is told something is stated
of the states in which an interaction is done, and an announcement of those in
which the handler rests.

## 4. Proofs

`OutboxConsumerProofs` proves, for any number of entries, targets, attempts and
faults and any page size:

- `TypeCorrect`: the type invariant, with `InHand`: a poll always holds an entry
  of its page, and a post in flight has a target whose row is owed.
- `CursorIsSafe` and `PostsInOrder`. Neither is inductive alone: a poll works on
  a page read from an earlier cursor, and the re-stamp writes an earlier cursor
  back. `OrderInv` adds that the cursor is never past the entry in hand, that
  everything before that entry is finished, and that a re-stamp under way is no
  further than the cursor.
- `RepeatsArePaidFor`: from `RepeatInv`, by which the one post a delivery is
  allowed beyond the faults is spent once its row says posted, or once the post
  was made and is about to be recorded.
- `OwedIsAhead`: what is owed behind the cursor was given up on. `OwedInv` adds
  what a poll leaves behind it: every owed row before the entry in hand, or of
  it and no longer in `todo`, is of an entry that was given up on; so the
  statement survives a re-stamp and a crash that puts the cursor back.
- `DrainGoesBack`: an action property of the startup. The oldest of the owed rows
  is found with `Min`, whatever their number.
- `RecordedStays`: an action property of the rows that say posted.
- `ConsumerKeepsPromise`: initial states map to initial states and each step
  maps to a step of `OutboxPromise` or a stutter.

`MembershipRolesProofs` proves, for any number of actors, levels, roles, changes
of the world and faults:

- `TypeCorrect`: the type invariant. The consumer at work has an entry, and the
  actor that gives a role has one in hand.
- `GrantsAreTheBots`: what `Role_Grants` holds, what an actor is about to record
  and what it is about to take back are roles the bot itself gave. This is the
  part `GrantsInv` adds, and the induction needs all of it: a role given by one
  actor is recorded two steps later, granted to every other, and taken back by
  any of them from a list it made before.
- `OnlyGrantedAreEverTaken`: the action property that follows. A step that takes
  a role without the world's doing is `RemoveRole`, and the head of its list is
  a role the bot gave.

- `StrandedArePaidFor`: while only one loop is at `apply`. `StrandInv` has the
  reason: a role is forgotten once the person has it no longer from the bot, and
  the roles taken back as a link ends are all that are remembered, so none is
  left when the grants are deleted. `WorldInv` relates what the world has done to
  what the bot holds: without a change of the mapping, say, everything granted is
  mapped, and a taking back that follows the mapping reaches it all.

`ScheduledDigestProofs` proves, for any servers, hours, reach of a catch up,
place of the repeated hour and number of faults:

- `TypeCorrect`: the type invariant with `PassInv`. The hours of a pass are
  consecutive, end no later than the present one and none of them was dropped.
- `ExtrasArePaidFor`: from `RepeatInv` for the digests (as for the posts of the
  consumer) and `PinInv` for the pins. The pins of a channel that the bot does
  not remember are at most the faults, and which pin is about to be taken down or
  remembered depends on where the process is between the post and the end of
  its record, so each step has a bound of its own.
- `HoursAreKept`: `HoursRunInOrder`, an invariant and two action properties of
  one. `RunInv` says that whatever ran beyond the hour written down ran past hours
  that a catch up had dropped, or past the second reading of the repeated hour:
  the only two ways to leave an hour out.

`RequestsProofs` proves, for any number of interactions, limits, spans,
lifetimes, scenes, and faults and any size of the cache:

- `TypeCorrect`, and `AnswersAlwaysFit` from `AnswerInv`, which says for each
  step what Discord shows of the interaction by then (`Way`).
- `LimitsAlwaysHold` from `LimitInv`: a read of a window that nobody counted into
  since still names the sum of its rows, and each count in between is an
  overlap. The lemmas are about sums over a window whose end moves: a count of the
  present minute adds one to every window that has it, and the window judged
  at a later minute loses rows only.
- `CacheAlwaysTells` from `CacheInv`: the consumer has handled no more than VIA
  has changed, and a read in hand is as new as what was handled when it began,
  or is known to straddle a handling. The lemmas are about the order of use:
  `Among` keeps a sequence free of repeats and loses just what it leaves out.

`ServerSetupProofs` proves, for any managers, organizations, scenes, and faults:

- `TypeCorrect`: the type invariant. Every operation is at one of its own steps
  with what that step reads, so that the steps of an operation are a path.
- `DashboardAlwaysKnows`, `HeldAsAnswered`, `LeftStaysQuiet`, `DisabledWithCause`
  and `OthersAreLeft`. All rest on one argument. A part of the setup (the
  binding, the timing, the channels, the features) is in one actor's hands at a
  time, unless two began with it at once, which `crossed` remembers (`AloneInv`).
  So between the steps of an operation nobody else moves the part it is about,
  and each of the other invariants says where that actor has come to: what the
  dashboard does not show of the binding is still to be reported or undone
  (`BindingInv`), a set being replaced is empty or the one chosen (`ChosenInv`),
  the timing is what was answered or lacks the one answer about to be written
  (`TimingInv`), the binding an instruction was found to name is named still
  (`TheirsInv`), and the feature a post will switch off is on and has no channel
  (`BrokenInv`). `LeftInv` is the other kind: a server that was left can be set
  up again only by interactions that were under way (`leaving`), and one of
  them answers one part only. `NoticeInv` counts the notices as `RepeatInv` does.

- `AnswersStayInReach`: `EveryAnswerInReach` follows from the type of the panel
  alone. Every panel leads back to the binding in three presses at most
  (`BackToBinding`), and the binding on to whatever asks in three more
  (`OnFromBinding`). Proving it showed that the property had said too much: the
  run's menu holds all organizations, and one that holds the first of them only
  does not offer the others, which are bound by name and cannot be followed.

`LivingMessageProofs` proves, for any loops, channels, weeks, messages, scenes
and faults:

- `TypeCorrect`: the type invariant with `HandsInv`. The entries of a handler are
  at most one for each change of the week and each fault.
- `MessageStaysKept`: `MessageIsKept`, which speaks of one loop at a time
  (`AloneInv`). Until the first fault each channel has at most one message, the
  one its row names, and it is pinned or about to be (`CleanInv`). From then on the
  messages posted in a channel, and the one it is still due, are at most the
  faults and the visits of the binding (`PaidInv`): a fault pays for what goes
  missing, and a rebinding for the message that is found gone on the way back.
  The induction needs the one still due (`Due`) to be counted from the step in
  which a message goes missing, since the post that replaces it comes steps
  later, from a loop that may have to begin again. A row names the first message
  of its channel, and another only in place of one that is lost (`RowsInv`).

`ScheduledEventMirrorProofs` proves, for any kinds and numbers of entries, any
attempts, hazards and faults, with the roll beside the consumer or without it:

- `TypeCorrect`: the type invariant, with `HandsInv` for what an actor holds and
  `HazardsInv` for what has struck.
- `MirrorStaysInStep` and `LossesArePaidFor`, while the two loops do not meet in
  `apply` (`overlapped` is false), which leaves one actor at work at a time
  (`AloneInv`, `OneSteps`). What it read is then still so, and its place says where
  the kind of its entry has led it (`WayInv`). Of the tab, what is out of sight
  (`OutOfSight`) is at most the faults: the induction counts everything that is
  shown while the identifier is about to be forgotten or the permission is gone,
  since the step that loses it then is no fault (`OrphanInv`, `SightPaid`). Of the
  attempts, a failure was paid for from the step in which it can no longer be
  avoided (`AttemptsInv`, `Failing`). And that the tab is in step with the entry
  just finished (`TruthInv`) rests on what a delivery row that says created leads
  to when a replay writes it back to the mirror row (`PostedInv` without a crash,
  `FirstInv` with one).
- Proving it showed that `GivenUpCostsAttempts` had said too much: with two
  attempts, as the run has them, it held for want of a third. A deletion that
  failed to be written down, followed by the loss of the permission, leaves an
  identifier that nothing repairs (the retry returns at `mayMirror`), so that
  later edits of the event fail for as many attempts as there are. `Repaired` now
  excludes the two together.

`AnnouncementsProofs` proves, for any evenings, meetings, answers of VIA, polls,
votes, scenes and faults, with the polls and the announcements running beside
each other:

- `PollsAreTold`: `PollsTell` always holds, stops of the bot included. It rests on `PollsHold`, of three
  parts. `PollTypes` says that ballots, results and the pass have their shape and
  that a pass at work has a poll. `PollsInv` says that the polls of a pass are
  open, that the counts in hand are final, so that no vote comes between the
  reading and the result, that a poll written off has been heard of, and that
  each poll has no more results than faults, and one more once it is written off
  or about to be: the induction needs that one to be counted from the step in
  which it is posted, since a crash before `recordClosed` posts it again. And
  `CreationInv` says that what buttons name, and what a request is of, was
  checked before, and that a request VIA has still to answer is of a form that
  created nothing yet.
- `ResultTells` is the lemma on the count itself: whatever the votes, the result
  has the most of them and carries an evening that reads as the winner does
  (`WinnerIsThere`, `FirstEvening`).
- `AnnouncementsAreTyped`, from `PollsHold`, `ButtonsInv` (buttons carry evenings
  that VIA has offered) and `AnnouncementTypes`.
- `EntriesAreToldOnce`: the two parts of `AnnouncementsTell` that hold however
  often the cursor is put back. They rest on `Always`, the invariant of every
  behaviour: the types; `LogInv`, by which what the last entry about a meeting says
  is what the meeting is now; `NamedInv`, whatever names a message or an entry
  names one there is; `AtHand`, what the handler holds is of the entry after the
  cursor; `OnceInv`, an entry is posted at most once beyond the faults, counted
  from the post and not from its record, and the same for its notice; and
  `NoticeInv`, an edit that was recorded for an entry behind the cursor has its
  notice, or the channel was closed, or nobody heard (`unheard`). A cursor that
  goes back disturbs none of them: `OnceInv` counts what is delivered wherever the
  cursor is, and `NoticeInv` asks less of an entry that is ahead of it again.
  Most steps of the handler are covered by one lemma each on what they may do
  (`Careful`), and what a stop or a re-stamp does by another (`Forgets`).
- `AnnouncementsAreTrue`: all of `AnnouncementsTell`, for as long as the cursor has
  not been put back over a finished entry (`reached = 0`), through failed calls
  and through stops after which nothing older was owed. It speaks of the states
  in which the handler rests, and a handling is a path of reads, posts and
  records with publications, changes of the server and a board's presses in
  between, so `AnnouncementsHold` says at each place what is true of the way
  there. `WorkInv`: what has been delivered of the entry at hand is what an entry
  of its kind comes to. `SaysInv`: an announcement is right, or a later entry
  about its meeting is still to be handled, or it is the entry at hand that will
  be brought to it. That last case is why `SaysInv` speaks of the reading in hand
  too (`SeeksRightly`, `PostsRightly`), and of what is posted and not recorded
  (`SettledRightly`). `HeldInv`: a message that is posted and not recorded, by the
  handler or by a press, is nobody's announcement, so that recording it makes a
  row name one message and a message one row. What an entry written by any action
  of the web platform, or a press, does is proved of `Grows`, and what the other
  actors' steps leave alone of `Quiet`. Once the cursor goes back, what is
  delivered no longer says how far the entries have come, and the argument ends;
  that an announcement untouched by what is taken again stays right (`redone`)
  is model-checked.

The assumptions are the modules' own on their constants, and TLC evaluates each
on every run: `ConsumerAssumption`, `RolesAssumption` (the roles of a server are
finitely many, and the marks for none of them are not roles themselves),
`LivingAssumption` (the mark for no channel is not a channel), `MirrorAssumption`,
`DigestAssumption`, `RequestsAssumption` (limits and lifetimes are positive, and
an interaction is not a listing), `SetupAssumption` (managers are finitely many and are not
the handler, the gateway or the poster, and the mark for no organization is
not one), `MeetingPollsAssumption`.

Only model-checked:

- everything under fairness, since `ENABLED` and liveness are out of the prover's
  reach: `FeedMoves`, `EveryHourRuns`, `GrantsSettle`, `WeekIsShown`,
  `RollRepairs`, and of `InstructionsAreKept` the half that says an instruction
  comes into force (the other half is `OthersAreLeft`);
- of `AnnouncementsTell` the first part, that an announcement shows the event as it
  is, once the cursor has been put back over finished entries;
- `TypeOK`, `KeptWhole` and `AskedIsReminded` of `PersonalFeed`, which has no
  proofs yet.

Nothing here declares a RECURSIVE operator, so every module can be proved about.

## 5. What is left

1. Theorems: `KeptWhole`, `AskedIsReminded` and the type invariant of a person's
   feed.
2. Compositions: the consumer's cursor with the mirror's rows instead of the
   nondeterministic rewind of `Crash`; the scheduler with a list of jobs.
3. The jobs that post into channels on the day and for a coming exam, the
   removal of a server's presence, the retention and the rebuild of
   housekeeping.

## 6. Not modelled

Rendering, configuration, health and the migrations hold no state that another
part reads. The campus, course and room commands read VIA and print; they are
the `reads` of an interaction in `Requests` and nothing else. Linked roles
metadata is registered once at the start. Of the web platform client a request
is modelled, and each endpoint only as the environment of the module that calls
it. Abandoning a delivery and switching the feature off are one step in
`OutboxConsumer`, `ScheduledDigest` and `LivingMessage` where the code has two
awaits: a loop that ran between them would find the channel closed itself and do
the same (`ServerSetup` has the two apart). The web platform and Discord are
environments: their definitions are marked external in the map.

Some things the code does are known and have no property, because the property
that comes to mind would be false and the code means it so:

| Behaviour | Where |
|---|---|
| An hour written down as run is over for the servers that failed in it | `jobs/guildDigest.ts:149` |
| A job whose `Job_Runs` write fails ends the pass for those after it | `jobs/scheduler.ts:173` |
| A scheduled event deleted by hand fails every later edit of its entry | `mirror/scheduledEvents.ts:197` |
| A deletion not written down before the permission was taken away leaves the identifier of a scheduled event that is gone, and every later edit fails | `mirror/scheduledEvents.ts:163` |
| A role lost by hand, or by leaving and coming back, is not given again while the grant stands | `roles/membership.ts:97` |
| `link.revoked` handled after a new link deletes what was set up since | `identity/links.ts:110` |
| The mark of interest and the interest on VIA may end up different after two presses | `mirror/interest.ts:52` |
| A binding to all or to a set is not reported | `commands/setup.ts:821` |
| A failed read of an event, for every reader the feedback job has, clears its marks as if it were gone | `jobs/feedback.ts:218-224` |
| Nobody is told what became of a request that was under way as the bot stopped | `commands/scheduler.ts:423` |
| An announcement posted again leaves the earlier one as it was, and nothing edits it | `commands/admin.ts:390` |
| A form filled in with an event as it was is sent back whole | `commands/admin.ts:144` |
| A change of a series edits the announcement of its first meeting only; a change of that meeting replaces the announcement of the series by its own | `mirror/eventMirrors.ts:113` |
| A result that Discord refuses ends the pass over the polls | `jobs/schedulerPolls.ts:143` |
| An event moved to a later day is not announced on that day again | `jobs/dayOfReminders.ts:98` |
| A connection lost while an answer of VIA arrives is a general failure, not "not answering" (`wrong` in `MeetingPolls`) | `via/http.ts:176` |
