---------------------------- MODULE LivingMessage ----------------------------
(***************************************************************************)
(* The living this week message of one server (announce/thisWeek.ts): one  *)
(* message posted once, pinned, and edited in place. It is brought up to   *)
(* date by two loops that know nothing of each other, the hourly job and   *)
(* the outbox handlers, each of which reads where the message is, calls    *)
(* Discord, and writes down where it is now.                               *)
(***************************************************************************)
EXTENDS Integers, FiniteSets

CONSTANTS
  Actors,       \* the loops that call refresh
  Clocked,      \* those that call it again and again; the rest once per entry
  Channels,     \* the channels a manager may bind
  MaxWeeks,     \* bound on the changes of the week
  MaxMessages,  \* bound on the messages posted
  Scenes,       \* [actors, rebinds]: the loops that run, and the bound on the channels
                \* a manager binds after the first
  MaxFaults     \* bound on the failures, crashes and deletions by hand

NoChannel == "no channel"

ASSUME LivingAssumption ==
  /\ Clocked \subseteq Actors
  /\ NoChannel \notin Channels
  /\ MaxWeeks \in Nat
  /\ MaxMessages \in Nat
  /\ \A s \in Scenes : s.actors \subseteq Actors /\ s.rebinds \in Nat
  /\ MaxFaults \in Nat

VARIABLES
  week,      \* the version of the week that a listing answers with
  entries,   \* the entries about the week that no handler has come to
  feature,   \* whether living.thisweek is switched on
  bound,     \* the channel bound to thisweek, or NoChannel
  closed,    \* the channels the bot can no longer reach
  stored,    \* Guild_Messages: the message the server has, 0 for no row
  row,       \* the Deliveries row of each channel: NoRow, Owed or a message
  place,     \* Discord: the channel of each message posted
  shows,     \* Discord: the week each message shows, or Gone
  pinned,    \* Discord: the messages pinned
  lastId,    \* the last message identifier Discord gave out
  pc, chan, held, drawn,  \* each actor: its place, the channel and message it
                          \* works on, the week it read
  overlapped, \* history: two refreshes were under way at once
  scene,     \* which loops run, and how much is bound anew
  rebinds,   \* how often the channel was bound anew
  faults     \* how many faults the environment has spent

calendar == <<week, entries>>
settings == <<feature, bound, closed>>
records  == <<stored, row>>
discord  == <<place, shows, pinned, lastId>>
locals   == <<pc, chan, held, drawn>>
budget   == <<scene, rebinds, faults>>
vars == <<calendar, settings, records, discord, locals, overlapped, budget>>

NoRow == -1
Owed == 0
Gone == -1
Message == 1..MaxMessages
There == {m \in Message : place[m] # NoChannel /\ shows[m] # Gone}

Init ==
  /\ week = 0
  /\ entries = 0
  /\ feature = TRUE
  /\ bound \in Channels
  /\ closed = {}
  /\ stored = 0
  /\ row = [c \in Channels |-> NoRow]
  /\ place = [m \in Message |-> NoChannel]
  /\ shows = [m \in Message |-> Gone]
  /\ pinned = {}
  /\ lastId = 0
  /\ pc = [a \in Actors |-> "idle"]
  /\ chan = [a \in Actors |-> NoChannel]
  /\ held = [a \in Actors |-> 0]
  /\ drawn = [a \in Actors |-> 0]
  /\ overlapped = FALSE
  /\ scene \in Scenes
  /\ rebinds = 0
  /\ faults = 0

Fault == faults < MaxFaults /\ faults' = faults + 1 /\ UNCHANGED <<scene, rebinds>>

Goes(a, where) == pc' = [pc EXCEPT ![a] = where] /\ UNCHANGED <<chan, held, drawn>>

-----------------------------------------------------------------------------
\* The environment.

WeekChanges ==
  /\ week < MaxWeeks
  /\ week' = week + 1
  /\ entries' = entries + 1
  /\ UNCHANGED <<overlapped, settings, records, discord, locals, budget>>

\* A manager binds another channel, or none.
Rebind(c) ==
  /\ c # bound
  /\ rebinds < scene.rebinds
  /\ bound' = c
  /\ rebinds' = rebinds + 1
  /\ UNCHANGED <<overlapped, calendar, feature, closed, records, discord, locals, scene, faults>>

SwitchOn ==
  /\ ~feature
  /\ bound # NoChannel /\ bound \notin closed
  /\ feature' = TRUE
  /\ UNCHANGED <<overlapped, calendar, bound, closed, records, discord, locals, budget>>

CloseChannel(c) ==
  /\ c \notin closed
  /\ Fault
  /\ closed' = closed \cup {c}
  /\ UNCHANGED <<overlapped, calendar, feature, bound, records, discord, locals>>

DeleteByHand(m) ==
  /\ m \in There
  /\ Fault
  /\ shows' = [shows EXCEPT ![m] = Gone]
  /\ pinned' = pinned \ {m}
  /\ UNCHANGED <<overlapped, calendar, settings, records, place, lastId, locals>>

\* The entry in hand is read again after a crash, and others may be.
Crash ==
  /\ Fault
  /\ entries' \in {entries, entries + 1}
  /\ pc' = [a \in Actors |-> "idle"]
  /\ chan' = [a \in Actors |-> NoChannel]
  /\ held' = [a \in Actors |-> 0]
  /\ drawn' = [a \in Actors |-> 0]
  /\ UNCHANGED <<overlapped, week, settings, records, discord>>

-----------------------------------------------------------------------------
\* refresh(), one await at a time.

\* The entries left once an actor has begun a refresh.
AlwaysOneLess(a) == entries - 1
EntriesLeft(a) == IF a \in Clocked THEN entries ELSE entries - 1

\* channelFor: the feature is switched off when no channel is bound.
ChannelFor(a) ==
  /\ pc[a] = "idle" /\ a \in scene.actors
  /\ a \notin Clocked => entries > 0
  /\ entries' = EntriesLeft(a)
  /\ IF ~feature \/ bound = NoChannel
     THEN feature' = FALSE /\ UNCHANGED <<pc, chan, overlapped>>
     ELSE /\ chan' = [chan EXCEPT ![a] = bound]
          /\ pc' = [pc EXCEPT ![a] = "get"]
          /\ overlapped' = (overlapped \/ \E b \in Actors : pc[b] # "idle")
          /\ UNCHANGED feature
  /\ UNCHANGED <<week, bound, closed, records, discord, held, drawn, budget>>

\* Whether the message the server has is the one to edit.
IsCurrent(m, c) == m # 0 /\ place[m] = c

GetGuildMessage(a) ==
  /\ pc[a] = "get"
  /\ held' = [held EXCEPT ![a] = stored]
  /\ pc' = [pc EXCEPT ![a] = IF IsCurrent(stored, chan[a]) THEN "drawEdit" ELSE "intend"]
  /\ UNCHANGED <<overlapped, calendar, settings, records, discord, chan, drawn, budget>>

\* weekOf: the listing is read before the message is written with it.
WeekOf(a, from, to) ==
  /\ pc[a] = from
  /\ drawn' = [drawn EXCEPT ![a] = week]
  /\ pc' = [pc EXCEPT ![a] = to]
  /\ UNCHANGED <<overlapped, calendar, settings, records, discord, chan, held, budget>>

Draw(a) ==
  \/ WeekOf(a, "drawEdit", "edit")
  \/ WeekOf(a, "drawPost", "post")
  \/ WeekOf(a, "drawAgain", "postAgain")

\* What becomes of a message Discord says is gone: the row goes, and another is
\* posted.
LeavesRow == "idle"
MissingLeadsTo == "forget"

Edit(a) ==
  /\ pc[a] = "edit"
  /\ chan[a] \notin closed
  /\ IF shows[held[a]] = Gone
     THEN Goes(a, MissingLeadsTo) /\ UNCHANGED shows
     ELSE shows' = [shows EXCEPT ![held[a]] = drawn[a]] /\ Goes(a, "idle")
  /\ UNCHANGED <<overlapped, calendar, settings, records, place, pinned, lastId, budget>>

RemoveGuildMessage(a) ==
  /\ pc[a] = "forget"
  /\ stored' = 0
  /\ Goes(a, "drawAgain")
  /\ UNCHANGED <<overlapped, calendar, settings, row, discord, budget>>

\* deliveries.intend, and where it leads by the row it finds.
IntendLeadsTo(r) == IF r \in Message THEN "restore" ELSE "drawPost"

Intend(a) ==
  /\ pc[a] = "intend"
  /\ pc' = [pc EXCEPT ![a] = IntendLeadsTo(row[chan[a]])]
  /\ held' = [held EXCEPT ![a] = IF row[chan[a]] \in Message THEN row[chan[a]] ELSE @]
  /\ row' = [row EXCEPT ![chan[a]] = IF @ = NoRow THEN Owed ELSE @]
  /\ UNCHANGED <<overlapped, calendar, settings, stored, discord, chan, drawn, budget>>

\* The message was posted and the row that says where was not written.
Restore(a) ==
  /\ pc[a] = "restore"
  /\ stored' = held[a]
  /\ Goes(a, "idle")
  /\ UNCHANGED <<overlapped, calendar, settings, row, discord, budget>>

NewMessage(a) ==
  /\ chan[a] \notin closed
  /\ lastId < MaxMessages
  /\ lastId' = lastId + 1
  /\ place' = [place EXCEPT ![lastId + 1] = chan[a]]
  /\ shows' = [shows EXCEPT ![lastId + 1] = drawn[a]]
  /\ UNCHANGED pinned

\* The first post goes on to record its delivery, a replacement does not.
Post(a) ==
  /\ pc[a] \in {"post", "postAgain"}
  /\ NewMessage(a)
  /\ held' = [held EXCEPT ![a] = lastId + 1]
  /\ pc' = [pc EXCEPT ![a] = IF @ = "post" THEN "record" ELSE "set"]
  /\ UNCHANGED <<overlapped, calendar, settings, records, chan, drawn, budget>>

\* The message was posted and the answer lost, which refresh throws on.
AnswerLost(a) ==
  /\ pc[a] \in {"post", "postAgain"}
  /\ NewMessage(a)
  /\ Fault
  /\ Goes(a, "idle")
  /\ UNCHANGED <<overlapped, calendar, settings, records>>

\* A channel that is gone or closed switches the feature off; the intention of
\* a first post goes first.
MissingAccess(a) ==
  /\ pc[a] \in {"post", "postAgain", "edit"}
  /\ chan[a] \in closed
  /\ row' = IF pc[a] = "post" THEN [row EXCEPT ![chan[a]] = NoRow] ELSE row
  /\ feature' = FALSE
  /\ Goes(a, "idle")
  /\ UNCHANGED <<overlapped, calendar, bound, closed, stored, discord, budget>>

RecordPosted(a) ==
  /\ pc[a] = "record"
  /\ row' = [row EXCEPT ![chan[a]] = IF @ = NoRow THEN @ ELSE held[a]]
  /\ Goes(a, "set")
  /\ UNCHANGED <<overlapped, calendar, settings, stored, discord, budget>>

NothingAfterSet == "idle"
AfterSet == "pin"

SetGuildMessage(a) ==
  /\ pc[a] = "set"
  /\ stored' = held[a]
  /\ Goes(a, AfterSet)
  /\ UNCHANGED <<overlapped, calendar, settings, row, discord, budget>>

\* A pin that Discord does not allow is let go.
PinMessage(a) ==
  /\ pc[a] = "pin"
  /\ pinned' = IF chan[a] \in closed \/ shows[held[a]] = Gone
               THEN pinned ELSE pinned \cup {held[a]}
  /\ Goes(a, "idle")
  /\ UNCHANGED <<overlapped, calendar, settings, records, place, shows, lastId, budget>>

CallFails(a) ==
  /\ pc[a] # "idle"
  /\ Fault
  /\ Goes(a, "idle")
  /\ UNCHANGED <<overlapped, calendar, settings, records, discord>>

-----------------------------------------------------------------------------
Refresh(a) ==
  \/ ChannelFor(a) \/ GetGuildMessage(a) \/ Draw(a) \/ Edit(a)
  \/ RemoveGuildMessage(a) \/ Intend(a) \/ Restore(a) \/ Post(a)
  \/ MissingAccess(a) \/ RecordPosted(a) \/ SetGuildMessage(a) \/ PinMessage(a)

Environment ==
  \/ WeekChanges \/ SwitchOn \/ Crash
  \/ \E c \in Channels \cup {NoChannel} : Rebind(c)
  \/ \E c \in Channels : CloseChannel(c)
  \/ \E m \in Message : DeleteByHand(m)
  \/ \E a \in Actors : CallFails(a) \/ AnswerLost(a)

Next == (\E a \in Actors : Refresh(a)) \/ Environment

Spec == Init /\ [][Next]_vars

\* The job comes back every hour for as long as the process does, and a refresh
\* that has begun goes on.
FairSpec == Spec /\ \A a \in Actors : WF_vars(Refresh(a))

-----------------------------------------------------------------------------
\* Properties.

TypeOK ==
  /\ week \in 0..MaxWeeks
  /\ entries \in 0..(MaxWeeks + MaxFaults)
  /\ feature \in BOOLEAN
  /\ bound \in Channels \cup {NoChannel}
  /\ closed \in SUBSET Channels
  /\ stored \in 0..MaxMessages
  /\ row \in [Channels -> {NoRow, Owed} \cup Message]
  /\ place \in [Message -> Channels \cup {NoChannel}]
  /\ shows \in [Message -> {Gone} \cup 0..MaxWeeks]
  /\ pinned \in SUBSET Message
  /\ lastId \in 0..MaxMessages
  /\ pc \in [Actors -> {"idle", "get", "drawEdit", "edit", "forget", "drawAgain", "postAgain",
                        "intend", "restore", "drawPost", "post", "record", "set", "pin"}]
  /\ chan \in [Actors -> Channels \cup {NoChannel}]
  /\ held \in [Actors -> 0..MaxMessages]
  /\ drawn \in [Actors -> 0..MaxWeeks]
  /\ scene \in Scenes /\ rebinds \in 0..scene.rebinds
  /\ faults \in 0..MaxFaults /\ overlapped \in BOOLEAN

InChannel(c) == {m \in There : place[m] = c}

\* One loop alone posts one message in a channel, however often the channel is
\* bound away and back.  Each one more is the price of a fault; and after one, of
\* a return as well, since the row of the channel still names the first message,
\* and what replaced that is not looked for (thisWeek.ts, postAgain).
Posted(c) == {m \in Message : place[m] = c}
ExtrasCostFaults == ~overlapped => \A c \in Channels :
  Cardinality(Posted(c)) <= 1 + faults + (IF faults = 0 THEN 0 ELSE rebinds \div 2)

\* A message the server knows of and that nobody deleted is pinned, unless a
\* fault kept it from being: no path that finds a message again forgets the pin.
KnownIsPinned ==
  faults = 0 /\ stored # 0 /\ ~overlapped =>
    stored \in pinned \/ \E a \in Actors : pc[a] = "pin" /\ held[a] = stored

\* One loop alone keeps its message: one in a channel, known and pinned
\* (thisWeek.ts, refresh).
MessageIsKept == ExtrasCostFaults /\ KnownIsPinned

\* Whatever two loops, deletions by hand, rebinds and failures have left, once
\* they are over the channel bound holds the message the server knows of, and
\* it shows the week as it is.
WeekIsShown ==
  <>[](feature /\ bound # NoChannel /\ bound \notin closed =>
         stored \in InChannel(bound) /\ shows[stored] = week)

-----------------------------------------------------------------------------
\* Inductive strengthenings.

\* An actor at work has a channel, and a message where it is about to name one.
HandsInv ==
  /\ entries <= week + faults
  /\ \A a \in Actors :
       /\ pc[a] # "idle" => chan[a] \in Channels
       /\ pc[a] \in {"drawEdit", "edit", "restore", "record", "set", "pin"} => held[a] \in Message

\* Of one loop alone: no two refreshes are under way.

AloneInv == \A a, b \in Actors : pc[a] # "idle" /\ pc[b] # "idle" => a = b

\* What Discord gave out, and what the rows name: the message known in a channel
\* is that of its row, or one that replaced it.
Lost(m) == m \notin Message \/ shows[m] = Gone
Replaces(m, c) == place[m] = c /\ row[c] \in Message /\ (m = row[c] \/ Lost(row[c]))
RowsInv ==
  /\ \A m \in Message : place[m] # NoChannel <=> m <= lastId
  /\ \A c \in Channels : row[c] \in Message => place[row[c]] = c
  /\ stored # 0 => place[stored] \in Channels /\ Replaces(stored, place[stored])

\* Where a refresh is, against the rows of its channel.
Way(a) ==
  LET c == chan[a] IN
  /\ pc[a] # "idle" => bound = c \/ rebinds > 0
  /\ pc[a] \in {"drawEdit", "edit"} => held[a] = stored /\ IsCurrent(stored, c)
  /\ pc[a] \in {"intend", "restore", "drawPost", "post", "record"} => ~IsCurrent(stored, c)
  /\ pc[a] = "restore" => held[a] = row[c] /\ row[c] \in Message
  /\ pc[a] \in {"drawPost", "post", "record"} => row[c] = Owed
  /\ pc[a] \in {"forget", "drawAgain", "postAgain"} => row[c] \in Message /\ Lost(row[c])
  /\ pc[a] = "record" => place[held[a]] = c
  /\ pc[a] \in {"set", "pin"} => Replaces(held[a], c)
  /\ pc[a] = "pin" => held[a] = stored
WayInv == \A a \in Actors : Way(a)

\* Before the first fault each channel has one message at most, and what a row
\* names is pinned, or about to be.
IsAt(c, places) == \E a \in Actors : pc[a] \in places /\ chan[a] = c
PinnedSoon(m) == m \in pinned \/ \E a \in Actors : pc[a] \in {"set", "pin"} /\ held[a] = m
CleanInv ==
  /\ closed = {}
  /\ \A m \in Message : place[m] # NoChannel => shows[m] # Gone
  /\ \A c \in Channels :
       /\ Cardinality(Posted(c)) <= IF row[c] \in Message \/ IsAt(c, {"record"}) THEN 1 ELSE 0
       /\ row[c] \in Message => PinnedSoon(row[c])
  /\ KnownIsPinned

\* From then on, each message in a channel was paid for by a fault or by a visit
\* of the binding, and so is one that the visit has still to post.
Visits(c) == IF bound = c THEN 1 + rebinds \div 2 ELSE (rebinds + 1) \div 2
Missing(c) ==
  \/ IsAt(c, {"forget", "drawAgain", "postAgain", "drawPost", "post"})
  \/ \E a \in Actors : pc[a] \in {"record", "set"} /\ chan[a] = c /\ Lost(held[a])
  \/ /\ ~IsAt(c, {"record", "set"})
     /\ Lost(IF \A a \in Actors : pc[a] # "idle" => chan[a] = c
             THEN IF IsCurrent(stored, c) THEN stored ELSE row[c] ELSE row[c])
Due(c) == /\ c \notin closed
          /\ bound = c \/ \E a \in Actors : pc[a] # "idle" /\ chan[a] = c
          /\ Missing(c)
PaidInv == \A c \in Channels :
  Cardinality(Posted(c)) + (IF Due(c) THEN 1 ELSE 0) <= faults + Visits(c)

CostInv == IF faults = 0 THEN CleanInv ELSE PaidInv

OneLoopInv == AloneInv /\ RowsInv /\ WayInv /\ CostInv
KeptInv == ~overlapped => OneLoopInv

=============================================================================
