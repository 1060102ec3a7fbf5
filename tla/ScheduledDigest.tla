--------------------------- MODULE ScheduledDigest ---------------------------
(***************************************************************************)
(* The job scheduler (jobs/scheduler.ts) with the memory it keeps in       *)
(* Job_Runs, driving the hourly job that posts the weekly digest of every  *)
(* server (jobs/guildDigest.ts).                                           *)
(*                                                                         *)
(* Time is counted in hours, as instants. What is written in Job_Runs is   *)
(* the campus wall clock, on which the hour Fold and the one after it read *)
(* the same when the clocks go back: a reading names the first of the two. *)
(***************************************************************************)
EXTENDS Integers, Sequences, FiniteSets

CONSTANTS
  Servers,    \* the servers with a digest
  DueAt,      \* DueAt[s]: the readings of the campus clock s wants a digest at
  LastHour,   \* bound on the clock
  Fold,       \* the hour whose reading the next hour repeats; LastHour for none
  CatchUp,    \* MAX_CATCH_UP_HOURS
  MaxFaults   \* bound on the failures and crashes of a behaviour

Hour == 0..LastHour
Never == -1

ASSUME DigestAssumption ==
  /\ LastHour \in Nat
  /\ DueAt \in [Servers -> SUBSET Hour]
  /\ Fold \in Hour
  /\ CatchUp \in Nat \ {0}
  /\ MaxFaults \in Nat

VARIABLES
  clock,      \* the hour it is
  lastRun,    \* Job_Runs.lastRunAt of the job: a reading, or Never
  feature,    \* the servers where announce.digest is switched on
  channel,    \* each server's digest channel: open, closed to the bot, unbound
  row,        \* the Deliveries row of each server and reading
  known,      \* Guild_Messages: the digest the bot remembers pinning, or Never
  pinned,     \* Discord: the digests pinned in each server
  pc,         \* where the process is
  owed,       \* the hours the pass has still to run, oldest first
  todo,       \* the servers the hour in hand has still to come to
  server,     \* the server in hand
  posts,      \* history: how often each digest was posted
  ran,        \* history: how often each hour was run without failing
  written,    \* history: the hours written down as run
  dropped,    \* history: the hours a catch up was too long to include
  faults      \* how many faults the environment has spent

clocks  == <<clock, lastRun>>
servers == <<feature, channel>>
tables  == <<row, known, pinned>>
memory  == <<pc, owed, todo, server>>
history == <<ran, written, dropped>>
vars == <<clocks, servers, tables, memory, posts, history, faults>>

\* The campus clock's reading of an hour, and the hour a reading names.
Reading(h) == IF h > Fold THEN h - 1 ELSE h
InstantOf(r) == IF r > Fold THEN r + 1 ELSE r
HourStart(h) == InstantOf(Reading(h))

Digest == Servers \X Hour
Current == <<server, Reading(Head(owed))>>
Nobody == "nobody"

\* The hours a job owes when its last run is the reading r.
SinceAndIncluding(r) ==
  IF r = Never THEN {HourStart(clock)} ELSE InstantOf(r)..HourStart(clock)
HoursSince(r) ==
  IF r = Never THEN {HourStart(clock)} ELSE (InstantOf(r) + 1)..HourStart(clock)

\* The hours a catch up reaches, and the order it runs them in.
AllWithinReach(h) == TRUE
WithinReach(h) == h > HourStart(clock) - CatchUp

\* The hours owed are on end, and the last of them is the hour it is.
OldestFirst(hours) ==
  [n \in 1..Cardinality(hours) |-> HourStart(clock) - Cardinality(hours) + n]

\* What a failed hour leaves of the pass: the hours after it wait.
GoesOnAfterFailure == Tail(owed)
AfterFailure == <<>>

\* Whether the row says the digest was posted.
NeverSettled(k) == FALSE
Settled(k) == row[k] = "posted"

Init ==
  /\ clock = 0
  /\ lastRun = Never
  /\ feature = Servers
  /\ channel = [s \in Servers |-> "open"]
  /\ row = [k \in Digest |-> "absent"]
  /\ known = [s \in Servers |-> Never]
  /\ pinned = [s \in Servers |-> {}]
  /\ pc = "down"
  /\ owed = <<>>
  /\ todo = {}
  /\ server = Nobody
  /\ posts = [k \in Digest |-> 0]
  /\ ran = [h \in Hour |-> 0]
  /\ written = {}
  /\ dropped = {}
  /\ faults = 0

Fault ==
  /\ faults < MaxFaults
  /\ faults' = faults + 1

\* The servers go on with what is left of the hour.
NextServer == pc' = "servers" /\ server' = Nobody

-----------------------------------------------------------------------------
\* The environment.

Tick ==
  /\ clock < LastHour
  /\ clock' = clock + 1
  /\ UNCHANGED <<lastRun, servers, tables, memory, posts, history, faults>>

\* A manager binds a channel or unbinds it, or opens the one that was closed.
SetChannel(s, state) ==
  /\ channel[s] # state
  /\ channel' = [channel EXCEPT ![s] = state]
  /\ UNCHANGED <<clocks, feature, tables, memory, posts, history, faults>>

\* The channel goes, or is closed to the bot.
CloseChannel(s) ==
  /\ channel[s] = "open"
  /\ Fault
  /\ channel' = [channel EXCEPT ![s] = "closed"]
  /\ UNCHANGED <<clocks, feature, tables, memory, posts, history>>

SwitchOn(s) ==
  /\ s \notin feature
  /\ channel[s] = "open"
  /\ feature' = feature \cup {s}
  /\ UNCHANGED <<clocks, channel, tables, memory, posts, history, faults>>

Crash ==
  /\ pc # "down"
  /\ Fault
  /\ pc' = "down"
  /\ owed' = <<>> /\ todo' = {} /\ server' = Nobody
  /\ UNCHANGED <<clocks, servers, tables, posts, history>>

Start ==
  /\ pc = "down"
  /\ pc' = "idle"
  /\ UNCHANGED <<clocks, servers, tables, owed, todo, server, posts, history, faults>>

-----------------------------------------------------------------------------
\* A pass of the scheduler.

\* dueHours: the hours since the last run, the oldest cut off beyond the reach
\* of a catch up.
Pass ==
  /\ pc = "idle"
  /\ HoursSince(lastRun) # {}
  /\ LET due == HoursSince(lastRun) IN
       /\ owed' = OldestFirst({h \in due : WithinReach(h)})
       /\ dropped' = dropped \cup {h \in due : ~WithinReach(h)}
  /\ pc' = "list"
  /\ UNCHANGED <<clocks, servers, tables, todo, server, posts, ran, written, faults>>

\* listInstallationsForDigest, for the hour at the head.
ListDue ==
  /\ pc = "list"
  /\ todo' = {s \in Servers : Reading(Head(owed)) \in DueAt[s]}
  /\ pc' = "servers"
  /\ UNCHANGED <<clocks, servers, tables, owed, server, posts, history, faults>>

\* The listing fails, and the hour with it: it is not written down.
HourFails ==
  /\ pc = "list"
  /\ Fault
  /\ owed' = AfterFailure
  /\ pc' = IF AfterFailure = <<>> THEN "idle" ELSE "list"
  /\ UNCHANGED <<clocks, servers, tables, todo, server, posts, history>>

\* channelFor: a server that switched the digest off is passed over, and one
\* with no channel bound has it switched off.
TakeServer(s) ==
  /\ pc = "servers"
  /\ s \in todo
  /\ todo' = todo \ {s}
  /\ IF s \in feature /\ channel[s] # "unbound"
     THEN server' = s /\ pc' = "intend" /\ UNCHANGED feature
     ELSE NextServer /\ feature' = feature \ {s}
  /\ UNCHANGED <<clocks, channel, tables, owed, posts, history, faults>>

Intend ==
  /\ pc = "intend"
  /\ IF Settled(Current)
     THEN NextServer /\ UNCHANGED row
     ELSE /\ row' = [row EXCEPT ![Current] = "owed"]
          /\ pc' = "post"
          /\ UNCHANGED server
  /\ UNCHANGED <<clocks, servers, known, pinned, owed, todo, posts, history, faults>>

Post ==
  /\ pc = "post"
  /\ channel[server] # "closed"
  /\ posts' = [posts EXCEPT ![Current] = @ + 1]
  /\ pc' = "record"
  /\ UNCHANGED <<clocks, servers, tables, owed, todo, server, history, faults>>

\* The channel is gone or closed: the intention goes, and then the feature.
MissingAccess ==
  /\ pc = "post"
  /\ channel[server] = "closed"
  /\ row' = [row EXCEPT ![Current] = "absent"]
  /\ feature' = feature \ {server}
  /\ NextServer
  /\ UNCHANGED <<clocks, channel, known, pinned, owed, todo, posts, history, faults>>

RecordPosted ==
  /\ pc = "record"
  /\ row' = [row EXCEPT ![Current] = "posted"]
  /\ pc' = "unpin"
  /\ UNCHANGED <<clocks, servers, known, pinned, owed, todo, server, posts, history, faults>>

\* pin(): the digest remembered is unpinned, the new one pinned and remembered.
\* A channel closed to the bot lets neither happen.
UnpinsNothing(s) == pinned[s]
Unpinned(s) == pinned[s] \ {known[s]}

Unpin ==
  /\ pc = "unpin"
  /\ pinned' = IF channel[server] = "closed" THEN pinned
               ELSE [pinned EXCEPT ![server] = Unpinned(server)]
  /\ pc' = "pin"
  /\ UNCHANGED <<clocks, servers, row, known, owed, todo, server, posts, history, faults>>

Pin ==
  /\ pc = "pin"
  /\ pinned' = IF channel[server] = "closed" THEN pinned
               ELSE [pinned EXCEPT ![server] = @ \cup {Current[2]}]
  /\ pc' = "remember"
  /\ UNCHANGED <<clocks, servers, row, known, owed, todo, server, posts, history, faults>>

Remember ==
  /\ pc = "remember"
  /\ known' = [known EXCEPT ![server] = Current[2]]
  /\ NextServer
  /\ UNCHANGED <<clocks, servers, row, pinned, owed, todo, posts, history, faults>>

\* Any other failure of one server is logged, and the rest go on.
ServerFails ==
  /\ pc \in {"intend", "post", "record", "unpin", "pin", "remember"}
  /\ Fault
  /\ NextServer
  /\ UNCHANGED <<clocks, servers, tables, owed, todo, posts, history>>

HourRan ==
  /\ pc = "servers"
  /\ todo = {}
  /\ ran' = [ran EXCEPT ![Head(owed)] = @ + 1]
  /\ pc' = "recordRun"
  /\ UNCHANGED <<clocks, servers, tables, owed, todo, server, posts, written, dropped, faults>>

RecordRun ==
  /\ pc = "recordRun"
  /\ lastRun' = Reading(Head(owed))
  /\ written' = written \cup {Head(owed)}
  /\ owed' = Tail(owed)
  /\ pc' = IF Tail(owed) = <<>> THEN "idle" ELSE "list"
  /\ UNCHANGED <<clock, servers, tables, todo, server, posts, ran, dropped, faults>>

\* A Job_Runs write that is refused ends the pass.
RecordRunFails ==
  /\ pc = "recordRun"
  /\ Fault
  /\ owed' = <<>>
  /\ pc' = "idle"
  /\ UNCHANGED <<clocks, servers, tables, todo, server, posts, history>>

-----------------------------------------------------------------------------
Process ==
  \/ Start \/ Pass \/ ListDue
  \/ \E s \in Servers : TakeServer(s)
  \/ Intend \/ Post \/ MissingAccess \/ RecordPosted \/ Unpin \/ Pin \/ Remember
  \/ HourRan \/ RecordRun

Environment ==
  \/ Tick
  \/ \E s \in Servers : SwitchOn(s)
  \/ \E s \in Servers, state \in {"open", "unbound"} : SetChannel(s, state)

Failures ==
  \/ \E s \in Servers : CloseChannel(s)
  \/ Crash \/ HourFails \/ ServerFails \/ RecordRunFails

Next == Process \/ Environment \/ Failures

Spec == Init /\ [][Next]_vars

\* The loop passes every few minutes, and a process that died is started again.
FairSpec == Spec /\ WF_vars(Process)

-----------------------------------------------------------------------------
\* Properties.

TypeOK ==
  /\ clock \in Hour
  /\ lastRun \in {Never} \cup Hour
  /\ feature \in SUBSET Servers
  /\ channel \in [Servers -> {"open", "closed", "unbound"}]
  /\ row \in [Digest -> {"absent", "owed", "posted"}]
  /\ known \in [Servers -> {Never} \cup Hour]
  /\ pinned \in [Servers -> SUBSET Hour]
  /\ pc \in {"down", "idle", "list", "servers", "intend", "post", "record",
             "unpin", "pin", "remember", "recordRun"}
  /\ owed \in Seq(Hour) /\ Len(owed) <= CatchUp
  /\ todo \in SUBSET Servers
  /\ server \in Servers \cup {Nobody}
  /\ posts \in [Digest -> Nat]
  /\ ran \in [Hour -> Nat]
  /\ written \in SUBSET Hour
  /\ dropped \in SUBSET Hour
  /\ faults \in 0..MaxFaults

\* A digest is repeated only at the price of a fault between its post and its
\* record, although failed hours, restarts and the repeated hour of the clock
\* run the same reading several times.
RepeatsCostFaults == \A k \in Digest : posts[k] <= 1 + faults

\* No hour is passed over: between an hour written down and one that ran, every
\* hour ran, unless the bot was away for longer than a catch up reaches.
NoHourPassedOver ==
  \A f, h, g \in Hour :
    f < h /\ h < g /\ f \in written /\ ran[g] > 0 => ran[h] > 0 \/ h \in dropped

\* An hour that failed is run before any hour after it: hours first succeed in
\* order.
HoursInOrder ==
  [][\A h \in Hour : ran[h] = 0 /\ ran'[h] > 0 =>
       \A g \in Hour : g > h => ran[g] = 0]_vars

\* The channel holds one pinned digest, and each one more is the price of a
\* fault, a closed channel being one.
PinsCostFaults ==
  \A s \in Servers : Cardinality(pinned[s]) <= 1 + faults

\* What a channel holds too much of, digests or pins, was paid for in faults
\* (guildDigest.ts, between the post and the two records of it).
ExtrasCostFaults == RepeatsCostFaults /\ PinsCostFaults

\* After the first run no hour is lost to failures, crashes and refused writes:
\* every hour that comes is run in the end, or was beyond the reach.
EveryHourRuns ==
  \A h \in Hour :
    (clock >= h /\ \E f \in Hour : f < h /\ f \in written)
      ~> (ran[h] > 0 \/ h \in dropped \/ HourStart(clock) < h)

\* scheduler.ts: a job is run once for each campus hour that has passed since
\* the hour it last ran for, so an hour written down is not run again. The
\* hour the clock repeats is the exception: written down by its reading, it is
\* counted again from the first of the two.
WrittenHourIsOver ==
  [][\A h \in written \ {Fold + 1} : ran'[h] = ran[h]]_vars

\* The hours run like a clock that may stop and catches up: none passed over,
\* the oldest first, and none again (scheduler.ts, hoursOwed and the pass).
HoursRunInOrder == []NoHourPassedOver /\ HoursInOrder /\ WrittenHourIsOver

-----------------------------------------------------------------------------
\* Inductive strengthenings.

AtServer == {"intend", "post", "record", "unpin", "pin", "remember"}

\* Where the process is, against what is in hand: a pass has hours left to run,
\* one after the other and none of them dropped, for what was dropped is beyond
\* reach; a server in hand is a server; and a post under way has its row.
PassInv ==
  /\ pc \notin {"down", "idle"} <=> owed # <<>>
  /\ \A n \in 1..Len(owed) :
       owed[n] = owed[1] + n - 1 /\ owed[n] \notin dropped /\ owed[n] <= HourStart(clock)
  /\ \A h \in dropped : h <= HourStart(clock) - CatchUp
  /\ pc \in AtServer => server \in Servers
  /\ pc \in {"post", "record"} => row[Current] = "owed"
  /\ pc = "recordRun" => ran[Head(owed)] > 0

\* The post a digest is allowed beyond the faults is spent once its row says
\* posted, or once it was made and is about to be recorded.
RepeatInv ==
  \A k \in Digest :
    posts[k] <= faults + (IF row[k] = "posted" \/ (pc = "record" /\ Current = k) THEN 1 ELSE 0)

\* The pins the bot does not know of were paid for, and a channel that closes
\* between a post and its unpinning has paid for the one that stays.
Handling(s) == pc \in AtServer /\ server = s
PinInv ==
  \A s \in Servers :
    /\ ~Handling(s) \/ pc \in {"intend", "post"} => Cardinality(Unpinned(s)) <= faults
    /\ Handling(s) /\ pc \in {"record", "unpin"} =>
         Cardinality(Unpinned(s)) + (IF channel[s] = "closed" THEN 1 ELSE 0) <= faults
    /\ Handling(s) /\ pc = "pin" => Cardinality(pinned[s]) <= faults
    /\ Handling(s) /\ pc = "remember" => Cardinality(pinned[s] \ {Current[2]}) <= faults

\* The hour the job last ran for, and the hours after it and before h, each of
\* them beyond a catch up, or the hour the clock repeats, run and written down
\* by its reading.
Since == InstantOf(lastRun)
OnlyDroppedBefore(h) ==
  \A g \in Hour :
    Since < g /\ g < h => g \in dropped \/ (g = Fold + 1 /\ Since = Fold /\ ran[g] > 0)

\* Why the hours run in order: what has run is no later than this hour; with no
\* hour written down, the hour owed is the latest of all; and with one, every
\* hour up to it that there was to run has run, and beyond it an hour has run,
\* or is about to be, only past hours a catch up had to drop.
RunInv ==
  /\ \A h \in Hour : ran[h] > 0 => h <= HourStart(clock)
  /\ lastRun = Never =>
       /\ written = {}
       /\ Len(owed) <= 1
       /\ owed # <<>> => \A h \in Hour : h > Head(owed) => ran[h] = 0
  /\ lastRun # Never =>
       /\ \A h \in written : h <= Since \/ h = Fold + 1
       /\ \A f \in written, h \in Hour : f < h /\ h <= Since => ran[h] > 0 \/ h \in dropped
       /\ \A h \in Hour : ran[h] > 0 => OnlyDroppedBefore(h)
       /\ owed # <<>> => Since < Head(owed) /\ OnlyDroppedBefore(Head(owed))
=============================================================================
