--------------------------- MODULE OutboxConsumer ---------------------------
(***************************************************************************)
(* The outbox consumer of the bot (outbox/consumer.ts), the cursor row it  *)
(* advances (outbox/cursor.ts), the Deliveries rows every post of a        *)
(* handler is written to before it is made (delivery/deliveries.ts, the    *)
(* post() of announce/handlers.ts), the rewind of the cursor at a startup  *)
(* (drainPending of jobs/housekeeping.ts, startLoops of index.ts) and the  *)
(* re-stamp of the cursor by the daily housekeeping.                       *)
(*                                                                         *)
(* One action is one stretch of the program between two awaits that        *)
(* touches the database, Discord or the consumer's memory. What a handler  *)
(* posts and where is data: a handling of entry e finds some set of        *)
(* targets in Audience[e], and posts to each of them in some order.        *)
(***************************************************************************)
EXTENDS Integers, FiniteSets

CONSTANTS
  NumEntries,   \* how many entries the web platform ever writes
  Targets,      \* the channels and people a post can be addressed to
  Audience,     \* Audience[e]: the target sets a handling of e may find
  Unhandled,    \* the entries of a kind that no handler answers
  Poison,       \* the posts that Discord refuses every time
  Closable,     \* the targets the bot can lose access to
  MaxAttempts,  \* DEFAULT_MAX_ATTEMPTS
  BatchSize,    \* DEFAULT_BATCH_SIZE
  MaxFaults,    \* bound on crashes and failed calls in a behaviour
  MaxStamps     \* bound on the housekeeping's re-stamps of the cursor

Entry == 1..NumEntries
Key == Entry \X Targets

ASSUME ConsumerAssumption ==
  /\ NumEntries \in Nat
  /\ Audience \in [Entry -> SUBSET (SUBSET Targets)]
  /\ \A e \in Entry : Audience[e] # {}
  /\ Unhandled \subseteq Entry
  /\ Poison \subseteq Key
  /\ Closable \subseteq Targets
  /\ MaxAttempts \in Nat \ {0}
  /\ BatchSize \in Nat \ {0}
  /\ MaxFaults \in Nat
  /\ MaxStamps \in Nat

VARIABLES
  published,  \* the web platform's outbox holds the entries 1..published
  cursorRow,  \* Outbox_Cursor.lastOutboxId, or NoCursor when there is no row
  row,        \* the Deliveries table: absent, owed (never posted), posted
  pc,         \* where the process is
  entry,      \* the entry of the page being handled
  last,       \* the last entry of the page in hand
  todo,       \* the targets the handler in flight has still to reach
  target,     \* the target the handler in flight is posting to
  attempts,   \* the failures of each entry, in memory
  stamp,      \* the cursor value housekeeping has read and not yet written back
  posts,      \* history: the posts made into Discord
  outcome,    \* history: what the last finished handling of an entry came to
  faults,     \* how many faults the environment has spent
  stamps      \* how many re-stamps housekeeping has begun

table  == <<published, cursorRow, row>>
memory == <<entry, last, todo, target, attempts, stamp>>
vars   == <<table, memory, pc, posts, outcome, faults, stamps>>

NoCursor == -1
NoStamp == -2
Nobody == "nobody"

\* The states of the process: not running, reading what it owes at a startup,
\* between polls, and inside a poll.
Idle == {"down", "drain", "idle"}
Handling == {"handler", "post", "record", "abandon", "threw"}
Polling == Handling \cup {"entry", "advance"}

\* The cursor as read() answers it: no row is the start of the outbox.
ReadCursor == IF cursorRow = NoCursor THEN 0 ELSE cursorRow

\* The first entry of the page after the cursor.
PageSkipsOne == ReadCursor + 2
FirstOfPage == ReadCursor + 1

Current == <<entry, target>>
Passed(e) == outcome[e] # "none"
LesserOf(a, b) == IF a <= b THEN a ELSE b

\* Whether intend() says there is nothing left to do: the row is there and
\* carries the moment it was posted.
NeverSettled(k) == FALSE
Settled(k) == row[k] = "posted"

\* Whether a failure of entry e is the last one it is allowed.
GivesUpTooLate(e) == attempts[e] + 1 > MaxAttempts
GivesUp(e) == attempts[e] + 1 >= MaxAttempts

\* Where a failure that is not the last leaves the poll: the batch stops
\* there, and the cursor is not advanced.
FailureIsPassed == "advance"
AfterFailure == "idle"

\* An entry that was given up on is left behind: the cursor goes on past it.
StaysWhenGivenUp == "idle"
AfterGivingUp == "advance"

\* The owed row of the oldest entry, and where the cursor goes for it.
OldestOwed(e) ==
  /\ \E t \in Targets : row[<<e, t>>] = "owed"
  /\ \A k \in Key : row[k] = "owed" => e <= k[1]
RewindPastOldest(e) == LesserOf(cursorRow, e)
RewindTo(e) == LesserOf(cursorRow, e - 1)

Init ==
  /\ published = 0
  /\ cursorRow = NoCursor
  /\ row = [k \in Key |-> "absent"]
  /\ pc = "down"
  /\ entry = 0 /\ last = 0
  /\ todo = {} /\ target = Nobody
  /\ attempts = [e \in Entry |-> 0]
  /\ stamp = NoStamp
  /\ posts = [k \in Key |-> 0]
  /\ outcome = [e \in Entry |-> "none"]
  /\ faults = 0
  /\ stamps = 0

-----------------------------------------------------------------------------
\* The environment.

\* The web platform writes the next entry.
Publish ==
  /\ published < NumEntries
  /\ published' = published + 1
  /\ UNCHANGED <<cursorRow, row, memory, pc, posts, outcome, faults, stamps>>

\* A fault is a crash or a call that fails: each is spent from one budget.
Fault ==
  /\ faults < MaxFaults
  /\ faults' = faults + 1

\* The process dies, or is stopped: everything in memory goes.
Crash ==
  /\ pc # "down"
  /\ Fault
  /\ pc' = "down"
  /\ entry' = 0 /\ last' = 0
  /\ todo' = {} /\ target' = Nobody
  /\ attempts' = [e \in Entry |-> 0]
  /\ stamp' = NoStamp
  /\ UNCHANGED <<table, posts, outcome, stamps>>

-----------------------------------------------------------------------------
\* A startup.

Start ==
  /\ pc = "down"
  /\ pc' = "drain"
  /\ UNCHANGED <<table, memory, posts, outcome, faults, stamps>>

\* The oldest entry that carries an owed post is asked for again, and the
\* cursor is never moved forward. Nothing else writes these rows before the
\* loops are running, so the three awaits are one step.
DrainPending ==
  /\ pc = "drain"
  /\ \/ /\ \A k \in Key : row[k] # "owed"
        /\ UNCHANGED cursorRow
     \/ \E e \in Entry : OldestOwed(e) /\ cursorRow' = RewindTo(e)
  /\ pc' = "idle"
  /\ UNCHANGED <<published, row, memory, posts, outcome, faults, stamps>>

\* A drain that fails is logged, and the loops start all the same.
DrainFails ==
  /\ pc = "drain"
  /\ Fault
  /\ pc' = "idle"
  /\ UNCHANGED <<table, memory, posts, outcome, stamps>>

-----------------------------------------------------------------------------
\* The consumer.

\* One poll reads the cursor and the page after it. A poll that could not
\* read changes nothing.
Poll ==
  /\ pc = "idle"
  /\ FirstOfPage <= published
  /\ entry' = FirstOfPage
  /\ last' = LesserOf(published, ReadCursor + BatchSize)
  /\ pc' = "entry"
  /\ UNCHANGED <<table, todo, target, attempts, stamp, posts, outcome, faults, stamps>>

Begin ==
  /\ pc = "entry"
  /\ IF entry \in Unhandled
     THEN /\ pc' = "advance"
          /\ outcome' = [outcome EXCEPT ![entry] = "unhandled"]
          /\ UNCHANGED todo
     ELSE /\ pc' = "handler"
          /\ todo' \in Audience[entry]
          /\ UNCHANGED outcome
  /\ UNCHANGED <<table, entry, last, target, attempts, stamp, posts, faults, stamps>>

\* deliveries.intend: a row that says posted is a post that has been made, and
\* a row that does not is made now, whoever wrote it.
Intend(t) ==
  /\ pc = "handler"
  /\ t \in todo
  /\ IF Settled(<<entry, t>>)
     THEN /\ todo' = todo \ {t}
          /\ UNCHANGED <<row, target, pc>>
     ELSE /\ row' = [row EXCEPT ![<<entry, t>>] = "owed"]
          /\ target' = t
          /\ pc' = "post"
          /\ UNCHANGED todo
  /\ UNCHANGED <<published, cursorRow, entry, last, attempts, stamp,
                 posts, outcome, faults, stamps>>

Post ==
  /\ pc = "post"
  /\ Current \notin Poison
  /\ posts' = [posts EXCEPT ![Current] = @ + 1]
  /\ pc' = "record"
  /\ UNCHANGED <<table, memory, outcome, faults, stamps>>

RecordPosted ==
  /\ pc = "record"
  /\ row' = [row EXCEPT ![Current] = "posted"]
  /\ todo' = todo \ {target}
  /\ target' = Nobody
  /\ pc' = "handler"
  /\ UNCHANGED <<published, cursorRow, entry, last, attempts, stamp,
                 posts, outcome, faults, stamps>>

\* The channel has gone or is closed to the bot: the row goes with it.
MissingAccess ==
  /\ pc = "post"
  /\ target \in Closable
  /\ pc' = "abandon"
  /\ UNCHANGED <<table, memory, posts, outcome, faults, stamps>>

Abandon ==
  /\ pc = "abandon"
  /\ row' = [row EXCEPT ![Current] = "absent"]
  /\ todo' = todo \ {target}
  /\ target' = Nobody
  /\ pc' = "handler"
  /\ UNCHANGED <<published, cursorRow, entry, last, attempts, stamp,
                 posts, outcome, faults, stamps>>

\* A call of the handler fails: a read or a write of the database, or a post
\* that did not happen.
CallFails ==
  /\ pc \in {"handler", "post", "record", "abandon"}
  /\ Fault
  /\ pc' = "threw"
  /\ todo' = {} /\ target' = Nobody
  /\ UNCHANGED <<table, entry, last, attempts, stamp, posts, outcome, stamps>>

\* The post happened and the answer was lost, which the handler reads as a
\* failure.
AnswerLost ==
  /\ pc = "post"
  /\ Current \notin Poison
  /\ Fault
  /\ posts' = [posts EXCEPT ![Current] = @ + 1]
  /\ pc' = "threw"
  /\ todo' = {} /\ target' = Nobody
  /\ UNCHANGED <<table, entry, last, attempts, stamp, outcome, stamps>>

\* A post that Discord refuses every time.
PoisonedPost ==
  /\ pc = "post"
  /\ Current \in Poison
  /\ pc' = "threw"
  /\ todo' = {} /\ target' = Nobody
  /\ UNCHANGED <<table, entry, last, attempts, stamp, posts, outcome, faults, stamps>>

HandlerReturns ==
  /\ pc = "handler"
  /\ todo = {}
  /\ attempts' = [attempts EXCEPT ![entry] = 0]
  /\ outcome' = [outcome EXCEPT ![entry] = "handled"]
  /\ pc' = "advance"
  /\ UNCHANGED <<table, entry, last, todo, target, stamp, posts, faults, stamps>>

\* The bound on attempts: the batch stops where it is, or the entry is left
\* behind.
HandlerThrew ==
  /\ pc = "threw"
  /\ IF GivesUp(entry)
     THEN /\ attempts' = [attempts EXCEPT ![entry] = 0]
          /\ outcome' = [outcome EXCEPT ![entry] = "skipped"]
          /\ pc' = AfterGivingUp
     ELSE /\ attempts' = [attempts EXCEPT ![entry] = @ + 1]
          /\ pc' = AfterFailure
          /\ UNCHANGED outcome
  /\ UNCHANGED <<table, entry, last, todo, target, stamp, posts, faults, stamps>>

\* The cursor is written as it is given, and not compared with what is there.
Advance ==
  /\ pc = "advance"
  /\ cursorRow' = entry
  /\ IF entry < last
     THEN entry' = entry + 1 /\ pc' = "entry"
     ELSE UNCHANGED entry /\ pc' = "idle"
  /\ UNCHANGED <<published, row, last, todo, target, attempts, stamp,
                 posts, outcome, faults, stamps>>

\* A cursor that cannot be written ends the poll.
AdvanceFails ==
  /\ pc = "advance"
  /\ Fault
  /\ pc' = "idle"
  /\ UNCHANGED <<table, memory, posts, outcome, stamps>>

-----------------------------------------------------------------------------
\* The daily housekeeping, when the cursor has not moved for longer than the
\* outbox keeps its entries: it writes the value it read, so that the row
\* carries today's date. Two awaits, on a clock of its own.

StampRead ==
  /\ pc \notin {"down", "drain"}
  /\ stamp = NoStamp
  /\ cursorRow # NoCursor
  /\ stamps < MaxStamps
  /\ stamps' = stamps + 1
  /\ stamp' = cursorRow
  /\ UNCHANGED <<table, entry, last, todo, target, attempts, pc, posts, outcome, faults>>

StampWrite ==
  /\ stamp # NoStamp
  /\ cursorRow' = stamp
  /\ stamp' = NoStamp
  /\ UNCHANGED <<published, row, entry, last, todo, target, attempts, pc,
                 posts, outcome, faults, stamps>>

-----------------------------------------------------------------------------
\* What the process does when nothing goes wrong around it.
Process ==
  \/ Start \/ DrainPending \/ Poll \/ Begin
  \/ \E t \in Targets : Intend(t)
  \/ Post \/ RecordPosted \/ MissingAccess \/ Abandon \/ PoisonedPost
  \/ HandlerReturns \/ HandlerThrew \/ Advance

Failures == Crash \/ DrainFails \/ CallFails \/ AnswerLost \/ AdvanceFails

Next == Publish \/ Process \/ Failures \/ StampRead \/ StampWrite

Spec == Init /\ [][Next]_vars

\* The process keeps running: the loop polls for ever, an await comes back,
\* and a container that died is started again. Nothing is owed by the web
\* platform or by whatever fails.
FairSpec == Spec /\ WF_vars(Process) /\ WF_vars(StampWrite)

-----------------------------------------------------------------------------
\* Properties.

TypeOK ==
  /\ published \in 0..NumEntries
  /\ cursorRow \in {NoCursor} \cup 0..NumEntries
  /\ row \in [Key -> {"absent", "owed", "posted"}]
  /\ pc \in Idle \cup Polling
  /\ entry \in 0..NumEntries
  /\ last \in 0..NumEntries
  /\ todo \in SUBSET Targets
  /\ target \in Targets \cup {Nobody}
  /\ attempts \in [Entry -> 0..(MaxAttempts - 1)]
  /\ stamp \in {NoStamp} \cup 0..NumEntries
  /\ posts \in [Key -> Nat]
  /\ outcome \in [Entry -> {"none", "handled", "unhandled", "skipped"}]
  /\ faults \in 0..MaxFaults
  /\ stamps \in 0..MaxStamps

\* The cursor never passes an entry that no handling has finished: whatever
\* crashes, rewinds, failed writes and re-stamps of the cursor row happen,
\* every entry up to it was handled, had no handler, or was given up on.
CursorCoversFinished == \A e \in Entry : e <= cursorRow => Passed(e)

\* Nothing of an entry is posted while an earlier entry has yet to be
\* finished for the first time: servers hear of changes in the order the web
\* platform wrote them, though each of many passes may stop anywhere.
NoOvertaking ==
  \A k \in Key : posts[k] > 0 => \A d \in Entry : d < k[1] => Passed(d)

\* Every repeat of a post is paid for by a fault: with n crashes, lost answers
\* and failed writes so far, no delivery was posted more than n + 1 times, and
\* with none of them no delivery was posted twice, however often the entry was
\* read again (a poison target beside it, a rewind, a re-stamp).
RepeatsCostFaults == \A k \in Key : posts[k] <= 1 + faults

\* Once the row of a delivery says it was posted, it is never posted again.
RecordedIsFinal ==
  [][\A k \in Key : row[k] = "posted" => row'[k] = "posted" /\ posts'[k] = posts[k]]_vars

\* An entry the cursor has passed owes nothing, unless it was given up on: a
\* post that is still owed is one the consumer has yet to come to. It needs
\* the servers the entry reaches to stay the same between its handlings.
Steady(e) == \A found, again \in Audience[e] : found = again

NothingOwedBehindCursor ==
  \A k \in Key :
    row[k] = "owed" /\ k[1] <= cursorRow /\ Steady(k[1])
      => outcome[k[1]] = "skipped"

\* A startup after which nothing failed reads again every owed post: once the
\* drain has run, no owed row is behind the cursor, so nothing owed is
\* forgotten by a restart.
DrainReachesOwed ==
  [][pc = "drain" /\ pc' = "idle" /\ faults' = faults
       => /\ cursorRow' <= cursorRow
          /\ \A k \in Key : row[k] = "owed" => cursorRow' < k[1]]_vars

\* One entry that fails every time never stops the ones behind it: every entry
\* the web platform wrote is finished in the end.
EveryEntryFinished == \A e \in Entry : (published >= e) ~> Passed(e)

\* While fewer faults strike than an entry has attempts, every open target of
\* every entry without a poison is posted to and recorded in the end, whatever
\* is beside it in the outbox.
Reachable(e) ==
  {t \in Targets \ Closable : /\ \A found \in Audience[e] : t \in found
                              /\ \A u \in Targets : <<e, u>> \notin Poison}

EveryTargetReached ==
  \A e \in Entry \ Unhandled : \A t \in Reachable(e) :
    (published >= e) ~> (row[<<e, t>>] = "posted")

\* The outbox always moves: past every entry, and to every target that can be
\* reached (consumer.ts, the attempts of an entry and their end).
FeedMoves == EveryEntryFinished /\ EveryTargetReached

-----------------------------------------------------------------------------
\* Inductive strengthenings.

\* Where the process is, against what is in hand: a poll holds an entry of its
\* page, and a post in flight has a target whose row is owed.
InHand ==
  /\ pc \in Polling => entry \in Entry /\ entry <= last
  /\ pc \in {"post", "record", "abandon"} =>
       target \in Targets /\ row[Current] = "owed"
  /\ pc = "record" => posts[Current] > 0

\* The cursor, a re-stamp under way and the entry in hand never stand past the
\* first entry nobody has finished: CursorCoversFinished and NoOvertaking, with
\* what makes them survive the cursor going back between two polls.
OrderInv ==
  /\ CursorCoversFinished
  /\ NoOvertaking
  /\ stamp <= cursorRow
  /\ pc \in {"down", "drain"} => stamp = NoStamp
  /\ pc \in Polling =>
       /\ cursorRow <= entry
       /\ \A d \in Entry : d < entry => Passed(d)
  /\ pc = "advance" => Passed(entry)

\* The post that a delivery is allowed beyond the faults is spent once its row
\* says posted, or once it was made and is about to be recorded.
RepeatInv ==
  \A k \in Key :
    posts[k] <= faults + (IF row[k] = "posted" \/ (pc = "record" /\ Current = k)
                          THEN 1 ELSE 0)

\* Why nothing owed is behind the cursor: an owed row is of a target its entry
\* always reaches; the entries a poll has left behind owe nothing, or have been
\* given up on, even once a re-stamp has put the cursor back before them; and a
\* handling in flight still holds every target of its own that is owed.
OwedInv ==
  /\ pc \in Polling => cursorRow < entry
  /\ pc \in {"handler", "post", "record", "abandon"} =>
       entry \notin Unhandled /\ \E found \in Audience[entry] : todo \subseteq found
  /\ \A k \in Key : row[k] = "owed" /\ Steady(k[1]) =>
       /\ k[1] \notin Unhandled
       /\ k[2] \in UNION Audience[k[1]]
       /\ k[1] <= cursorRow => outcome[k[1]] = "skipped"
       /\ pc \in Polling /\ k[1] < entry => outcome[k[1]] = "skipped"
       /\ pc \in {"handler", "post", "record", "abandon"} /\ k[1] = entry => k[2] \in todo
       /\ pc = "advance" /\ k[1] = entry => outcome[entry] = "skipped"

-----------------------------------------------------------------------------
\* The promise of the feed, and the consumer as an implementation of it.
Promise == INSTANCE OutboxPromise
             WITH sent <- posts,
                  recorded <- {k \in Key : row[k] = "posted"},
                  passed <- {e \in Entry : Passed(e)}

PromiseSpec == Promise!Spec
=============================================================================
