------------------------------ MODULE Requests ------------------------------
(***************************************************************************)
(* The way of an interaction through the bot: the dispatcher with the       *)
(* switch of the server and the limits (commands/index.ts), the windows the *)
(* limits are counted in (ratelimit/windows.ts), the calls that answer it   *)
(* (discord/adapter.ts), and the hot read cache most answers are drawn from *)
(* (via/cache.ts), which the outbox consumer drops what has changed from.   *)
(*                                                                         *)
(* Several interactions are under way at once: each step of one ends at an  *)
(* await, and between its reads and its writes the others go on.            *)
(***************************************************************************)
EXTENDS Integers, Sequences, FiniteSets, SequencesExt

CONSTANTS
  Interactions,  \* the interactions that may be under way at once
  Limits,        \* [unlinked, linked, guild, autocomplete]: what a window may hold
  Span,          \* how many minutes the windows of people and servers take in
  Ttl,           \* how many minutes a read is held
  MaxEntries,    \* how many listings the cache holds
  MaxTime,       \* bound on the minutes
  Scenes         \* [forms, most, topics, changes, minutes, toggles, faults]: the interactions
                 \* that may come and how many of them, what changes on VIA and
                 \* how often, how many minutes pass, and how often the switch is
                 \* turned and something fails

\* The reads the cache holds: the organizations, listings of one organization,
\* of another and of all of them, and the courses.
Lists == {"acm", "ieee", "every"}
Queries == Lists \cup {"rsos", "courses"}
\* A listing with the internal events, and the card of an event, are never held.
Unheld == {"internal", "event"}
Topics == {"acm", "ieee", "courses"}
Shows(query) == CASE query \in {"every", "rsos"} \cup Unheld -> "acm" [] OTHER -> query

\* A form sent back is answered like a command, and a button like one as well,
\* unless it changes the panel it is on or may open a form.
Kinds == {"command", "panel", "opener", "completion", "unknown", "orphan"}
People == {"ann", "bob"}
Subjects == People \cup {"typing", "server"}
Tiers == {"unlinked", "linked", "guild", "autocomplete"}
Minutes == 0..MaxTime

\* A panel the channel reads was put there by an answer the channel reads, which
\* no listing of internal events is; and what may open a form is for one person.
Readable(form) == form.installed /\ form.reads # "internal"
Forms ==
  {form \in [kind: Kinds, person: People, tier: {"unlinked", "linked"}, inServer: BOOLEAN,
             installed: BOOLEAN, private: BOOLEAN, always: BOOLEAN,
             reads: Queries \cup Unheld \cup {"nothing"}] :
     /\ form.kind = "panel" => form.private \/ Readable(form)
     /\ form.kind = "opener" => form.private}

ASSUME RequestsAssumption ==
  /\ Limits \in [Tiers -> Nat \ {0}]
  /\ {Span, Ttl, MaxEntries} \subseteq Nat \ {0}
  /\ MaxTime \in Nat
  /\ Interactions \cap Queries = {}
  /\ Scenes \subseteq [forms: SUBSET Forms, most: Nat, topics: SUBSET Topics, changes: Nat,
                      minutes: Minutes, toggles: Nat, faults: Nat]

NoForm == [kind |-> "none", person |-> "ann", tier |-> "unlinked", inServer |-> FALSE, installed |-> TRUE,
           private |-> TRUE, always |-> FALSE, reads |-> "nothing"]
Fresh == [form |-> NoForm, step |-> "new", used |-> 0, minute |-> 0, seen |-> 0,
          failed |-> FALSE, internal |-> FALSE]

VARIABLES
  request,   \* what the bot holds of each interaction: its form, step and readings
  shown,     \* Discord: what has become of it
  public,    \* Discord: the interactions whose answer the whole channel reads
  enabled,   \* Guild_Features: whether the feature is on in the server
  windows,   \* Rate_Windows: the count of each subject and minute
  held,      \* the cache: each read with its version and the minute it expires
  order,     \* the listings held, the one used longest ago first
  version,   \* VIA: how often each topic has changed
  internal,  \* VIA: whether the event asked for is internal to its organization
  outbox,    \* the changes not yet handled: [topic, version]
  now, scene, changes, toggles, faults,
  allowed,   \* history: what was let through, by subject and minute
  overlaps,  \* history: how often one was counted by another between read and write
  misused,   \* history: a call that Discord takes in no such state was made
  handled,   \* history: the version of each topic the consumer has handled
  revealed,  \* history: the interactions that put an internal event into a channel
  straddled  \* history: the interactions whose read was under way as what it shows was
             \* dropped, and the reads held that were written down so

platform == <<shown, public, version, internal>>
database == <<enabled, windows>>
cache    == <<held, order>>
budget   == <<scene, changes, toggles, faults>>
history  == <<allowed, overlaps, misused, revealed, handled, straddled>>
vars     == <<request, platform, database, cache, outbox, now, budget, history>>

Nothing == [version |-> -1, until |-> 0]

Init ==
  /\ request = [i \in Interactions |-> Fresh]
  /\ shown = [i \in Interactions |-> "open"] /\ public = {}
  /\ enabled = TRUE /\ windows = [s \in Subjects |-> [m \in Minutes |-> 0]]
  /\ held = [q \in Queries |-> Nothing] /\ order = <<>>
  /\ version = [t \in Topics |-> 0] /\ internal = FALSE /\ outbox = <<>>
  /\ now = 0 /\ scene \in Scenes /\ changes = 0 /\ toggles = 0 /\ faults = 0
  /\ allowed = windows /\ overlaps = [s \in Subjects |-> 0]
  /\ misused = FALSE /\ revealed = {} /\ handled = version /\ straddled = {}

At(i, step) == request[i].step = step
Goes(i, step) == request' = [request EXCEPT ![i].step = step]
Knowing(i, step, r) == request' = [request EXCEPT ![i] = [r EXCEPT !.step = step]]
Form(i) == request[i].form

-----------------------------------------------------------------------------
\* What Discord makes of a call that answers.

\* The events command asks for privacy where internal events were asked for.
Ephemeral(form) == form.private \/ form.reads = "internal"
HandlersChoice(form) == Ephemeral(form)
OnlyThePerson(form) == Ephemeral(form) \/ ~form.installed

\* A first answer is taken while the interaction is open, and only then a form.
Answers(i, call, seenByAll) ==
  LET taken == IF call = "edit" THEN shown[i] = "thinking" ELSE shown[i] = "open" IN
  /\ shown' = [shown EXCEPT ![i] = IF ~taken THEN @
                                   ELSE IF call = "defer" THEN "thinking" ELSE call]
  /\ public' = IF taken /\ seenByAll THEN public \cup {i} ELSE public
  /\ misused' = (misused \/ (~taken /\ shown[i] # "lapsed"))
  /\ UNCHANGED <<version, internal>>

\* applyReply chooses the call by what has been said before.
ApplyReply(i, seenByAll) ==
  IF shown[i] = "thinking" THEN Answers(i, "edit", FALSE) ELSE Answers(i, "reply", seenByAll)

Quietly == UNCHANGED <<platform, misused, revealed>>

-----------------------------------------------------------------------------
\* The dispatcher.

FirstStep(form) ==
  CASE form.kind = "completion" -> IF form.reads = "nothing" THEN "list" ELSE "typing"
    [] form.kind = "unknown" -> "refuse"
    [] form.kind = "orphan" -> "done"
    [] OTHER -> "switch"

Arrives(i) ==
  \E form \in scene.forms :
    /\ At(i, "new")
    /\ Cardinality({j \in Interactions : ~At(j, "new")}) < scene.most
    /\ Knowing(i, FirstStep(form), [request[i] EXCEPT !.form = form])
    /\ Quietly
    /\ UNCHANGED <<database, cache, outbox, now, budget, allowed, overlaps, handled, straddled>>

SwitchedOffHere(i) == Form(i).inServer /\ ~Form(i).always /\ ~enabled

RefusedByTheServer(i) ==
  /\ At(i, "switch")
  /\ Goes(i, IF SwitchedOffHere(i) THEN "refuse" ELSE "person")
  /\ Quietly
  /\ UNCHANGED <<database, cache, outbox, now, budget, allowed, overlaps, handled, straddled>>

Refuse(i) ==
  /\ At(i, "refuse")
  /\ ApplyReply(i, FALSE)
  /\ Goes(i, "done")
  /\ UNCHANGED <<revealed, database, cache, outbox, now, budget, allowed, overlaps, handled, straddled>>

\* The subjects are counted one after the other, each read and then written.
Counted(i) == IF request[i].step \in {"person", "countPerson"} THEN Form(i).person
              ELSE IF request[i].step \in {"typing", "countTyping"} THEN "typing" ELSE "server"
Counting(step) == CASE step = "typing" -> "countTyping"
                    [] step = "person" -> "countPerson"
                    [] OTHER -> "countServer"
TierOf(form, subject) == CASE subject = "typing" -> "autocomplete"
                           [] subject = "server" -> "guild"
                           [] OTHER -> form.tier

Earliest(tier) == IF tier = "autocomplete" THEN now ELSE now - Span + 1
\* What the rows of some minutes come to: one mark for each that was counted.
Marks(counts, from, to) ==
  UNION {{m} \X (1..counts[m]) : m \in {k \in Minutes : from <= k /\ k <= to}}
Within(counts, from, to) == Cardinality(Marks(counts, from, to))
Used(subject, tier) == Within(windows[subject], Earliest(tier), now)

ReadWindow(i) ==
  LET subject == Counted(i)   tier == TierOf(Form(i), subject)   used == Used(subject, tier) IN
  /\ request[i].step \in {"typing", "person", "server"}
  /\ IF used < Limits[tier]
     THEN Knowing(i, Counting(request[i].step), [request[i] EXCEPT !.used = used, !.minute = now,
                                                                 !.seen = Within(allowed[subject], 0, MaxTime)])
     ELSE Goes(i, IF subject = "typing" THEN "list" ELSE "refuse")
  /\ Quietly
  /\ UNCHANGED <<database, cache, outbox, now, budget, allowed, overlaps, handled, straddled>>

Acknowledges(form) == IF form.kind = "opener" THEN "run" ELSE "acknowledge"

\* The increment is an increment, in the bucket of the minute of the read.
StoredCount(i, subject) == request[i].used + 1
Stored(i, subject) == windows[subject][request[i].minute] + 1

CountOne(i) ==
  LET subject == Counted(i)   minute == request[i].minute IN
  /\ request[i].step \in {"countTyping", "countPerson", "countServer"}
  /\ windows' = [windows EXCEPT ![subject][minute] = Stored(i, subject)]
  /\ allowed' = [allowed EXCEPT ![subject][minute] = @ + 1]
  /\ overlaps' = [overlaps EXCEPT ![subject] =
                    IF Within(allowed[subject], 0, MaxTime) > request[i].seen THEN @ + 1 ELSE @]
  /\ Goes(i, CASE subject = "typing" -> "run"
               [] subject \in People /\ Form(i).inServer -> "server"
               [] OTHER -> Acknowledges(Form(i)))
  /\ Quietly
  /\ UNCHANGED <<enabled, cache, outbox, now, budget, handled, straddled>>

\* Deferred for the person or for the channel, which Discord fixes there.
Acknowledge(i) ==
  /\ At(i, "acknowledge") /\ Form(i).kind # "panel"
  /\ Answers(i, "defer", ~OnlyThePerson(Form(i)))
  /\ Goes(i, IF shown[i] = "lapsed" THEN "done" ELSE "run")
  /\ UNCHANGED <<revealed, database, cache, outbox, now, budget, allowed, overlaps, handled, straddled>>

\* The message a panel is on stays what it is.
AcknowledgePanel(i) ==
  /\ At(i, "acknowledge") /\ Form(i).kind = "panel"
  /\ Answers(i, "defer", ~Form(i).private)
  /\ Goes(i, IF shown[i] = "lapsed" THEN "done" ELSE "run")
  /\ UNCHANGED <<revealed, database, cache, outbox, now, budget, allowed, overlaps, handled, straddled>>

-----------------------------------------------------------------------------
\* The handler's read, through the cache, and its answer.

Hit(query) == held[query].until > now
KeptThere(q, used) == used
\* Those of a sequence without repetition that are among some, in its order.
Among(some, used) ==
  LET places == {n \in DOMAIN used : used[n] \in some}
      nth(k) == CHOOSE n \in places : Cardinality({m \in places : m <= n}) = k
  IN [k \in 1..Cardinality(places) |-> used[nth(k)]]
Without(q, used) == Among(Queries \ {q}, used)
ToEnd(q, used) == Append(Without(q, used), q)

Run(i) ==
  LET query == Form(i).reads IN
  /\ At(i, "run")
  /\ IF query \in Queries /\ Hit(query)
     THEN /\ order' = IF query \in Lists THEN ToEnd(query, order) ELSE order
          /\ Goes(i, "answer")
          /\ UNCHANGED held
     ELSE /\ Goes(i, IF query = "nothing" THEN "answer" ELSE "fetch")
          /\ order' = Without(query, order)
          /\ held' = [q \in Queries |-> IF q = query /\ q # "rsos" THEN Nothing ELSE held[q]]
  /\ Quietly
  /\ UNCHANGED <<database, outbox, now, budget, allowed, overlaps, handled, straddled>>

\* What VIA answers is fixed here, and reaches the cache a step later.
Fetch(i) ==
  LET query == Form(i).reads IN
  /\ At(i, "fetch")
  /\ Knowing(i, IF query \in Queries THEN "store" ELSE "answer",
             [request[i] EXCEPT !.seen = version[Shows(query)],
                                !.internal = query = "internal" \/ (query = "event" /\ internal)])
  /\ Quietly
  /\ UNCHANGED <<database, cache, outbox, now, budget, allowed, overlaps, handled, straddled>>

\* A write sweeps what has expired, and then what was used longest ago.
Live(used) == Among({q \in Queries : Hit(q)}, used)
Room(used) == IF Len(used) >= MaxEntries THEN SubSeq(used, Len(used) - MaxEntries + 2, Len(used)) ELSE used
Kept(query) == IF query \in Lists THEN Room(Live(Without(query, order))) ELSE order

Store(i) ==
  LET query == Form(i).reads   kept == Kept(query)
      stays(q) == q \notin Lists \/ \E n \in DOMAIN kept : kept[n] = q
  IN
  /\ At(i, "store")
  /\ held' = [q \in Queries |-> IF q = query THEN [version |-> request[i].seen, until |-> now + Ttl]
                                ELSE IF stays(q) THEN held[q] ELSE Nothing]
  /\ order' = IF query \in Lists THEN Append(kept, query) ELSE order
  /\ Goes(i, "answer")
  /\ straddled' = (IF i \in straddled THEN straddled \cup {query} ELSE straddled \ {query}) \ {i}
  /\ Quietly
  /\ UNCHANGED <<database, outbox, now, budget, allowed, overlaps, handled>>

\* The event command says of an internal event that it is not for the channel;
\* a row of a listing opens the card in the place of the listing.
AnswersTheChannel(form) == form.installed /\ form.inServer
TellsInternal(i) ==
  /\ request[i].internal /\ ~request[i].failed
  /\ ~(Form(i).kind = "command" /\ Form(i).reads = "event" /\ AnswersTheChannel(Form(i)))

Reveals(i) ==
  revealed' = IF TellsInternal(i) /\ Form(i).inServer THEN revealed \cup ({i} \cap public') ELSE revealed

\* A form, which has to be first, or an answer.
AnswerOrShowModal(i) ==
  /\ At(i, "answer") /\ Form(i).kind \notin {"panel", "completion"}
  /\ \/ Form(i).kind = "opener" /\ ~request[i].failed /\ Answers(i, "form", FALSE)
     \/ ApplyReply(i, ~OnlyThePerson(Form(i)))
  /\ Reveals(i)
  /\ Goes(i, "done")
  /\ UNCHANGED <<database, cache, outbox, now, budget, allowed, overlaps, handled, straddled>>

ApplyUpdate(i) ==
  /\ At(i, "answer") /\ Form(i).kind = "panel"
  /\ Answers(i, IF shown[i] = "thinking" THEN "edit" ELSE "update", FALSE)
  /\ Reveals(i)
  /\ Goes(i, "done")
  /\ UNCHANGED <<database, cache, outbox, now, budget, allowed, overlaps, handled, straddled>>

\* Too late is only logged.
AnswerAutocomplete(i) ==
  /\ At(i, "list") \/ (At(i, "answer") /\ Form(i).kind = "completion")
  /\ Answers(i, "list", FALSE)
  /\ Goes(i, "done")
  /\ UNCHANGED <<revealed, database, cache, outbox, now, budget, allowed, overlaps, handled, straddled>>

-----------------------------------------------------------------------------
\* The consumer, VIA, the managers and time.

OnlyItsOwn(query, topic) == query = topic
Concerns(query, topic) == query \in {topic, "every", "rsos"}

\* Once the entry is handled everything held for the organization is dropped;
\* an entry there is no handler for drops nothing.
InvalidateRso(topic) ==
  LET dropped == {q \in Queries \ {"courses"} : Concerns(q, topic)} IN
  /\ held' = [q \in Queries |-> IF q \in dropped THEN Nothing ELSE held[q]]
  /\ order' = Among(Queries \ dropped, order)

Handle(outcome) ==
  LET entry == Head(outbox) IN
  /\ outbox # <<>>
  /\ outbox' = Tail(outbox)
  /\ IF outcome = "handled"
     THEN /\ InvalidateRso(entry.topic)
          /\ handled' = [handled EXCEPT ![entry.topic] = entry.version]
          /\ straddled' = straddled \cup {i \in Interactions :
                                            At(i, "store") /\ Concerns(Form(i).reads, entry.topic)}
     ELSE UNCHANGED <<cache, handled, straddled>>
  /\ Quietly
  /\ UNCHANGED <<request, database, now, budget, allowed, overlaps>>

Changes(topic) ==
  /\ topic \in scene.topics /\ changes < scene.changes
  /\ version' = [version EXCEPT ![topic] = @ + 1]
  /\ internal' \in IF topic = "acm" THEN BOOLEAN ELSE {internal}
  /\ outbox' = IF topic = "courses" THEN outbox
               ELSE Append(outbox, [topic |-> topic, version |-> version'[topic]])
  /\ changes' = changes + 1
  /\ UNCHANGED <<request, shown, public, database, cache, now, scene, toggles, faults, history>>

Toggle ==
  /\ toggles < scene.toggles
  /\ enabled' = ~enabled /\ toggles' = toggles + 1
  /\ UNCHANGED <<request, platform, windows, cache, outbox, now, scene, changes, faults, history>>

Tick ==
  /\ now < scene.minutes
  /\ now' = now + 1
  /\ UNCHANGED <<request, platform, database, cache, outbox, budget, history>>

\* What has not been answered in its three seconds is not answered any more.
Lapse(i) ==
  /\ faults < scene.faults /\ shown[i] = "open" /\ ~At(i, "new") /\ ~At(i, "done")
  /\ shown' = [shown EXCEPT ![i] = "lapsed"]
  /\ faults' = faults + 1
  /\ UNCHANGED <<request, public, version, internal, database, cache, outbox, now, scene, changes, toggles, history>>

\* The database or VIA does not answer: a handler says so, anything else is
\* only logged.
Fails(i) ==
  /\ faults < scene.faults
  /\ \/ request[i].step \in {"switch", "typing", "person", "server"} /\ Goes(i, "done")
     \/ At(i, "fetch") /\ Form(i).kind # "completion" /\ Knowing(i, "answer", [request[i] EXCEPT !.failed = TRUE])
     \/ At(i, "fetch") /\ Form(i).kind = "completion" /\ Goes(i, "list")
  /\ faults' = faults + 1
  /\ UNCHANGED <<platform, database, cache, outbox, now, scene, changes, toggles, history>>

\* The process goes, and with it the cache and whatever was under way.
Crash ==
  /\ faults < scene.faults
  /\ request' = [i \in Interactions |-> IF At(i, "new") THEN Fresh ELSE [request[i] EXCEPT !.step = "done"]]
  /\ shown' = [i \in Interactions |-> IF shown[i] = "open" /\ ~At(i, "new") THEN "lapsed" ELSE shown[i]]
  /\ held' = [q \in Queries |-> Nothing] /\ order' = <<>>
  /\ faults' = faults + 1
  /\ straddled' = {}
  /\ UNCHANGED <<public, version, internal, database, outbox, now, scene, changes, toggles, allowed, overlaps, misused, revealed, handled>>

Step(i) ==
  \/ Arrives(i) \/ RefusedByTheServer(i) \/ Refuse(i) \/ ReadWindow(i) \/ CountOne(i)
  \/ Acknowledge(i) \/ AcknowledgePanel(i) \/ Run(i) \/ Fetch(i) \/ Store(i)
  \/ AnswerOrShowModal(i) \/ ApplyUpdate(i) \/ AnswerAutocomplete(i) \/ Lapse(i) \/ Fails(i)

Next ==
  \/ \E i \in Interactions : Step(i)
  \/ \E outcome \in {"handled", "unhandled"} : Handle(outcome)
  \/ \E topic \in Topics : Changes(topic)
  \/ Toggle \/ Tick \/ Crash

Spec == Init /\ [][Next]_vars

-----------------------------------------------------------------------------
Steps == {"new", "switch", "refuse", "typing", "person", "server", "countTyping", "countPerson",
          "countServer", "acknowledge", "run", "fetch", "store", "answer", "list", "done"}
Readings == [form: Forms \cup {NoForm}, step: Steps, used: Nat, minute: Minutes, seen: Nat,
             failed: BOOLEAN, internal: BOOLEAN]

TypeOK ==
  /\ request \in [Interactions -> Readings]
  /\ shown \in [Interactions -> {"open", "thinking", "reply", "edit", "form", "list", "lapsed"}]
  /\ public \subseteq Interactions /\ revealed \subseteq Interactions
  /\ enabled \in BOOLEAN /\ internal \in BOOLEAN /\ misused \in BOOLEAN
  /\ windows \in [Subjects -> [Minutes -> Nat]] /\ allowed \in [Subjects -> [Minutes -> Nat]]
  /\ held \in [Queries -> [version: Nat \cup {-1}, until: Nat]]
  /\ order \in Seq(Lists) /\ IsInjective(order)
  /\ version \in [Topics -> Nat] /\ handled \in [Topics -> Nat]
  /\ outbox \in Seq([topic: {"acm", "ieee"}, version: Nat])
  /\ now \in Minutes /\ scene \in Scenes
  /\ changes \in Nat /\ toggles \in Nat /\ faults \in Nat
  /\ overlaps \in [Subjects -> Nat]
  /\ straddled \subseteq Interactions \cup Queries

\* However an interaction goes through the dispatcher, what is said of it is what
\* Discord still takes: a form only first, an edit only of an acknowledgement,
\* nothing twice. A channel reads only what its server installed the bot for and
\* the handler meant for it, and an internal event only where a row of a listing
\* that was in the channel before is pressed. Who asked is told something, unless
\* something failed or the button is one nobody answers (commands/index.ts:220-240
\* and 342-400, commands/events.ts:239 and 273-353, discord/adapter.ts:582-693).
AnswersFit ==
  /\ ~misused
  /\ \A i \in public : Form(i).installed /\ ~Ephemeral(Form(i))
  /\ \A i \in revealed : Form(i).kind = "panel"
  /\ \A i \in Interactions :
       At(i, "done") /\ shown[i] \in {"open", "thinking"} => Form(i).kind = "orphan" \/ faults > 0

\* What is between the steps of an interaction: what Discord shows of it fits the
\* place the bot has come to, and nothing internal is in hand but by the reads
\* that can hold it.
Way(i) ==
  LET kind == Form(i).kind   step == request[i].step IN
  /\ IF step = "new" THEN shown[i] = "open" /\ i \notin public \cup revealed /\ ~request[i].internal
                     ELSE Form(i) \in Forms
  /\ step \in {"typing", "countTyping", "list"} => kind = "completion"
  /\ step \in {"switch", "person", "server", "countPerson", "countServer"} =>
       kind \in {"command", "panel", "opener"}
  /\ step = "acknowledge" => kind \in {"command", "panel"}
  /\ step \in {"run", "fetch", "store", "answer"} => kind \in {"command", "panel", "opener", "completion"}
  /\ step = "fetch" => Form(i).reads # "nothing"
  /\ step = "store" => Form(i).reads \in Queries
  /\ step # "done" =>
       shown[i] \in IF step \in {"run", "fetch", "store", "answer"} /\ kind \in {"command", "panel"}
                   THEN {"thinking"} ELSE {"open", "lapsed"}
  /\ request[i].internal => Form(i).reads \in Unheld
  /\ i \in public => Form(i).installed /\ ~Ephemeral(Form(i))
  /\ i \in revealed => kind = "panel"
  /\ step = "done" /\ shown[i] \in {"open", "thinking"} => kind = "orphan" \/ faults > 0

AnswerInv == ~misused /\ \A i \in Interactions : Way(i)

\* No window of a person, of their typing or of a server lets more through than
\* its limit, but for those that were counted while another was between its
\* read and its write; and the rows count what was let through, however many
\* were (ratelimit/windows.ts:152-195).
Most(subject) == CASE subject = "typing" -> Limits["autocomplete"]
                   [] subject = "server" -> Limits["guild"]
                   [] OTHER -> Max({Limits["unlinked"], Limits["linked"]})
LimitsHold ==
  /\ windows = allowed
  /\ \A subject \in Subjects, last \in Minutes :
       Within(allowed[subject], IF subject = "typing" THEN last ELSE last - Span + 1, last)
         <= Most(subject) + overlaps[subject]

\* What is between the read of a window and the write: where nothing was counted
\* since, the rows are still those that were read; and no row is of a later minute.
Total(subject) == Within(allowed[subject], 0, MaxTime)
Start(tier, last) == IF tier = "autocomplete" THEN last ELSE last - Span + 1
CountInv(i) ==
  LET subject == Counted(i)   tier == TierOf(Form(i), subject)   read == request[i] IN
  read.step \in {"countTyping", "countPerson", "countServer"} =>
    /\ read.minute <= now /\ read.seen <= Total(subject)
    /\ read.seen = Total(subject) =>
         /\ read.used = Within(allowed[subject], Start(tier, read.minute), read.minute)
         /\ read.used < Limits[tier]
         /\ \A m \in Minutes : m > read.minute => allowed[subject][m] = 0

LimitInv ==
  /\ LimitsHold
  /\ \A subject \in Subjects, m \in Minutes : m > now => allowed[subject][m] = 0
  /\ \A i \in Interactions : CountInv(i)

\* What is held of an organization is no older than the last of its changes that
\* the consumer has handled, unless its read was under way just then; it is
\* served for a minute at most, and there is never more of it than there may
\* be (via/cache.ts:182-215, outbox/consumer.ts:183).
CacheTells ==
  /\ \A q \in Queries \ {"courses"} :
       held[q] # Nothing => held[q].version >= handled[Shows(q)] \/ q \in straddled
  /\ \A q \in Queries : held[q].until <= now + Ttl
  /\ Len(order) <= MaxEntries /\ ToSet(order) = {q \in Lists : held[q] # Nothing}

\* What the consumer has handled, and will, has changed on VIA by then; and so
\* what is read now and written down later is as new, or known to straddle.
CacheInv ==
  /\ CacheTells
  /\ \A t \in Topics : handled[t] <= version[t]
  /\ \A n \in 1..Len(outbox) : outbox[n].version <= version[outbox[n].topic]
  /\ \A i \in Interactions :
       At(i, "store") => request[i].seen >= handled[Shows(Form(i).reads)] \/ i \in straddled
=============================================================================
