------------------------ MODULE ScheduledEventMirror ------------------------
(***************************************************************************)
(* The Events tab of one server, for one event of the web platform         *)
(* (mirror/scheduledEvents.ts): the outbox consumer applies every entry    *)
(* about the event, and the roll of the mirroring window                   *)
(* (jobs/mirrorWindow.ts, and the reconciliation of jobs/housekeeping.ts)  *)
(* applies what a listing said, on a loop of its own. Both read and write  *)
(* the scheduledEventId of Event_Mirrors around their calls to Discord,    *)
(* and only the consumer writes a Deliveries row.                          *)
(*                                                                         *)
(* Entry n of the outbox says the event is as its version n. The consumer  *)
(* is the loop of OutboxConsumer, reduced to the entries of this event; a  *)
(* crash may put its cursor back, to this event's oldest owed row or for a *)
(* post owed to somebody else.                                             *)
(***************************************************************************)
EXTENDS Integers, Sequences, FiniteSets

CONSTANTS
  MaxEntries,   \* how many entries the event ever gets
  MaxRolled,    \* how many it gets where the roll runs beside the consumer
  Kinds,        \* the states of the event that a behaviour goes through
  MaxAttempts,  \* DEFAULT_MAX_ATTEMPTS
  MaxIds,       \* bound on the scheduled events created
  Rolls,        \* whether the roll of the window runs: some of BOOLEAN
  Hazards,      \* what may go wrong around the two loops
  MaxFaults     \* bound on how often it does

\* near: inside the window; far: outside it; cancelled; private: marked
\* internal; deleted: the entry is event.deleted.
AllKinds == {"near", "far", "cancelled", "private", "deleted"}
\* A crash, a call that fails, a call whose answer is lost, a manager deleting
\* the scheduled event by hand, the permission being taken away and given back.
AllHazards == {"crash", "fail", "lost", "manual", "permission"}

ASSUME MirrorAssumption ==
  /\ MaxEntries \in Nat \ {0}
  /\ MaxRolled \in 0..MaxEntries
  /\ Kinds \subseteq AllKinds
  /\ MaxAttempts \in Nat \ {0}
  /\ MaxIds \in Nat
  /\ Rolls \in SUBSET BOOLEAN
  /\ Hazards \subseteq AllHazards
  /\ MaxFaults \in Nat

Consumer == "consumer"
Roll == "roll"
Actor == {Consumer, Roll}

VARIABLES
  kinds,       \* what each entry written so far says of the event
  cursor,      \* the last entry the consumer finished
  tab,         \* Discord: the version each scheduled event shows, 0 for none
  lastId,      \* the last scheduled event identifier Discord gave out
  mirrorRow,   \* Event_Mirrors.scheduledEventId, 0 for null
  delivery,    \* the Deliveries row of each entry: NoRow, Owed or an identifier
  enabled,     \* whether mirror.scheduled is switched on in this server
  permitted,   \* whether the bot may manage events in this server
  pc, ver, held, made,  \* each actor: where it is, its snapshot, what it read
  attempts,    \* the consumer's failures of the entry in hand
  givenUp,     \* history: the entries left behind
  rolls,       \* whether the roll of the window runs in this behaviour
  overlapped,  \* history: both actors were inside apply at once
  struck,      \* history: the kinds of hazard that have struck
  faults       \* how often they have

platform == <<kinds, rolls>>
hazards  == <<struck, faults>>
database == <<cursor, mirrorRow, delivery, enabled>>
discord  == <<tab, lastId, permitted>>
locals   == <<pc, ver, held, made>>
history == <<givenUp, overlapped>>
vars == <<platform, database, discord, locals, attempts, history, hazards>>

NoRow == -1
Owed == 0
Id == 1..MaxIds
Version == 1..MaxEntries
Latest == Len(kinds)

KindOf(a) == kinds[ver[a]]
LeavesTab(kind) == kind \in {"cancelled", "private"}
Shown == {i \in Id : tab[i] # 0}

Init ==
  /\ kinds = <<>>
  /\ cursor = 0
  /\ tab = [i \in Id |-> 0]
  /\ lastId = 0
  /\ mirrorRow = 0
  /\ delivery = [n \in Version |-> NoRow]
  /\ enabled = TRUE
  /\ permitted = TRUE
  /\ pc = [a \in Actor |-> "idle"]
  /\ ver = [a \in Actor |-> 0]
  /\ held = [a \in Actor |-> 0]
  /\ made = [a \in Actor |-> 0]
  /\ attempts = 0
  /\ givenUp = {}
  /\ rolls \in Rolls
  /\ overlapped = FALSE
  /\ struck = {}
  /\ faults = 0

\* What goes wrong is bounded to the behaviours without the roll.
Strikes(hazard) ==
  /\ hazard \in Hazards
  /\ ~rolls
  /\ faults < MaxFaults
  /\ faults' = faults + 1
  /\ struck' = struck \cup {hazard}

\* An actor moves on, and what it holds beside its place stays.
Goes(a, place) ==
  /\ pc' = [pc EXCEPT ![a] = place]
  /\ UNCHANGED <<ver, held, made>>

\* A call returns: the entry is finished, or the roll is over.
Done(a) == Goes(a, IF a = Consumer THEN "advance" ELSE "idle")
Throws(a) == Goes(a, IF a = Consumer THEN "threw" ELSE "idle")

-----------------------------------------------------------------------------
\* The environment.

\* The web platform writes an entry: the first is a creation, and nothing
\* follows a deletion.
Publish(kind) ==
  /\ Latest < (IF rolls THEN MaxRolled ELSE MaxEntries)
  /\ kind \in Kinds
  /\ Latest = 0 => kind \in {"near", "far", "private"}
  /\ Latest > 0 => kinds[Latest] # "deleted"
  /\ kinds' = Append(kinds, kind)
  /\ UNCHANGED <<rolls, database, discord, locals, attempts, history, hazards>>

ManualDelete(i) ==
  /\ tab[i] # 0
  /\ Strikes("manual")
  /\ tab' = [tab EXCEPT ![i] = 0]
  /\ UNCHANGED <<platform, database, lastId, permitted, locals, attempts, history>>

RevokePermission ==
  /\ permitted
  /\ Strikes("permission")
  /\ permitted' = FALSE
  /\ UNCHANGED <<platform, database, tab, lastId, locals, attempts, history>>

GrantPermission ==
  /\ ~permitted
  /\ permitted' = TRUE
  /\ UNCHANGED <<platform, database, tab, lastId, locals, attempts, history, hazards>>

\* A manager switches the feature on again from the panel, which asks for the
\* permission first.
SwitchOn ==
  /\ ~enabled
  /\ permitted
  /\ enabled' = TRUE
  /\ UNCHANGED <<platform, cursor, mirrorRow, delivery, discord, locals,
                 attempts, history, hazards>>

\* The process dies and starts again: no owed row stays behind the cursor, and
\* a post owed elsewhere may put it further back.
Crash ==
  /\ Strikes("crash")
  /\ \E to \in 0..cursor :
       /\ \A n \in 1..to : delivery[n] # Owed
       /\ cursor' = to
  /\ pc' = [a \in Actor |-> "idle"]
  /\ ver' = [a \in Actor |-> 0]
  /\ held' = [a \in Actor |-> 0]
  /\ made' = [a \in Actor |-> 0]
  /\ attempts' = 0
  /\ UNCHANGED <<platform, mirrorRow, delivery, enabled, discord, history>>

-----------------------------------------------------------------------------
\* Where an actor begins.

Begins(a, version, place) ==
  /\ ver' = [ver EXCEPT ![a] = version]
  /\ pc' = [pc EXCEPT ![a] = place]
  /\ overlapped' = (overlapped \/ \E b \in Actor : pc[b] # "idle")
  /\ UNCHANGED <<platform, database, discord, held, made, attempts, givenUp, hazards>>

Take ==
  /\ pc[Consumer] = "idle"
  /\ cursor < Latest
  /\ Begins(Consumer, cursor + 1, IF kinds[cursor + 1] = "deleted" THEN "remove" ELSE "apply")

\* rollGuild: the listing of the window as it stands now, in which a cancelled
\* event still is and an internal one is not.
RollRead ==
  /\ rolls
  /\ pc[Roll] = "idle"
  /\ enabled
  /\ Latest > 0 /\ kinds[Latest] \in {"near", "cancelled"}
  /\ Begins(Roll, Latest, "apply")

-----------------------------------------------------------------------------
\* apply(), one await at a time, for either actor.

CheckFeature(a) ==
  /\ pc[a] = "apply"
  /\ IF enabled THEN Goes(a, "get") ELSE Done(a)
  /\ UNCHANGED <<platform, database, discord, attempts, history, hazards>>

\* Whether apply has anything to do for what it read: an event that leaves the
\* tab needs a scheduled event to delete, one outside the window needs one to
\* keep in step.
HasWorkOnce(kind, id) == IF LeavesTab(kind) THEN id # 0 ELSE kind = "near" /\ id = 0
HasWork(kind, id) == IF LeavesTab(kind) \/ kind = "far" THEN id # 0 ELSE TRUE

ReadMirror(a) ==
  /\ pc[a] = "get"
  /\ held' = [held EXCEPT ![a] = mirrorRow]
  /\ pc' = [pc EXCEPT ![a] =
              IF HasWork(KindOf(a), mirrorRow) THEN "permission"
              ELSE IF a = Consumer THEN "advance" ELSE "idle"]
  /\ UNCHANGED <<platform, database, discord, ver, made, attempts, history, hazards>>

\* What apply does once it may: delete, edit, or create, which the consumer
\* writes a delivery row for first.
NextCallUnread(a) ==
  IF LeavesTab(KindOf(a)) THEN "delete" ELSE IF a = Consumer THEN "intend" ELSE "create"
NextCall(a) ==
  IF LeavesTab(KindOf(a)) THEN "delete"
  ELSE IF held[a] # 0 THEN "edit"
  ELSE IF a = Consumer THEN "intend" ELSE "create"

\* mayMirror: a server that took the permission away has the feature switched
\* off.
MayMirror(a) ==
  /\ pc[a] = "permission"
  /\ IF permitted
     THEN Goes(a, NextCall(a)) /\ UNCHANGED enabled
     ELSE Done(a) /\ enabled' = FALSE
  /\ UNCHANGED <<platform, cursor, mirrorRow, delivery, discord, attempts, history, hazards>>

\* A scheduled event that is already gone, and one the bot may no longer
\* delete, both count as deleted.
DeleteScheduledEvent(a) ==
  /\ pc[a] = "delete"
  /\ tab' = IF permitted THEN [tab EXCEPT ![held[a]] = 0] ELSE tab
  /\ Goes(a, "clear")
  /\ UNCHANGED <<platform, database, lastId, permitted, attempts, history, hazards>>

\* Any other failure is thrown on, after the finally block has cleared the row.
DeleteFails(a) ==
  /\ pc[a] = "delete"
  /\ Strikes("fail")
  /\ Goes(a, "clearAndThrow")
  /\ UNCHANGED <<platform, database, discord, attempts, history>>

ClearMirror(a) ==
  /\ pc[a] \in {"clear", "clearAndThrow"}
  /\ mirrorRow' = 0
  /\ IF pc[a] = "clear" THEN Done(a) ELSE Throws(a)
  /\ UNCHANGED <<platform, cursor, delivery, enabled, discord, attempts, history, hazards>>

\* An edit of a scheduled event that is no longer there is thrown on, and so is
\* one that came too late for the permission.
EditScheduledEvent(a) ==
  /\ pc[a] = "edit"
  /\ IF permitted /\ tab[held[a]] # 0
     THEN tab' = [tab EXCEPT ![held[a]] = ver[a]] /\ Done(a)
     ELSE UNCHANGED tab /\ Throws(a)
  /\ UNCHANGED <<platform, database, lastId, permitted, attempts, history, hazards>>

\* deliveries.intend: where an intention leads, by the row it finds.
LeavesRecorded(row) == IF row \in Id THEN "advance" ELSE "create"
IntendLeadsTo(row) == IF row \in Id THEN "recordAgain" ELSE "create"

Intend ==
  /\ pc[Consumer] = "intend"
  /\ Goes(Consumer, IntendLeadsTo(delivery[ver[Consumer]]))
  /\ delivery' = [delivery EXCEPT ![ver[Consumer]] = IF @ = NoRow THEN Owed ELSE @]
  /\ UNCHANGED <<platform, cursor, mirrorRow, enabled, discord, attempts, history, hazards>>

\* The row says it was created, so the mirror row is written from it.
RecordAgain ==
  /\ pc[Consumer] = "recordAgain"
  /\ mirrorRow' = delivery[ver[Consumer]]
  /\ Done(Consumer)
  /\ UNCHANGED <<platform, cursor, delivery, enabled, discord, attempts, history, hazards>>

NewScheduledEvent(a) ==
  /\ pc[a] = "create"
  /\ permitted
  /\ lastId < MaxIds
  /\ lastId' = lastId + 1
  /\ tab' = [tab EXCEPT ![lastId + 1] = ver[a]]

CreateScheduledEvent(a) ==
  /\ NewScheduledEvent(a)
  /\ made' = [made EXCEPT ![a] = lastId + 1]
  /\ pc' = [pc EXCEPT ![a] = IF a = Consumer THEN "recordPosted" ELSE "recordMirror"]
  /\ UNCHANGED <<platform, database, permitted, ver, held, attempts, history, hazards>>

\* The scheduled event was created, and the answer was lost.
CreateAnswerLost(a) ==
  /\ NewScheduledEvent(a)
  /\ Strikes("lost")
  /\ Throws(a)
  /\ UNCHANGED <<platform, database, permitted, attempts, history>>

\* A creation that came too late for the permission.
CreateRefused(a) ==
  /\ pc[a] = "create"
  /\ ~permitted
  /\ Throws(a)
  /\ UNCHANGED <<platform, database, discord, attempts, history, hazards>>

RecordPosted ==
  /\ pc[Consumer] = "recordPosted"
  /\ delivery' = [delivery EXCEPT ![ver[Consumer]] = made[Consumer]]
  /\ Goes(Consumer, "recordMirror")
  /\ UNCHANGED <<platform, cursor, mirrorRow, enabled, discord, attempts, history, hazards>>

RecordMirror(a) ==
  /\ pc[a] = "recordMirror"
  /\ mirrorRow' = made[a]
  /\ Done(a)
  /\ UNCHANGED <<platform, cursor, delivery, enabled, discord, attempts, history, hazards>>

\* remove(), for event.deleted: neither the feature nor the permission is asked
\* about.
Remove ==
  /\ pc[Consumer] = "remove"
  /\ held' = [held EXCEPT ![Consumer] = mirrorRow]
  /\ pc' = [pc EXCEPT ![Consumer] = IF mirrorRow = 0 THEN "advance" ELSE "delete"]
  /\ UNCHANGED <<platform, database, discord, ver, made, attempts, history, hazards>>

\* A read or a write of the database, or a call of Discord, fails with nothing
\* done.
CallFails(a) ==
  /\ pc[a] \notin {"idle", "threw", "advance", "delete"}
  /\ Strikes("fail")
  /\ Throws(a)
  /\ UNCHANGED <<platform, database, discord, attempts, history>>

-----------------------------------------------------------------------------
\* The consumer's loop around a handler.

\* Whether the failure is the last one the entry is allowed.
GivesUpLate == attempts >= MaxAttempts
GivesUp == attempts + 1 >= MaxAttempts

HandlerThrew ==
  /\ pc[Consumer] = "threw"
  /\ IF GivesUp
     THEN /\ givenUp' = givenUp \cup {ver[Consumer]}
          /\ attempts' = 0
          /\ Goes(Consumer, "advance")
     ELSE /\ attempts' = attempts + 1
          /\ Goes(Consumer, "idle")
          /\ UNCHANGED givenUp
  /\ UNCHANGED <<platform, database, discord, overlapped, hazards>>

Advance ==
  /\ pc[Consumer] = "advance"
  /\ cursor' = ver[Consumer]
  /\ attempts' = 0
  /\ Goes(Consumer, "idle")
  /\ UNCHANGED <<platform, mirrorRow, delivery, enabled, discord, history, hazards>>

-----------------------------------------------------------------------------
Apply(a) ==
  \/ CheckFeature(a) \/ ReadMirror(a) \/ MayMirror(a)
  \/ DeleteScheduledEvent(a) \/ ClearMirror(a) \/ EditScheduledEvent(a)
  \/ CreateScheduledEvent(a) \/ CreateRefused(a) \/ RecordMirror(a)

ConsumerStep ==
  \/ Take \/ Apply(Consumer) \/ Intend \/ RecordAgain \/ RecordPosted \/ Remove
  \/ HandlerThrew \/ Advance

RollStep == RollRead \/ Apply(Roll)

Environment ==
  \/ \E kind \in Kinds : Publish(kind)
  \/ \E i \in Id : ManualDelete(i)
  \/ RevokePermission \/ GrantPermission \/ SwitchOn \/ Crash
  \/ \E a \in Actor : DeleteFails(a) \/ CreateAnswerLost(a) \/ CallFails(a)

Next == ConsumerStep \/ RollStep \/ Environment

Spec == Init /\ [][Next]_vars

\* Both loops run for as long as the process does: the poll every few seconds,
\* the roll every day.
FairSpec == Spec /\ WF_vars(ConsumerStep) /\ WF_vars(RollStep)

-----------------------------------------------------------------------------
\* Properties.

TypeOK ==
  /\ kinds \in Seq(Kinds) /\ Len(kinds) <= MaxEntries
  /\ cursor \in 0..MaxEntries
  /\ tab \in [Id -> 0..MaxEntries]
  /\ lastId \in 0..MaxIds
  /\ mirrorRow \in 0..MaxIds
  /\ delivery \in [Version -> {NoRow, Owed} \cup Id]
  /\ enabled \in BOOLEAN /\ permitted \in BOOLEAN
  /\ pc \in [Actor -> {"idle", "apply", "get", "permission", "delete", "clear",
                       "clearAndThrow", "edit", "intend", "recordAgain", "create",
                       "recordPosted", "recordMirror", "remove", "threw", "advance"}]
  /\ ver \in [Actor -> 0..MaxEntries]
  /\ held \in [Actor -> 0..MaxIds]
  /\ made \in [Actor -> 0..MaxIds]
  /\ attempts \in 0..(MaxAttempts - 1)
  /\ givenUp \in SUBSET Version
  /\ rolls \in BOOLEAN /\ overlapped \in BOOLEAN
  /\ struck \in SUBSET Hazards
  /\ faults \in 0..MaxFaults

\* The consumer has finished what the web platform wrote, and gave up on none.
CaughtUp == cursor = Latest /\ pc[Consumer] = "idle" /\ givenUp = {}

\* Without the roll and while nothing has gone wrong, the event is in the tab
\* at most once, whichever of its entries create it. The roll beside the
\* consumer makes two of it: each reads that there is none.
OneInTab == struck = {} /\ ~overlapped => Cardinality(Shown) <= 1

\* Once the consumer has caught up, nothing having gone wrong, an event that was
\* cancelled, marked internal or deleted is in the tab no longer, and one inside
\* the window is there as it now is.
TabTellsTheTruth ==
  CaughtUp /\ pc[Roll] = "idle" /\ struck = {} /\ ~overlapped /\ Latest > 0 =>
    CASE kinds[Latest] = "near" -> \E i \in Shown : i = mirrorRow /\ tab[i] = Latest
      [] kinds[Latest] = "far"  -> \A i \in Shown : tab[i] = Latest
      [] OTHER                  -> Shown = {}

\* Of an event that only ever moves in and out of the window, crashes and lost
\* answers may leave more than one in the tab, but the one the bot knows of,
\* which its next edit or deletion reaches, is there and in step. An event that
\* left the tab and came back is beyond this: a replayed entry puts back the
\* identifier its delivery row kept.
RecordTellsTheTruth ==
  /\ CaughtUp /\ pc[Roll] = "idle" /\ ~overlapped /\ Latest > 0
  /\ struck \subseteq {"crash", "lost"}
  /\ \A n \in 1..Latest : kinds[n] \in {"near", "far"}
  => /\ kinds[Latest] = "near" => mirrorRow # 0
     /\ mirrorRow # 0 => tab[mirrorRow] = Latest

\* The tab of the server, what the bot knows of it and the event as the web
\* platform has it agree, each as far as what has struck allows (apply, remove).
MirrorInStep == OneInTab /\ TabTellsTheTruth /\ RecordTellsTheTruth

\* The scheduled events nothing in the bot leads to: an interest signal on one
\* is not understood (byScheduledEvent), and no entry edits or deletes it.
InFlight == {made[a] : a \in {b \in Actor : pc[b] \in {"recordPosted", "recordMirror"}}}
Orphans == Shown \ ({mirrorRow} \cup InFlight)

\* Without the roll, every scheduled event the bot has lost sight of is the
\* price of a fault of its own: a crash or a lost answer before the creation was
\* recorded, or a deletion that failed. Replays, retries, edits by hand and
\* permissions that come and go lose none by themselves.
OrphansCostFaults == ~overlapped => Cardinality(Orphans) <= faults

\* Failed calls and lost answers cost an entry no more attempts than there were
\* of them, and so do lost answers and permissions taken away: what one failure
\* leaves behind does not fail the next attempt. A scheduled event deleted by
\* hand, or put back by the replay of a crash, does: every edit of it fails. And
\* so does one whose deletion could not be written down before the permission
\* was taken away: the retry returns early, and the identifier stays.
Repaired == /\ struck \subseteq {"fail", "lost", "permission"}
            /\ "fail" \notin struck \/ "permission" \notin struck
GivenUpCostsAttempts ==
  givenUp # {} /\ Repaired /\ ~overlapped => faults >= MaxAttempts

\* What is lost, an event out of sight or an entry given up on, was paid for
\* in faults (apply, and the attempts of the consumer around it).
LossesCostFaults == OrphansCostFaults /\ GivenUpCostsAttempts

\* However the roll and the consumer interleave, once the web platform is quiet
\* the roll puts the scheduled event the bot knows of right: in step with an
\* event inside the window, gone for a cancelled one.
RollRepairs ==
  <>[](rolls /\ Latest > 0 =>
         CASE kinds[Latest] = "near"      -> mirrorRow # 0 /\ tab[mirrorRow] = Latest
           [] kinds[Latest] = "cancelled" -> mirrorRow = 0
           [] OTHER                       -> TRUE)

-----------------------------------------------------------------------------
\* Inductive strengthenings.

\* What an actor has in hand: the consumer its entry, the roll one it has read.
HandsInv ==
  /\ cursor <= Latest
  /\ pc[Consumer] # "idle" => ver[Consumer] = cursor + 1 /\ cursor < Latest
  /\ pc[Roll] # "idle" =>
       /\ pc[Roll] \notin {"intend", "recordAgain", "recordPosted", "remove", "threw", "advance"}
       /\ ver[Roll] \in 1..Latest /\ rolls
  /\ \A a \in Actor :
       /\ pc[a] = "permission" => HasWork(KindOf(a), held[a])
       /\ pc[a] \in {"delete", "clear", "clearAndThrow", "edit"} => held[a] # 0
       /\ pc[a] \in {"recordPosted", "recordMirror"} => made[a] # 0
  /\ pc[Consumer] = "recordAgain" => delivery[ver[Consumer]] \in Id

\* No hazard strikes beside the roll; a hazard is a fault; and the permission is
\* lost, and the feature with it, to one of them only.
HazardsInv ==
  /\ rolls => struck = {}
  /\ struck = {} <=> faults = 0
  /\ "permission" \notin struck => permitted /\ enabled

\* Of the two actors, one is at work at a time: what it read is still so, and
\* it is where the kind of its entry leads.
AloneInv == \A a, b \in Actor : pc[a] # "idle" /\ pc[b] # "idle" => a = b
Leaves(kind) == LeavesTab(kind) \/ kind = "deleted"
Way(a) ==
  /\ pc[a] \in {"permission", "delete", "clear", "clearAndThrow", "edit"} => held[a] = mirrorRow
  /\ pc[a] \in {"apply", "get", "permission"} => KindOf(a) # "deleted"
  /\ pc[a] = "remove" => KindOf(a) = "deleted"
  /\ pc[a] \in {"delete", "clear", "clearAndThrow"} => Leaves(KindOf(a))
  /\ pc[a] = "edit" => ~Leaves(KindOf(a))
  /\ pc[a] \in {"intend", "recordAgain", "create", "recordPosted", "recordMirror"} =>
       mirrorRow = 0 /\ KindOf(a) = "near"
  /\ pc[a] \in {"recordPosted", "recordMirror"} =>
       made[a] <= lastId /\ (tab[made[a]] = ver[a] \/ "manual" \in struck)
WayInv ==
  /\ \A a \in Actor : Way(a)
  /\ pc[Roll] # "idle" => cursor <= ver[Roll] /\ KindOf(Roll) \in {"near", "cancelled"}
  /\ \A i \in Id : i > lastId => tab[i] = 0

\* What is out of sight was paid for; and so is all that is shown while what the
\* bot knows of may be lost to the permission, or is about to be forgotten.
Forgetting == ~permitted \/ \E a \in Actor : pc[a] \in {"clear", "clearAndThrow"}
OutOfSight == IF Forgetting THEN Shown ELSE Orphans
OrphanInv == Cardinality(OutOfSight) <= faults

\* Without a crash, an entry the consumer has not come to has no delivery that
\* was posted, and the one it is at has one only where a fault broke it off.
PostedInv == "crash" \notin struck =>
  \A n \in Version : n > cursor /\ delivery[n] \in Id =>
    /\ n = cursor + 1 /\ n <= Latest
    /\ faults > 0 \/ pc[Consumer] \in {"recordMirror", "advance"}
    /\ kinds[n] = "near" /\ (tab[delivery[n]] # 0 \/ "manual" \in struck)

\* Why each attempt was paid for: what the bot knows of is there, but where it
\* is just being deleted, by an entry that will try to delete it again.
Deleting ==
  \/ \E a \in Actor : pc[a] = "clear"
  \/ /\ "fail" \in struck
     /\ cursor < Latest /\ Leaves(kinds[cursor + 1]) /\ pc[Consumer] # "advance"
Failing ==
  \/ pc[Consumer] \in {"threw", "clearAndThrow"}
  \/ ~permitted /\ pc[Consumer] \in {"edit", "intend", "create"}
AttemptsInv == Repaired /\ faults < MaxAttempts =>
  /\ givenUp = {}
  /\ attempts + (IF Failing THEN 1 ELSE 0) <= faults
  /\ mirrorRow # 0 => tab[mirrorRow] # 0 \/ Deleting

\* Why the tab is in step with the entry just finished.
NearOrFar == \A n \in 1..Latest : kinds[n] \in {"near", "far"}
Unhurt == struck \subseteq {"crash", "lost"} /\ NearOrFar
FirstInv == Unhurt =>
  /\ mirrorRow <= lastId /\ \A i \in Id : i <= lastId => tab[i] # 0
  /\ mirrorRow = 0 => \A n \in Version : delivery[n] \in Id => tab[delivery[n]] = n
  /\ \A n \in Version : delivery[n] \in Id => delivery[n] <= lastId
InStep(version) ==
  CASE kinds[version] = "near" -> mirrorRow # 0 /\ tab[mirrorRow] = version
    [] kinds[version] = "far"  -> mirrorRow # 0 => tab[mirrorRow] = version
    [] OTHER                   -> mirrorRow = 0
TruthInv == (struck = {} \/ Unhurt) /\ givenUp = {} =>
  /\ pc[Consumer] = "advance" => InStep(ver[Consumer])
  /\ pc[Consumer] = "idle" /\ cursor = Latest /\ Latest > 0 => InStep(Latest)

MirrorInv == ~overlapped =>
  AloneInv /\ WayInv /\ OrphanInv /\ PostedInv /\ AttemptsInv /\ FirstInv /\ TruthInv

=============================================================================
