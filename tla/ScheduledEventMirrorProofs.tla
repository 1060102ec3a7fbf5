--------------------- MODULE ScheduledEventMirrorProofs ---------------------
(***************************************************************************)
(* Proofs about ScheduledEventMirror: the type invariant, and what the tab *)
(* and the record of it keep while the two loops do not meet in apply.     *)
(***************************************************************************)
EXTENDS ScheduledEventMirror, FiniteSetTheorems, TLAPS

\* What is in hand is of the right kind, and a fault is what strikes.
Typed == TypeOK /\ HandsInv /\ HazardsInv

LEMMA TypeStep == Typed /\ [Next]_vars => Typed'
<1> SUFFICES ASSUME Typed, [Next]_vars PROVE Typed'
  OBVIOUS
<1> USE MirrorAssumption DEF Typed, Consumer, Roll, Actor
<1>1. ASSUME NEW kind \in Kinds, Publish(kind) PROVE Typed'
  <2>1. kinds' \in Seq(Kinds) /\ Len(kinds') = Len(kinds) + 1 /\ Len(kinds') <= MaxEntries
    BY <1>1 DEF Publish, Latest, TypeOK
  <2>2. \A n \in 1..Len(kinds) : kinds'[n] = kinds[n]
    BY <1>1 DEF Publish, TypeOK
  <2>3. \A a \in Actor : pc[a] = "permission" => KindOf(a)' = KindOf(a)
    BY <1>1, <2>2 DEF Publish, locals, HandsInv, TypeOK, KindOf, Latest
  <2> QED BY <1>1, <2>1, <2>3 DEF Publish, Latest, TypeOK, HandsInv, HasWork, HazardsInv,
     database, discord, locals, history, hazards
<1>2. ASSUME NEW i \in Id, ManualDelete(i) PROVE Typed'
  BY <1>2 DEF ManualDelete, Strikes, Latest, TypeOK, HandsInv, HasWork, KindOf, HazardsInv,
     platform, database, locals, history
<1>3. CASE RevokePermission
  <2>1. permitted' = FALSE /\ struck' = struck \cup {"permission"} /\ ~rolls /\ faults' = faults + 1
        /\ UNCHANGED <<platform, database, tab, lastId, locals, attempts, history>> /\ faults' \in 0..MaxFaults
        /\ "permission" \in Hazards
    BY <1>3 DEF RevokePermission, Strikes, TypeOK
  <2>2. TypeOK'
    <3>1. struck' \in SUBSET Hazards
      BY <2>1 DEF TypeOK
    <3>2. permitted' \in BOOLEAN
      BY <2>1
    <3> QED BY <2>1, <3>1, <3>2 DEF TypeOK, platform, database, locals, history
  <2>3. HandsInv'
    <3>1. UNCHANGED <<kinds, rolls, cursor, delivery, pc, ver, held, made>>
      BY <2>1 DEF platform, database, locals
    <3> QED BY <3>1 DEF HandsInv, Latest, HasWork, KindOf
  <2>4. HazardsInv'
    <3>1. faults \in Nat
      BY DEF TypeOK
    <3> QED BY <2>1, <3>1 DEF HazardsInv, platform
  <2> QED BY <2>2, <2>3, <2>4
<1>4. CASE GrantPermission
  BY <1>4 DEF GrantPermission, Latest, TypeOK, HandsInv, HasWork, KindOf, HazardsInv, platform,
     database, locals, history, hazards
<1>5. CASE SwitchOn
  BY <1>5 DEF SwitchOn, Latest, TypeOK, HandsInv, HasWork, KindOf, HazardsInv, platform, discord,
     locals, history, hazards
<1>6. CASE Crash
  BY <1>6 DEF Crash, Strikes, Latest, TypeOK, HandsInv, HasWork, KindOf, HazardsInv, platform,
     discord, history
<1>7. ASSUME NEW a \in Actor, DeleteFails(a) PROVE Typed'
  BY <1>7 DEF DeleteFails, Strikes, Goes, Latest, TypeOK, HandsInv, HasWork, KindOf, HazardsInv,
     platform, database, discord, history
<1>8. ASSUME NEW a \in Actor, CreateAnswerLost(a) PROVE Typed'
  <2>1. lastId + 1 \in Id /\ lastId' \in 0..MaxIds
    BY <1>8 DEF CreateAnswerLost, NewScheduledEvent, TypeOK, Id
  <2> QED BY <1>8, <2>1 DEF CreateAnswerLost, NewScheduledEvent, Strikes, Throws, Goes, Latest,
     TypeOK, HandsInv, HasWork, KindOf, HazardsInv, platform, database, history
<1>9. ASSUME NEW a \in Actor, CallFails(a) PROVE Typed'
  BY <1>9 DEF CallFails, Strikes, Throws, Goes, Latest, TypeOK, HandsInv, HasWork, KindOf,
     HazardsInv, platform, database, discord, history
<1>10. ASSUME NEW a \in Actor, Apply(a) PROVE Typed'
  <2>1. CASE CheckFeature(a)
    <3>1. /\ pc[a] = "apply"
          /\ \/ pc' = [pc EXCEPT ![a] = "get"]
             \/ pc' = [pc EXCEPT ![a] = IF a = Consumer THEN "advance" ELSE "idle"]
          /\ UNCHANGED <<platform, database, discord, ver, held, made, attempts, history, hazards>>
      BY <2>1 DEF CheckFeature, Done, Goes
    <3>2. TypeOK'
      BY <3>1 DEF TypeOK, platform, database, discord, history, hazards
    <3>3. /\ pc'[a] \in {"get", "advance", "idle"} /\ (a = Roll => pc'[a] # "advance")
          /\ \A b \in Actor : b # a => pc'[b] = pc[b]
      BY <3>1 DEF TypeOK
    <3>4. UNCHANGED <<kinds, rolls, cursor, delivery, enabled, permitted, ver, held, made, struck, faults>> /\ pc[a] = "apply"
      BY <3>1 DEF platform, database, discord, hazards
    <3>5. HandsInv'
      BY <3>3, <3>4 DEF Latest, HandsInv, HasWork, KindOf
    <3> QED BY <3>2, <3>4, <3>5 DEF HazardsInv
  <2>2. CASE ReadMirror(a)
    BY <2>2 DEF ReadMirror, Latest, TypeOK, HandsInv, HasWork, KindOf, HazardsInv, platform,
       database, discord, history, hazards
  <2>3. CASE MayMirror(a)
    <3>1. NextCall(a) \in {"delete", "edit"} => held[a] # 0
      BY <2>3 DEF NextCall, HandsInv, HasWork, MayMirror
    <3>2. /\ pc[a] = "permission"
          /\ \/ pc' = [pc EXCEPT ![a] = NextCall(a)] /\ enabled' = enabled
             \/ pc' = [pc EXCEPT ![a] = IF a = Consumer THEN "advance" ELSE "idle"]
                /\ ~permitted /\ enabled' = FALSE
          /\ UNCHANGED <<platform, cursor, mirrorRow, delivery, discord, ver, held, made, attempts, history, hazards>>
      BY <2>3 DEF MayMirror, Done, Goes
    <3>3. /\ NextCall(a) \in {"delete", "edit", "intend", "create"}
          /\ NextCall(a) = "intend" => a = Consumer
      BY DEF NextCall
    <3>4. TypeOK'
      BY <3>2, <3>3 DEF TypeOK, platform, discord, history, hazards
    <3>5. HazardsInv'
      BY <3>2 DEF HazardsInv, platform, discord, hazards
    <3>6. HandsInv'
      BY <3>1, <3>2, <3>3 DEF HandsInv, TypeOK, Latest, HasWork, KindOf, platform
    <3> QED BY <3>4, <3>5, <3>6
  <2>4. CASE DeleteScheduledEvent(a)
    <3>1. held[a] \in Id
      BY <2>4 DEF DeleteScheduledEvent, HandsInv, TypeOK, Id
    <3> QED BY <2>4, <3>1 DEF DeleteScheduledEvent, Goes, Latest, TypeOK, HandsInv, HasWork,
       KindOf, HazardsInv, platform, database, history, hazards
  <2>5. CASE ClearMirror(a)
    BY <2>5 DEF ClearMirror, Done, Throws, Goes, Latest, TypeOK, HandsInv, HasWork, KindOf,
       HazardsInv, platform, discord, history, hazards
  <2>6. CASE EditScheduledEvent(a)
    <3>1. held[a] \in Id
      BY <2>6 DEF EditScheduledEvent, HandsInv, TypeOK, Id
    <3>2. /\ pc[a] = "edit"
          /\ \/ tab' = tab
             \/ tab' = [tab EXCEPT ![held[a]] = ver[a]]
          /\ \/ pc' = [pc EXCEPT ![a] = IF a = Consumer THEN "advance" ELSE "idle"]
             \/ pc' = [pc EXCEPT ![a] = IF a = Consumer THEN "threw" ELSE "idle"]
          /\ UNCHANGED <<platform, database, lastId, permitted, ver, held, made, attempts, history, hazards>>
      BY <2>6 DEF EditScheduledEvent, Done, Throws, Goes
    <3>3. TypeOK'
      <4>1. tab' \in [Id -> 0..MaxEntries]
        BY <3>1, <3>2 DEF TypeOK
      <4> QED BY <3>2, <4>1 DEF TypeOK, platform, database, history, hazards
    <3>4. HazardsInv'
      BY <3>2 DEF HazardsInv, platform, database, hazards
    <3>5. HandsInv'
      <4>1. /\ pc'[a] \in {"advance", "threw", "idle"} /\ (a = Roll => pc'[a] = "idle")
            /\ \A b \in Actor : b # a => pc'[b] = pc[b]
            /\ UNCHANGED <<kinds, rolls, cursor, delivery, ver, held, made>> /\ pc[a] = "edit"
        BY <3>2 DEF TypeOK, platform, database
      <4> QED BY <4>1 DEF Latest, HandsInv, HasWork, KindOf
    <3> QED BY <3>3, <3>4, <3>5
  <2>7. CASE CreateScheduledEvent(a)
    <3>1. lastId + 1 \in Id /\ lastId' \in 0..MaxIds /\ lastId + 1 \in 0..MaxIds /\ lastId + 1 # 0
      BY <2>7 DEF CreateScheduledEvent, NewScheduledEvent, TypeOK, Id
    <3> QED BY <2>7, <3>1 DEF CreateScheduledEvent, NewScheduledEvent, Latest, TypeOK, HandsInv,
       HasWork, KindOf, HazardsInv, platform, database, history, hazards
  <2>8. CASE CreateRefused(a)
    BY <2>8 DEF CreateRefused, Throws, Goes, Latest, TypeOK, HandsInv, HasWork, KindOf,
       HazardsInv, platform, database, discord, history, hazards
  <2>9. CASE RecordMirror(a)
    BY <2>9 DEF RecordMirror, Done, Goes, Latest, TypeOK, HandsInv, HasWork, KindOf, HazardsInv,
       platform, discord, history, hazards
  <2> QED BY <1>10, <2>1, <2>2, <2>3, <2>4, <2>5, <2>6, <2>7, <2>8, <2>9 DEF Apply
<1>11. CASE Take
  BY <1>11 DEF Take, Begins, Latest, TypeOK, HandsInv, HasWork, KindOf, HazardsInv, platform,
     database, discord, hazards
<1>12. CASE RollRead
  BY <1>12 DEF RollRead, Begins, Latest, TypeOK, HandsInv, HasWork, KindOf, HazardsInv, platform,
     database, discord, hazards
<1>13. CASE Intend
  <2>1. ver[Consumer] \in Version
    BY <1>13 DEF Intend, TypeOK, HandsInv, Latest, Version
  <2>2. PICK row \in {NoRow, Owed} \cup Id : row = delivery[ver[Consumer]]
    BY <2>1 DEF TypeOK
  <2>3. /\ pc[Consumer] = "intend"
        /\ pc' = [pc EXCEPT ![Consumer] = IF row \in Id THEN "recordAgain" ELSE "create"]
        /\ delivery' = [delivery EXCEPT ![ver[Consumer]] = IF row = NoRow THEN Owed ELSE row]
        /\ UNCHANGED <<platform, cursor, mirrorRow, enabled, discord, ver, held, made, attempts, history, hazards>>
    BY <1>13, <2>2 DEF Intend, IntendLeadsTo, Goes
  <2>4. TypeOK'
    BY <2>1, <2>3 DEF TypeOK, platform, discord, history, hazards
  <2>5. row \in Id => row # NoRow
    BY DEF Id, NoRow
  <2> QED BY <2>1, <2>3, <2>4, <2>5 DEF Latest, TypeOK, HandsInv, HasWork, KindOf, HazardsInv,
     platform, discord, hazards
<1>14. CASE RecordAgain
  <2>1. delivery[ver[Consumer]] \in 0..MaxIds
    BY <1>14 DEF RecordAgain, TypeOK, HandsInv, Id
  <2> QED BY <1>14, <2>1 DEF RecordAgain, Done, Goes, Latest, TypeOK, HandsInv, HasWork, KindOf,
     HazardsInv, platform, discord, history, hazards, Id
<1>15. CASE RecordPosted
  <2>1. ver[Consumer] \in Version /\ made[Consumer] \in Id
    BY <1>15 DEF RecordPosted, TypeOK, HandsInv, Latest, Version, Id
  <2> QED BY <1>15, <2>1 DEF RecordPosted, Goes, Latest, TypeOK, HandsInv, HasWork, KindOf,
     HazardsInv, platform, discord, history, hazards
<1>16. CASE Remove
  BY <1>16 DEF Remove, Latest, TypeOK, HandsInv, HasWork, KindOf, HazardsInv, platform, database,
     discord, history, hazards
<1>17. CASE HandlerThrew
  <2>1. ver[Consumer] \in Version
    BY <1>17 DEF HandlerThrew, TypeOK, HandsInv, Latest, Version
  <2> QED BY <1>17, <2>1 DEF HandlerThrew, GivesUp, Goes, Latest, TypeOK, HandsInv, HasWork,
     KindOf, HazardsInv, platform, database, discord, hazards
<1>18. CASE Advance
  BY <1>18 DEF Advance, Goes, Latest, TypeOK, HandsInv, HasWork, KindOf, HazardsInv, platform,
     discord, history, hazards
<1>19. CASE UNCHANGED vars
  BY <1>19 DEF vars, platform, database, discord, locals, history, hazards, Latest, TypeOK,
     HandsInv, HasWork, KindOf, HazardsInv
<1> QED BY <1>1, <1>2, <1>3, <1>4, <1>5, <1>6, <1>7, <1>8, <1>9, <1>10, <1>11, <1>12, <1>13,
   <1>14, <1>15, <1>16, <1>17, <1>18, <1>19 DEF Next, ConsumerStep, RollStep, Environment

LEMMA TypeInit == Init => Typed
<1> SUFFICES ASSUME Init PROVE Typed
  OBVIOUS
<1> USE MirrorAssumption DEF Init, Consumer, Roll, Actor
<1>1. /\ kinds \in Seq(Kinds) /\ Len(kinds) = 0 /\ rolls \in BOOLEAN /\ overlapped \in BOOLEAN
      /\ attempts \in 0..(MaxAttempts - 1) /\ 0 \in 0..MaxIds /\ 0 \in 0..MaxEntries /\ 0 \in 0..MaxFaults
  <2>1. kinds \in Seq(Kinds) /\ Len(kinds) = 0
    OBVIOUS
  <2>2. rolls \in BOOLEAN
    BY Zenon
  <2>3. overlapped \in BOOLEAN
    OBVIOUS
  <2>4. attempts \in 0..(MaxAttempts - 1) /\ 0 \in 0..MaxIds /\ 0 \in 0..MaxEntries /\ 0 \in 0..MaxFaults
    OBVIOUS
  <2> QED BY <2>1, <2>2, <2>3, <2>4
<1>2. /\ tab \in [Id -> 0..MaxEntries] /\ delivery \in [Version -> {NoRow, Owed} \cup Id]
      /\ ver \in [Actor -> 0..MaxEntries] /\ held \in [Actor -> 0..MaxIds] /\ made \in [Actor -> 0..MaxIds]
      /\ pc \in [Actor -> {"idle"}]
  BY <1>1
<1>3. pc \in [Actor -> {"idle", "apply", "get", "permission", "delete", "clear",
                       "clearAndThrow", "edit", "intend", "recordAgain", "create",
                       "recordPosted", "recordMirror", "remove", "threw", "advance"}]
  BY <1>2
<1>4. TypeOK
  BY <1>1, <1>2, <1>3 DEF TypeOK
<1>5. HandsInv /\ HazardsInv
  BY <1>1 DEF HandsInv, HasWork, KindOf, HazardsInv, Latest
<1> QED BY <1>4, <1>5 DEF Typed

\* The type invariant of the Events tab, whatever the entries, the attempts and
\* the faults, and whether the roll runs or not (mirror/scheduledEvents.ts).
THEOREM TypeCorrect == Spec => []TypeOK
<1>1. Init => Typed
  BY TypeInit
<1>2. Typed /\ [Next]_vars => Typed'
  BY TypeStep
<1>3. Typed => TypeOK
  BY DEF Typed
<1> QED BY <1>1, <1>2, <1>3, PTL DEF Spec

-----------------------------------------------------------------------------
\* While nobody has met anybody in apply, every step is one actor's, the other
\* idle before it and after it.

Others(a) == \A b \in Actor : b # a => pc[b] = "idle"

Outside ==
  \/ \E kind \in Kinds : Publish(kind)
  \/ \E i \in Id : ManualDelete(i)
  \/ RevokePermission \/ GrantPermission \/ SwitchOn \/ Crash

OfConsumer == Take \/ Intend \/ RecordAgain \/ RecordPosted \/ Remove \/ HandlerThrew \/ Advance

Step(a) ==
  \/ Outside
  \/ DeleteFails(a) \/ CreateAnswerLost(a) \/ CallFails(a)
  \/ CheckFeature(a) \/ ReadMirror(a) \/ MayMirror(a)
  \/ DeleteScheduledEvent(a) \/ ClearMirror(a) \/ EditScheduledEvent(a)
  \/ CreateScheduledEvent(a) \/ CreateRefused(a) \/ RecordMirror(a)
  \/ a = Consumer /\ OfConsumer
  \/ a = Roll /\ RollRead

LEMMA Unmet == ASSUME Next, ~overlapped' PROVE ~overlapped
<1>1. ASSUME NEW a \in Actor, Apply(a) PROVE overlapped' = overlapped
  BY <1>1 DEF Apply, CheckFeature, ReadMirror, MayMirror, DeleteScheduledEvent, ClearMirror,
     EditScheduledEvent, CreateScheduledEvent, CreateRefused, RecordMirror, history
<1>2. ASSUME Environment PROVE overlapped' = overlapped
  BY <1>2 DEF Environment, Publish, ManualDelete, RevokePermission, GrantPermission, SwitchOn,
     Crash, DeleteFails, CreateAnswerLost, CallFails, history
<1>3. ASSUME OfConsumer \/ RollRead PROVE overlapped => overlapped'
  BY <1>3 DEF OfConsumer, Take, RollRead, Begins, Intend, RecordAgain, RecordPosted, Remove,
     HandlerThrew, Advance, history
<1> QED BY <1>1, <1>2, <1>3 DEF Next, ConsumerStep, RollStep, OfConsumer, Consumer, Roll, Actor

LEMMA OneSteps ==
  ASSUME Typed, AloneInv, Next, ~overlapped'
  PROVE ~overlapped /\ \E a \in Actor : Others(a) /\ Others(a)' /\ Step(a)
<1> USE DEF Consumer, Roll, Actor
<1>1. ~overlapped
  BY Unmet
<1>2. ASSUME Outside PROVE \E a \in Actor : Others(a) /\ Others(a)'
  <2>1. PICK a \in Actor : Others(a)
    BY DEF AloneInv, Others
  <2>2. pc' = pc \/ pc' = [b \in Actor |-> "idle"]
    BY <1>2 DEF Outside, Publish, ManualDelete, RevokePermission, GrantPermission, SwitchOn,
       Crash, locals
  <2> QED BY <2>1, <2>2 DEF Others
<1>3. ASSUME NEW a \in Actor, DeleteFails(a) \/ CreateAnswerLost(a) \/ CallFails(a)
      PROVE Others(a) /\ Others(a)'
  <2>1. pc[a] # "idle"
    BY <1>3 DEF DeleteFails, CreateAnswerLost, CallFails, NewScheduledEvent
  <2>2. \A b \in Actor : b # a => pc'[b] = pc[b]
    BY <1>3 DEF DeleteFails, CreateAnswerLost, CallFails, Throws, Goes, Typed, TypeOK
  <2> QED BY <2>1, <2>2 DEF AloneInv, Others
<1>4. ASSUME NEW a \in Actor, Apply(a) PROVE Others(a) /\ Others(a)'
  <2>1. pc[a] # "idle"
    BY <1>4 DEF Apply, CheckFeature, ReadMirror, MayMirror, DeleteScheduledEvent, ClearMirror,
       EditScheduledEvent, CreateScheduledEvent, CreateRefused, RecordMirror, NewScheduledEvent
  <2>2. \A b \in Actor : b # a => pc'[b] = pc[b]
    BY <1>4 DEF Apply, CheckFeature, ReadMirror, MayMirror, DeleteScheduledEvent, ClearMirror,
       EditScheduledEvent, CreateScheduledEvent, CreateRefused, RecordMirror, NewScheduledEvent,
       Done, Throws, Goes, Typed, TypeOK
  <2> QED BY <2>1, <2>2 DEF AloneInv, Others
<1>5. ASSUME OfConsumer PROVE Others(Consumer) /\ Others(Consumer)'
  <2>1. CASE Take
    BY <2>1 DEF Take, Begins, Others, Typed, TypeOK
  <2>2. CASE ~Take
    <3>1. pc[Consumer] # "idle" /\ \A b \in Actor : b # Consumer => pc'[b] = pc[b]
      BY <1>5, <2>2 DEF OfConsumer, Intend, RecordAgain, RecordPosted, Remove, HandlerThrew,
         Advance, Done, Goes, Typed, TypeOK
    <3> QED BY <3>1 DEF AloneInv, Others
  <2> QED BY <2>1, <2>2
<1>6. ASSUME RollRead PROVE Others(Roll) /\ Others(Roll)'
  BY <1>6 DEF RollRead, Begins, Others, Typed, TypeOK
<1>7. CASE Outside
  BY <1>1, <1>2, <1>7 DEF Step
<1>8. CASE OfConsumer
  BY <1>1, <1>5, <1>8 DEF Step
<1>9. CASE RollRead
  BY <1>1, <1>6, <1>9 DEF Step
<1>10. CASE \E a \in Actor : Apply(a) \/ DeleteFails(a) \/ CreateAnswerLost(a) \/ CallFails(a)
  <2>1. PICK a \in Actor : Apply(a) \/ DeleteFails(a) \/ CreateAnswerLost(a) \/ CallFails(a)
    BY <1>10
  <2>2. Others(a) /\ Others(a)'
    BY <2>1, <1>3, <1>4
  <2>3. Step(a)
    BY <2>1 DEF Step, Apply
  <2> QED BY <1>1, <2>2, <2>3
<1>11. Outside \/ OfConsumer \/ RollRead
       \/ \E a \in Actor : Apply(a) \/ DeleteFails(a) \/ CreateAnswerLost(a) \/ CallFails(a)
  BY DEF Next, ConsumerStep, RollStep, Environment, Outside, OfConsumer
<1> QED BY <1>7, <1>8, <1>9, <1>10, <1>11

LEMMA InHand ==
  ASSUME Typed, NEW a \in Actor
  PROVE /\ pc[a] \in {"delete", "clear", "clearAndThrow", "edit"} => held[a] \in Id
        /\ pc[a] \in {"recordPosted", "recordMirror"} => made[a] \in Id
        /\ pc[a] # "idle" => ver[a] \in Version /\ ver[a] \in 1..Latest /\ ver[a] # 0
<1> USE MirrorAssumption DEF Typed, Consumer, Roll, Actor
<1>1. Latest \in Nat /\ Latest <= MaxEntries /\ cursor \in Nat
  BY DEF TypeOK, Latest
<1>2. held[a] \in 0..MaxIds /\ made[a] \in 0..MaxIds
  BY DEF TypeOK
<1>3. /\ pc[a] \in {"delete", "clear", "clearAndThrow", "edit"} => held[a] # 0
      /\ pc[a] \in {"recordPosted", "recordMirror"} => made[a] # 0
  BY DEF HandsInv
<1>4. pc[a] # "idle" => ver[a] \in 1..Latest
  BY <1>1 DEF HandsInv
<1> QED BY <1>1, <1>2, <1>3, <1>4 DEF Id, Version

LEMMA KindIs == ASSUME TypeOK, NEW n \in 1..Latest PROVE kinds[n] \in Kinds
  BY DEF TypeOK, Latest

LEMMA WayKept ==
  ASSUME Typed, Typed', NEW a \in Actor, Others(a), Others(a)', WayInv, Step(a)
  PROVE WayInv'
<1> USE DEF Consumer, Roll, Actor, Typed
<1> DEFINE Goal == /\ Way(a)' /\ \A i \in Id : i > lastId' => tab'[i] = 0
                   /\ pc'[Roll] # "idle" => cursor' <= ver'[Roll] /\ KindOf(Roll)' \in {"near", "cancelled"}
<1> SUFFICES Goal
  BY DEF Others, Way, WayInv
<1>1. ASSUME NEW kind \in Kinds, Publish(kind) PROVE Goal
  <2>1. UNCHANGED <<cursor, tab, lastId, mirrorRow, pc, ver, held, made, struck>> /\ kinds' = Append(kinds, kind)
    BY <1>1 DEF Publish, database, discord, locals, hazards
  <2>2. pc[a] # "idle" => KindOf(a)' = KindOf(a)
    BY <2>1, InHand DEF TypeOK, KindOf, Latest
  <2>3. Way(a)'
    BY <2>1, <2>2 DEF WayInv, Way
  <2>4. pc[Roll] # "idle" => a = Roll
    BY DEF Others
  <2> QED BY <2>1, <2>2, <2>3, <2>4 DEF WayInv
<1>2. ASSUME NEW i \in Id, ManualDelete(i) PROVE Goal
  BY <1>2 DEF ManualDelete, Strikes, platform, database, locals, history, TypeOK, HandsInv,
     WayInv, Way, KindOf, Others, Latest, Leaves, LeavesTab, HasWork
<1>3. CASE RevokePermission
  BY <1>3 DEF RevokePermission, Strikes, platform, database, locals, history, TypeOK, HandsInv,
     WayInv, Way, KindOf, Others, Latest, Leaves, LeavesTab, HasWork
<1>4. CASE GrantPermission
  BY <1>4 DEF GrantPermission, platform, database, locals, history, hazards, TypeOK, HandsInv,
     WayInv, Way, KindOf, Others, Latest, Leaves, LeavesTab, HasWork
<1>5. CASE SwitchOn
  BY <1>5 DEF SwitchOn, platform, discord, locals, history, hazards, TypeOK, HandsInv, WayInv,
     Way, KindOf, Others, Latest, Leaves, LeavesTab, HasWork
<1>6. CASE Crash
  BY <1>6 DEF Crash, Strikes, platform, discord, history, TypeOK, HandsInv, WayInv, Way, KindOf,
     Others, Latest, Leaves, LeavesTab, HasWork
<1>7. CASE DeleteFails(a)
  BY <1>7 DEF DeleteFails, Strikes, Goes, platform, database, discord, history, TypeOK, HandsInv,
     WayInv, Way, KindOf, Others, Latest, Leaves, LeavesTab, HasWork
<1>8. CASE CreateAnswerLost(a)
  <2>1. pc'[a] \in {"threw", "idle"} /\ (a = Roll => pc'[a] = "idle")
        /\ lastId' = lastId + 1 /\ tab' = [tab EXCEPT ![lastId + 1] = ver[a]]
    BY <1>8 DEF CreateAnswerLost, NewScheduledEvent, Throws, Goes, TypeOK
  <2>2. \A i \in Id : i > lastId' => tab'[i] = 0
    BY <2>1 DEF TypeOK, WayInv, Id
  <2> QED BY <2>1, <2>2 DEF Way, Others
<1>9. CASE CallFails(a)
  BY <1>9 DEF CallFails, Strikes, Throws, Goes, platform, database, discord, history, TypeOK,
     HandsInv, WayInv, Way, KindOf, Others, Latest, Leaves, LeavesTab, HasWork
<1>10. CASE CheckFeature(a)
  <2>1. /\ pc[a] = "apply" /\ pc'[a] \in {"get", "advance", "idle"} /\ (a = Roll => pc'[a] # "advance")
        /\ UNCHANGED <<kinds, cursor, tab, lastId, ver>>
    BY <1>10 DEF CheckFeature, Done, Goes, TypeOK, platform, database, discord
  <2> QED BY <2>1 DEF WayInv, Way, KindOf, Others
<1>11. CASE ReadMirror(a)
  BY <1>11 DEF ReadMirror, platform, database, discord, history, hazards, TypeOK, HandsInv,
     WayInv, Way, KindOf, Others, Latest, Leaves, LeavesTab, HasWork
<1>12. CASE MayMirror(a)
  <2>1. /\ pc[a] = "permission" /\ pc'[a] \in {NextCall(a), "advance", "idle"} /\ (a = Roll => pc'[a] # "advance")
        /\ UNCHANGED <<kinds, cursor, tab, lastId, mirrorRow, ver, held, made, struck>>
        /\ pc'[a] = NextCall(a) \/ pc'[a] = IF a = Consumer THEN "advance" ELSE "idle"
    BY <1>12 DEF MayMirror, NextCall, Done, Goes, TypeOK, platform, discord, hazards
  <2>2. KindOf(a) \in {"near", "far", "cancelled", "private"} /\ HasWork(KindOf(a), held[a]) /\ held[a] = mirrorRow
    <3>1. ver[a] \in 1..Len(kinds)
      BY <2>1 DEF HandsInv, TypeOK, Latest
    <3>2. kinds[ver[a]] \in Kinds
      BY <3>1, KindIs DEF Latest
    <3>3. KindOf(a) \in AllKinds
      BY <3>2, MirrorAssumption DEF KindOf
    <3> QED BY <2>1, <3>3 DEF WayInv, Way, HandsInv, AllKinds
  <2>3. /\ KindOf(a)' = KindOf(a)
        /\ NextCall(a) = "delete" => Leaves(KindOf(a))
        /\ NextCall(a) = "edit" => ~Leaves(KindOf(a))
        /\ NextCall(a) \in {"intend", "create"} => mirrorRow = 0 /\ KindOf(a) = "near"
        /\ NextCall(a) \in {"delete", "edit", "intend", "create"}
    BY <2>1, <2>2 DEF NextCall, Leaves, LeavesTab, HasWork, KindOf
  <2>4. Way(a)'
    BY <2>1, <2>2, <2>3 DEF Way
  <2> QED BY <2>1, <2>2, <2>3, <2>4 DEF WayInv, Others, KindOf
<1>13. CASE DeleteScheduledEvent(a)
  BY <1>13 DEF DeleteScheduledEvent, Goes, platform, database, history, hazards, TypeOK, HandsInv,
     WayInv, Way, KindOf, Others, Latest, Leaves, LeavesTab, HasWork
<1>14. CASE ClearMirror(a)
  <2>1. /\ pc'[a] \in {"advance", "threw", "idle"} /\ (a = Roll => pc'[a] = "idle")
        /\ UNCHANGED <<cursor, tab, lastId, ver>>
    BY <1>14 DEF ClearMirror, Done, Throws, Goes, TypeOK, discord
  <2> QED BY <2>1 DEF Way, Others, WayInv
<1>15. CASE EditScheduledEvent(a)
  <2>1. /\ pc[a] = "edit" /\ pc'[a] \in {"advance", "threw", "idle"} /\ (a = Roll => pc'[a] = "idle")
        /\ UNCHANGED <<cursor, lastId, ver, mirrorRow>>
        /\ \/ tab' = tab
           \/ tab' = [tab EXCEPT ![held[a]] = ver[a]] /\ tab[held[a]] # 0
    BY <1>15 DEF EditScheduledEvent, Done, Throws, Goes, TypeOK, database
  <2>2. held[a] \in Id
    BY <2>1, InHand
  <2>3. \A i \in Id : i > lastId => tab'[i] = 0
    BY <2>1, <2>2 DEF WayInv, TypeOK
  <2> QED BY <2>1, <2>3 DEF Way, Others
<1>16. CASE CreateScheduledEvent(a)
  <2>1. /\ pc[a] = "create" /\ pc'[a] \in {"recordPosted", "recordMirror"} /\ (a = Roll => pc'[a] = "recordMirror")
        /\ UNCHANGED <<kinds, cursor, ver, held, mirrorRow, struck>> /\ made'[a] = lastId + 1
        /\ lastId' = lastId + 1 /\ tab' = [tab EXCEPT ![lastId + 1] = ver[a]] /\ lastId + 1 \in Id
    BY <1>16 DEF CreateScheduledEvent, NewScheduledEvent, TypeOK, platform, database, hazards, Id
  <2>2. \A i \in Id : i > lastId' => tab'[i] = 0
    BY <2>1 DEF TypeOK, WayInv, Id
  <2>3. Way(a)'
    <3>1. tab'[made'[a]] = ver'[a] /\ made'[a] <= lastId'
      BY <2>1 DEF TypeOK
    <3> QED BY <2>1, <3>1 DEF Way, KindOf, WayInv
  <2> QED BY <2>1, <2>2, <2>3 DEF Others, WayInv, KindOf
<1>17. CASE CreateRefused(a)
  BY <1>17 DEF CreateRefused, Throws, Goes, platform, database, discord, history, hazards, TypeOK,
     HandsInv, WayInv, Way, KindOf, Others, Latest, Leaves, LeavesTab, HasWork
<1>18. CASE RecordMirror(a)
  BY <1>18 DEF RecordMirror, Done, Goes, platform, discord, history, hazards, TypeOK, HandsInv,
     WayInv, Way, KindOf, Others, Latest, Leaves, LeavesTab, HasWork
<1>19. CASE a = Consumer /\ Take
  BY <1>19 DEF Take, Begins, platform, database, discord, hazards, TypeOK, HandsInv, WayInv, Way,
     KindOf, Others, Latest, Leaves, LeavesTab, HasWork
<1>20. CASE a = Consumer /\ Intend
  BY <1>20 DEF Intend, IntendLeadsTo, Goes, platform, discord, history, hazards, TypeOK, HandsInv,
     WayInv, Way, KindOf, Others, Latest, Leaves, LeavesTab, HasWork
<1>21. CASE a = Consumer /\ RecordAgain
  BY <1>21 DEF RecordAgain, Done, Goes, platform, discord, history, hazards, TypeOK, HandsInv,
     WayInv, Way, KindOf, Others, Latest, Leaves, LeavesTab, HasWork
<1>22. CASE a = Consumer /\ RecordPosted
  BY <1>22 DEF RecordPosted, Goes, platform, discord, history, hazards, TypeOK, HandsInv, WayInv,
     Way, KindOf, Others, Latest, Leaves, LeavesTab, HasWork
<1>23. CASE a = Consumer /\ Remove
  BY <1>23 DEF Remove, platform, database, discord, history, hazards, TypeOK, HandsInv, WayInv,
     Way, KindOf, Others, Latest, Leaves, LeavesTab, HasWork
<1>24. CASE a = Consumer /\ HandlerThrew
  BY <1>24 DEF HandlerThrew, GivesUp, Goes, platform, database, discord, hazards, TypeOK,
     HandsInv, WayInv, Way, KindOf, Others, Latest, Leaves, LeavesTab, HasWork
<1>25. CASE a = Consumer /\ Advance
  BY <1>25 DEF Advance, Goes, platform, discord, history, hazards, TypeOK, HandsInv, WayInv, Way,
     KindOf, Others, Latest, Leaves, LeavesTab, HasWork
<1>26. CASE a = Roll /\ RollRead
  BY <1>26 DEF RollRead, Begins, Latest, platform, database, discord, hazards, TypeOK, HandsInv,
     WayInv, Way, KindOf, Others, Leaves, LeavesTab, HasWork
<1>27. CASE Outside
  BY <1>27, <1>1, <1>2, <1>3, <1>4, <1>5, <1>6 DEF Outside
<1>28. CASE a = Consumer /\ OfConsumer
  BY <1>28, <1>19, <1>20, <1>21, <1>22, <1>23, <1>24, <1>25 DEF OfConsumer
<1> QED BY <1>7, <1>8, <1>9, <1>10, <1>11, <1>12, <1>13, <1>14, <1>15, <1>16, <1>17, <1>18, <1>26,
       <1>27, <1>28 DEF Step

-----------------------------------------------------------------------------
\* What is out of sight, as the one actor at work has it.

Sight(a) ==
  IF ~permitted \/ pc[a] \in {"clear", "clearAndThrow"} THEN Shown
  ELSE Shown \ ({mirrorRow} \cup (IF pc[a] \in {"recordPosted", "recordMirror"} THEN {made[a]} ELSE {}))

LEMMA SightNow == ASSUME NEW a \in Actor, Others(a) PROVE OutOfSight = Sight(a)
<1>1. Forgetting <=> ~permitted \/ pc[a] \in {"clear", "clearAndThrow"}
  BY DEF Others, Forgetting
<1>2. InFlight = IF pc[a] \in {"recordPosted", "recordMirror"} THEN {made[a]} ELSE {}
  BY DEF Others, InFlight
<1> QED BY <1>1, <1>2 DEF OutOfSight, Orphans, Sight

LEMMA SightNext == ASSUME NEW a \in Actor, Others(a)' PROVE OutOfSight' = Sight(a)'
<1>1. Forgetting' <=> ~permitted' \/ pc'[a] \in {"clear", "clearAndThrow"}
  BY DEF Others, Forgetting
<1>2. InFlight' = IF pc'[a] \in {"recordPosted", "recordMirror"} THEN {made'[a]} ELSE {}
  BY DEF Others, InFlight
<1> QED BY <1>1, <1>2 DEF OutOfSight, Orphans, Sight

LEMMA SightIsFinite == IsFiniteSet(OutOfSight)
<1>1. IsFiniteSet(Id)
  <2>1. 1 \in Int /\ MaxIds \in Int
    BY MirrorAssumption
  <2> QED BY <2>1, FS_Interval DEF Id
<1>2. OutOfSight \subseteq Id
  BY DEF OutOfSight, Orphans, Shown
<1> QED BY <1>1, <1>2, FS_Subset

\* What a step puts out of sight, it pays for.
SightPaid ==
  \/ OutOfSight' \subseteq OutOfSight /\ faults' = faults
  \/ faults' = faults + 1 /\ \E x : OutOfSight' \subseteq OutOfSight \cup {x}

LEMMA Paying == ASSUME Typed, OrphanInv, SightPaid PROVE OrphanInv'
<1>1. IsFiniteSet(OutOfSight) /\ Cardinality(OutOfSight) \in Nat /\ faults \in Nat
  BY SightIsFinite, FS_CardinalityType, MirrorAssumption DEF Typed, TypeOK
<1>2. CASE OutOfSight' \subseteq OutOfSight /\ faults' = faults
  <2>1. IsFiniteSet(OutOfSight') /\ Cardinality(OutOfSight') <= Cardinality(OutOfSight) /\ Cardinality(OutOfSight') \in Nat
    BY <1>1, <1>2, FS_Subset, FS_CardinalityType
  <2> QED BY <1>1, <1>2, <2>1 DEF OrphanInv
<1>3. ASSUME NEW x, OutOfSight' \subseteq OutOfSight \cup {x}, faults' = faults + 1 PROVE OrphanInv'
  <2>1. /\ IsFiniteSet(OutOfSight \cup {x}) /\ Cardinality(OutOfSight \cup {x}) <= Cardinality(OutOfSight) + 1
        /\ Cardinality(OutOfSight \cup {x}) \in Nat
    BY <1>1, FS_AddElement, FS_CardinalityType
  <2>2. Cardinality(OutOfSight') <= Cardinality(OutOfSight \cup {x}) /\ Cardinality(OutOfSight') \in Nat
    BY <2>1, <1>3, FS_Subset, FS_CardinalityType
  <2> QED BY <1>1, <1>3, <2>1, <2>2 DEF OrphanInv
<1> QED BY <1>2, <1>3 DEF SightPaid

LEMMA OrphanKept ==
  ASSUME Typed, Typed', NEW a \in Actor, Others(a), Others(a)', WayInv, OrphanInv, Step(a)
  PROVE OrphanInv'
<1> USE DEF Consumer, Roll, Actor, Typed
<1>o. OutOfSight = Sight(a) /\ OutOfSight' = Sight(a)'
  BY SightNow, SightNext
<1>w. Way(a) /\ (pc[a] \in {"recordPosted", "recordMirror", "create"} => mirrorRow = 0) /\ 0 \notin Shown
  BY DEF WayInv, Way, Shown, Id
<1> SUFFICES SightPaid
  BY Paying
<1>1. ASSUME NEW kind \in Kinds, Publish(kind) PROVE SightPaid
  BY <1>1, <1>o, <1>w DEF Publish, Latest, database, discord, locals, history, hazards, TypeOK,
     HandsInv, Sight, Shown, SightPaid
<1>2. ASSUME NEW i \in Id, ManualDelete(i) PROVE SightPaid
  <2>1. /\ faults' = faults + 1 /\ UNCHANGED <<mirrorRow, permitted, made, pc>>
        /\ tab' = [tab EXCEPT ![i] = 0]
    BY <1>2 DEF ManualDelete, Strikes, platform, database, locals, history
  <2>2. Sight(a)' \subseteq Sight(a) \cup {i}
    BY <2>1 DEF Sight, Shown, TypeOK
  <2> QED BY <2>1, <2>2, <1>o DEF SightPaid
<1>3. CASE RevokePermission
  <2>1. faults' = faults + 1 /\ UNCHANGED <<tab, mirrorRow, made, pc>> /\ ~permitted'
    BY <1>3 DEF RevokePermission, Strikes, platform, database, locals, history
  <2>2. \E x : Sight(a)' \subseteq Sight(a) \cup {x}
    <3>1. CASE pc[a] \in {"recordPosted", "recordMirror"}
      <4>1. Sight(a)' \subseteq Sight(a) \cup {made[a]}
        BY <2>1, <3>1, <1>w DEF Sight, Shown
      <4> QED BY <4>1
    <3>2. CASE pc[a] \notin {"recordPosted", "recordMirror"}
      <4>1. Sight(a)' \subseteq Sight(a) \cup {mirrorRow}
        BY <2>1, <3>2 DEF Sight, Shown
      <4> QED BY <4>1
    <3> QED BY <3>1, <3>2
  <2> QED BY <2>1, <2>2, <1>o DEF SightPaid
<1>4. CASE GrantPermission
  BY <1>4, <1>o, <1>w DEF GrantPermission, platform, database, locals, history, hazards, TypeOK,
     HandsInv, Sight, Shown, SightPaid
<1>5. CASE SwitchOn
  BY <1>5, <1>o, <1>w DEF SwitchOn, platform, discord, locals, history, hazards, TypeOK, HandsInv,
     Sight, Shown, SightPaid
<1>6. CASE Crash
  <2>1. faults' = faults + 1 /\ UNCHANGED <<tab, mirrorRow, permitted>> /\ pc'[a] = "idle"
    BY <1>6 DEF Crash, Strikes, platform, discord, history
  <2>2. Sight(a)' \subseteq Sight(a) \cup {made[a]}
    BY <2>1 DEF Sight, Shown
  <2> QED BY <2>1, <2>2, <1>o DEF SightPaid
<1>7. CASE DeleteFails(a)
  <2>1. faults' = faults + 1 /\ UNCHANGED <<tab, mirrorRow, permitted>> /\ pc[a] = "delete"
    BY <1>7 DEF DeleteFails, Strikes, Goes, platform, database, discord, history
  <2>2. Sight(a)' \subseteq Sight(a) \cup {mirrorRow}
    BY <2>1 DEF Sight, Shown
  <2> QED BY <2>1, <2>2, <1>o DEF SightPaid
<1>8. CASE CreateAnswerLost(a)
  <2>1. /\ faults' = faults + 1 /\ UNCHANGED <<mirrorRow, permitted>> /\ pc[a] = "create" /\ permitted
        /\ tab' = [tab EXCEPT ![lastId + 1] = ver[a]]
    BY <1>8 DEF CreateAnswerLost, NewScheduledEvent, Strikes, Throws, Goes, platform, database,
       history
  <2>2. pc'[a] \in {"threw", "idle"}
    BY <1>8 DEF CreateAnswerLost, NewScheduledEvent, Strikes, Throws, Goes, platform, database,
       history, TypeOK
  <2>3. Sight(a)' \subseteq Sight(a) \cup {lastId + 1}
    BY <2>1, <2>2 DEF Sight, Shown, TypeOK
  <2> QED BY <2>1, <2>3, <1>o DEF SightPaid
<1>9. CASE CallFails(a)
  <2>1. faults' = faults + 1 /\ UNCHANGED <<tab, mirrorRow, permitted, made>>
    BY <1>9 DEF CallFails, Strikes, Throws, Goes, platform, database, discord, history
  <2>2. pc'[a] \in {"threw", "idle"}
    BY <1>9 DEF CallFails, Strikes, Throws, Goes, platform, database, discord, history, TypeOK
  <2>3. Sight(a)' \subseteq Sight(a) \cup {made[a]}
    BY <2>1, <2>2 DEF Sight, Shown, TypeOK
  <2> QED BY <2>1, <2>3, <1>o DEF SightPaid
<1>10. CASE CheckFeature(a)
  BY <1>10, <1>o, <1>w DEF CheckFeature, Done, Goes, platform, database, discord, history,
     hazards, TypeOK, HandsInv, Sight, Shown, SightPaid
<1>11. CASE ReadMirror(a)
  BY <1>11, <1>o, <1>w DEF ReadMirror, platform, database, discord, history, hazards, TypeOK,
     HandsInv, Sight, Shown, SightPaid
<1>12. CASE MayMirror(a)
  BY <1>12, <1>o, <1>w DEF MayMirror, NextCall, Done, Goes, platform, discord, history, hazards,
     TypeOK, HandsInv, Sight, Shown, SightPaid
<1>13. CASE DeleteScheduledEvent(a)
  <2>1. /\ UNCHANGED <<faults, mirrorRow, permitted>> /\ pc[a] = "delete" /\ pc'[a] = "clear"
        /\ tab' = IF permitted THEN [tab EXCEPT ![held[a]] = 0] ELSE tab
    BY <1>13 DEF DeleteScheduledEvent, Goes, platform, database, history, hazards, TypeOK
  <2>2. held[a] = mirrorRow
    BY <2>1, <1>w DEF Way
  <2>3. Sight(a)' \subseteq Sight(a)
    BY <2>1, <2>2 DEF Sight, Shown, TypeOK
  <2> QED BY <2>1, <2>3, <1>o DEF SightPaid
<1>14. CASE ClearMirror(a)
  BY <1>14, <1>o, <1>w DEF ClearMirror, Done, Throws, Goes, platform, discord, history, hazards,
     TypeOK, HandsInv, Sight, Shown, SightPaid
<1>15. CASE EditScheduledEvent(a)
  <2>1. /\ UNCHANGED <<faults, mirrorRow, permitted>> /\ pc[a] = "edit"
        /\ \/ tab' = tab
           \/ tab' = [tab EXCEPT ![held[a]] = ver[a]] /\ tab[held[a]] # 0
    BY <1>15 DEF EditScheduledEvent, Done, Throws, Goes, platform, database, history, hazards
  <2>2. pc'[a] \in {"advance", "threw", "idle"}
    BY <1>15 DEF EditScheduledEvent, Done, Throws, Goes, platform, database, history, hazards,
       TypeOK
  <2>3. Shown' \subseteq Shown
    BY <2>1 DEF Shown, TypeOK
  <2>4. Sight(a)' \subseteq Sight(a)
    BY <2>1, <2>2, <2>3 DEF Sight
  <2> QED BY <2>1, <2>4, <1>o DEF SightPaid
<1>16. CASE CreateScheduledEvent(a)
  BY <1>16, <1>o, <1>w DEF CreateScheduledEvent, NewScheduledEvent, platform, database, history,
     hazards, TypeOK, HandsInv, Sight, Shown, SightPaid
<1>17. CASE CreateRefused(a)
  BY <1>17, <1>o, <1>w DEF CreateRefused, Throws, Goes, platform, database, discord, history,
     hazards, TypeOK, HandsInv, Sight, Shown, SightPaid
<1>18. CASE RecordMirror(a)
  BY <1>18, <1>o, <1>w DEF RecordMirror, Done, Goes, platform, discord, history, hazards, TypeOK,
     HandsInv, Sight, Shown, SightPaid
<1>19. CASE a = Consumer /\ Take
  BY <1>19, <1>o, <1>w DEF Take, Begins, platform, database, discord, hazards, TypeOK, HandsInv,
     Sight, Shown, SightPaid
<1>20. CASE a = Consumer /\ Intend
  BY <1>20, <1>o, <1>w DEF Intend, IntendLeadsTo, Goes, platform, discord, history, hazards,
     TypeOK, HandsInv, Sight, Shown, SightPaid
<1>21. CASE a = Consumer /\ RecordAgain
  <2>1. UNCHANGED <<faults, tab, permitted>> /\ pc[a] = "recordAgain" /\ pc'[a] = "advance" /\ mirrorRow = 0
    BY <1>21, <1>w DEF RecordAgain, Done, Goes, platform, discord, history, hazards, TypeOK, Way
  <2>2. Sight(a)' \subseteq Sight(a)
    BY <2>1, <1>w DEF Sight, Shown
  <2> QED BY <2>1, <2>2, <1>o DEF SightPaid
<1>22. CASE a = Consumer /\ RecordPosted
  BY <1>22, <1>o, <1>w DEF RecordPosted, Goes, platform, discord, history, hazards, TypeOK,
     HandsInv, Sight, Shown, SightPaid
<1>23. CASE a = Consumer /\ Remove
  BY <1>23, <1>o, <1>w DEF Remove, platform, database, discord, history, hazards, TypeOK,
     HandsInv, Sight, Shown, SightPaid
<1>24. CASE a = Consumer /\ HandlerThrew
  BY <1>24, <1>o, <1>w DEF HandlerThrew, GivesUp, Goes, platform, database, discord, hazards,
     TypeOK, HandsInv, Sight, Shown, SightPaid
<1>25. CASE a = Consumer /\ Advance
  BY <1>25, <1>o, <1>w DEF Advance, Goes, platform, discord, history, hazards, TypeOK, HandsInv,
     Sight, Shown, SightPaid
<1>26. CASE a = Roll /\ RollRead
  BY <1>26, <1>o, <1>w DEF RollRead, Begins, Latest, platform, database, discord, hazards, TypeOK,
     HandsInv, Sight, Shown, SightPaid
<1>27. CASE Outside
  BY <1>27, <1>1, <1>2, <1>3, <1>4, <1>5, <1>6 DEF Outside
<1>28. CASE a = Consumer /\ OfConsumer
  BY <1>28, <1>19, <1>20, <1>21, <1>22, <1>23, <1>24, <1>25 DEF OfConsumer
<1> QED BY <1>7, <1>8, <1>9, <1>10, <1>11, <1>12, <1>13, <1>14, <1>15, <1>16, <1>17, <1>18, <1>26,
       <1>27, <1>28 DEF Step

LEMMA PostedKept ==
  ASSUME Typed, Typed', NEW a \in Actor, Others(a), Others(a)', WayInv, PostedInv, Step(a)
  PROVE PostedInv'
<1> USE DEF Consumer, Roll, Actor, Typed
<1>1. ASSUME NEW kind \in Kinds, Publish(kind) PROVE PostedInv'
  BY <1>1 DEF Publish, Latest, database, discord, locals, history, hazards, TypeOK, HandsInv,
     HazardsInv, PostedInv, Id, Version
<1>2. ASSUME NEW i \in Id, ManualDelete(i) PROVE PostedInv'
  BY <1>2 DEF ManualDelete, Strikes, platform, database, locals, history, TypeOK, HandsInv,
     HazardsInv, PostedInv, Latest, Id, Version
<1>3. CASE RevokePermission
  BY <1>3 DEF RevokePermission, Strikes, platform, database, locals, history, TypeOK, HandsInv,
     HazardsInv, PostedInv, Latest, Id, Version
<1>4. CASE GrantPermission
  BY <1>4 DEF GrantPermission, platform, database, locals, history, hazards, TypeOK, HandsInv,
     HazardsInv, PostedInv, Latest, Id, Version
<1>5. CASE SwitchOn
  BY <1>5 DEF SwitchOn, platform, discord, locals, history, hazards, TypeOK, HandsInv, HazardsInv,
     PostedInv, Latest, Id, Version
<1>6. CASE Crash
  BY <1>6 DEF Crash, Strikes, platform, discord, history, TypeOK, HandsInv, HazardsInv, PostedInv,
     Latest, Id, Version
<1>7. CASE DeleteFails(a)
  BY <1>7 DEF DeleteFails, Strikes, Goes, platform, database, discord, history, TypeOK, HandsInv,
     HazardsInv, PostedInv, Latest, Id, Version
<1>8. CASE CreateAnswerLost(a)
  <2>1. /\ UNCHANGED <<kinds, cursor, delivery>> /\ struck' = struck \cup {"lost"} /\ faults' = faults + 1
        /\ tab' = [tab EXCEPT ![lastId + 1] = ver[a]] /\ pc[a] = "create"
    BY <1>8 DEF CreateAnswerLost, NewScheduledEvent, Strikes, platform, database
  <2>2. \A i \in Id : tab[i] # 0 => tab'[i] # 0
    BY <2>1, InHand DEF TypeOK
  <2>3. faults' > 0
    BY <2>1 DEF TypeOK
  <2> QED BY <2>1, <2>2, <2>3 DEF PostedInv, Latest
<1>9. CASE CallFails(a)
  BY <1>9 DEF CallFails, Strikes, Throws, Goes, platform, database, discord, history, TypeOK,
     HandsInv, HazardsInv, PostedInv, Latest, Id, Version
<1>10. CASE CheckFeature(a)
  BY <1>10 DEF CheckFeature, Done, Goes, platform, database, discord, history, hazards, TypeOK,
     HandsInv, HazardsInv, PostedInv, Latest, Id, Version
<1>11. CASE ReadMirror(a)
  BY <1>11 DEF ReadMirror, platform, database, discord, history, hazards, TypeOK, HandsInv,
     HazardsInv, PostedInv, Latest, Id, Version
<1>12. CASE MayMirror(a)
  BY <1>12 DEF MayMirror, NextCall, Done, Goes, platform, discord, history, hazards, TypeOK,
     HandsInv, HazardsInv, PostedInv, Latest, Id, Version
<1>13. CASE DeleteScheduledEvent(a)
  <2>1. /\ UNCHANGED <<kinds, cursor, delivery, struck, faults, ver>> /\ pc[a] = "delete"
        /\ pc' = [pc EXCEPT ![a] = "clear"] /\ tab' \in [Id -> 0..MaxEntries]
    BY <1>13 DEF DeleteScheduledEvent, Goes, platform, database, history, hazards, TypeOK
  <2>2. Leaves(KindOf(a))
    BY <2>1 DEF WayInv, Way
  <2> SUFFICES ASSUME "crash" \notin struck, NEW n \in Version, n > cursor, delivery[n] \in Id PROVE FALSE
    BY <2>1 DEF PostedInv
  <2>3. n = cursor + 1 /\ n <= Latest /\ kinds[n] = "near" /\ (faults > 0 \/ pc[Consumer] \in {"recordMirror", "advance"})
    BY DEF PostedInv
  <2>4. CASE a = Consumer
    BY <2>1, <2>2, <2>3, <2>4 DEF HandsInv, KindOf, Leaves, LeavesTab
  <2>5. CASE a = Roll
    BY <2>1, <2>3, <2>5 DEF HandsInv, HazardsInv, Others
  <2> QED BY <2>4, <2>5
<1>14. CASE ClearMirror(a)
  BY <1>14 DEF ClearMirror, Done, Throws, Goes, platform, discord, history, hazards, TypeOK,
     HandsInv, HazardsInv, PostedInv, Latest, Id, Version
<1>15. CASE EditScheduledEvent(a)
  <2>1. /\ UNCHANGED <<kinds, cursor, delivery, struck, faults>> /\ pc[a] = "edit"
        /\ \/ tab' = tab
           \/ tab' = [tab EXCEPT ![held[a]] = ver[a]]
    BY <1>15 DEF EditScheduledEvent, Done, Throws, Goes, platform, database, history, hazards
  <2>2. pc'[a] \in {"advance", "threw", "idle"} /\ (a = Roll => pc'[Consumer] = pc[Consumer])
    BY <1>15 DEF EditScheduledEvent, Done, Throws, Goes, platform, database, history, hazards,
       TypeOK
  <2>3. ver[a] # 0 /\ held[a] \in Id
    <3>1. held[a] \in Id
      BY <2>1, InHand
    <3>2. ver[a] # 0
      BY <2>1, InHand
    <3> QED BY <3>1, <3>2
  <2>4. \A i \in Id : tab[i] # 0 => tab'[i] # 0
    BY <2>1, <2>3 DEF TypeOK
  <2>5. pc[Consumer] \notin {"recordMirror", "advance"} \/ pc'[Consumer] = pc[Consumer]
    BY <2>1, <2>2 DEF Others
  <2> QED BY <2>1, <2>4, <2>5 DEF PostedInv, Latest
<1>16. CASE CreateScheduledEvent(a)
  BY <1>16 DEF CreateScheduledEvent, NewScheduledEvent, platform, database, history, hazards,
     TypeOK, HandsInv, HazardsInv, PostedInv, Latest, Id, Version
<1>17. CASE CreateRefused(a)
  BY <1>17 DEF CreateRefused, Throws, Goes, platform, database, discord, history, hazards, TypeOK,
     HandsInv, HazardsInv, PostedInv, Latest, Id, Version
<1>18. CASE RecordMirror(a)
  BY <1>18 DEF RecordMirror, Done, Goes, platform, discord, history, hazards, TypeOK, HandsInv,
     HazardsInv, PostedInv, Latest, Id, Version
<1>19. CASE a = Consumer /\ Take
  BY <1>19 DEF Take, Begins, platform, database, discord, hazards, TypeOK, HandsInv, HazardsInv,
     PostedInv, Latest, Id, Version
<1>20. CASE a = Consumer /\ Intend
  <2>1. /\ UNCHANGED <<kinds, cursor, tab, struck, faults>> /\ pc[Consumer] = "intend"
        /\ \A n \in Version : delivery'[n] \in Id => delivery'[n] = delivery[n]
    <3>1. /\ UNCHANGED <<kinds, cursor, tab, struck, faults>> /\ pc[Consumer] = "intend"
          /\ delivery' = [delivery EXCEPT ![ver[Consumer]] = IF delivery[ver[Consumer]] = NoRow THEN Owed ELSE delivery[ver[Consumer]]]
      BY <1>20 DEF Intend, IntendLeadsTo, Goes, platform, discord, history, hazards
    <3> QED BY <3>1 DEF Id, Owed, TypeOK
  <2> QED BY <2>1 DEF PostedInv, Latest
<1>21. CASE a = Consumer /\ RecordAgain
  BY <1>21 DEF RecordAgain, Done, Goes, platform, discord, history, hazards, TypeOK, HandsInv,
     HazardsInv, PostedInv, Latest, Id, Version
<1>22. CASE a = Consumer /\ RecordPosted
  <2>1. /\ UNCHANGED <<kinds, cursor, tab, struck, faults>> /\ pc[Consumer] = "recordPosted" /\ pc'[Consumer] = "recordMirror"
        /\ delivery' = [delivery EXCEPT ![ver[Consumer]] = made[Consumer]]
    BY <1>22 DEF RecordPosted, Goes, platform, discord, history, hazards, TypeOK
  <2>2. /\ ver[Consumer] = cursor + 1 /\ cursor < Latest /\ ver[Consumer] \in Version /\ KindOf(Consumer) = "near"
        /\ tab[made[Consumer]] = ver[Consumer] \/ "manual" \in struck
    BY <2>1, MirrorAssumption DEF HandsInv, TypeOK, Latest, Version, WayInv, Way
  <2>3. \A n \in Version : n # ver[Consumer] => delivery'[n] = delivery[n]
    BY <2>1, <2>2 DEF TypeOK
  <2>4. delivery'[ver[Consumer]] = made[Consumer]
    BY <2>1, <2>2 DEF TypeOK
  <2> SUFFICES ASSUME "crash" \notin struck, NEW n \in Version, n > cursor, delivery'[n] \in Id
               PROVE n = cursor + 1 /\ n <= Latest /\ kinds[n] = "near" /\ (tab[delivery'[n]] # 0 \/ "manual" \in struck)
    BY <2>1 DEF PostedInv, Latest
  <2>5. CASE n = ver[Consumer]
    <3>1. n = cursor + 1 /\ n <= Latest /\ kinds[n] = "near"
      BY <2>2, <2>5 DEF KindOf, Latest, TypeOK
    <3>2. tab[delivery'[n]] # 0 \/ "manual" \in struck
      BY <2>2, <2>4, <2>5 DEF Version
    <3> QED BY <3>1, <3>2
  <2>6. CASE n # ver[Consumer]
    BY <2>3, <2>6 DEF PostedInv
  <2> QED BY <2>5, <2>6
<1>23. CASE a = Consumer /\ Remove
  BY <1>23 DEF Remove, platform, database, discord, history, hazards, TypeOK, HandsInv,
     HazardsInv, PostedInv, Latest, Id, Version
<1>24. CASE a = Consumer /\ HandlerThrew
  BY <1>24 DEF HandlerThrew, GivesUp, Goes, platform, database, discord, hazards, TypeOK,
     HandsInv, HazardsInv, PostedInv, Latest, Id, Version
<1>25. CASE a = Consumer /\ Advance
  BY <1>25 DEF Advance, Goes, platform, discord, history, hazards, TypeOK, HandsInv, HazardsInv,
     PostedInv, Latest, Id, Version
<1>26. CASE a = Roll /\ RollRead
  BY <1>26 DEF RollRead, Begins, Latest, platform, database, discord, hazards, TypeOK, HandsInv,
     HazardsInv, PostedInv, Id, Version
<1>27. CASE Outside
  BY <1>27, <1>1, <1>2, <1>3, <1>4, <1>5, <1>6 DEF Outside
<1>28. CASE a = Consumer /\ OfConsumer
  BY <1>28, <1>19, <1>20, <1>21, <1>22, <1>23, <1>24, <1>25 DEF OfConsumer
<1> QED BY <1>7, <1>8, <1>9, <1>10, <1>11, <1>12, <1>13, <1>14, <1>15, <1>16, <1>17, <1>18, <1>26,
       <1>27, <1>28 DEF Step

LEMMA AttemptsKept ==
  ASSUME Typed, Typed', NEW a \in Actor, Others(a), Others(a)', WayInv, PostedInv, AttemptsInv,
         Step(a)
  PROVE AttemptsInv'
<1> USE DEF Consumer, Roll, Actor, Typed
<1> DEFINE Again == "fail" \in struck /\ cursor < Latest /\ Leaves(kinds[cursor + 1]) /\ pc[Consumer] # "advance"
<1> DEFINE Goal == /\ givenUp = {}
                   /\ attempts + (IF Failing THEN 1 ELSE 0) <= faults
                   /\ mirrorRow # 0 => tab[mirrorRow] # 0 \/ Deleting
<1>d. (Deleting <=> pc[a] = "clear" \/ Again) /\ (Deleting' <=> pc'[a] = "clear" \/ Again')
  BY DEF Deleting, Others
<1>n. attempts \in Nat /\ faults \in Nat /\ MaxAttempts \in Nat \ {0} /\ cursor \in Nat /\ Latest \in Nat
  BY MirrorAssumption DEF TypeOK, Latest
<1>w. Way(a)
  BY DEF WayInv
<1>1. ASSUME NEW kind \in Kinds, Publish(kind) PROVE AttemptsInv'
  BY <1>1, <1>d, <1>n, <1>w DEF Publish, Latest, database, discord, locals, history, hazards,
     TypeOK, HandsInv, HazardsInv, AttemptsInv, Repaired, Failing, Way
<1>2. ASSUME NEW i \in Id, ManualDelete(i) PROVE AttemptsInv'
  BY <1>2, <1>d, <1>n, <1>w DEF ManualDelete, Strikes, platform, database, locals, history,
     TypeOK, HandsInv, HazardsInv, AttemptsInv, Repaired, Failing, Latest, Way
<1>3. CASE RevokePermission
  BY <1>3, <1>d, <1>n, <1>w DEF RevokePermission, Strikes, platform, database, locals, history,
     TypeOK, HandsInv, HazardsInv, AttemptsInv, Repaired, Failing, Latest, Way
<1>4. CASE GrantPermission
  BY <1>4, <1>d, <1>n, <1>w DEF GrantPermission, platform, database, locals, history, hazards,
     TypeOK, HandsInv, HazardsInv, AttemptsInv, Repaired, Failing, Latest, Way
<1>5. CASE SwitchOn
  BY <1>5, <1>d, <1>n, <1>w DEF SwitchOn, platform, discord, locals, history, hazards, TypeOK,
     HandsInv, HazardsInv, AttemptsInv, Repaired, Failing, Latest, Way
<1>6. CASE Crash
  BY <1>6, <1>d, <1>n, <1>w DEF Crash, Strikes, platform, discord, history, TypeOK, HandsInv,
     HazardsInv, AttemptsInv, Repaired, Failing, Latest, Way
<1>7. CASE DeleteFails(a)
  BY <1>7, <1>d, <1>n, <1>w DEF DeleteFails, Strikes, Goes, platform, database, discord, history,
     TypeOK, HandsInv, HazardsInv, AttemptsInv, Repaired, Failing, Latest, Way
<1>8. CASE CreateAnswerLost(a)
  BY <1>8, <1>d, <1>n, <1>w DEF CreateAnswerLost, NewScheduledEvent, Strikes, Throws, Goes,
     platform, database, history, TypeOK, HandsInv, HazardsInv, AttemptsInv, Repaired, Failing,
     Latest, Way
<1>9. CASE CallFails(a)
  <2>1. /\ faults' = faults + 1 /\ struck' = struck \cup {"fail"} /\ ~rolls /\ pc[a] # "idle"
        /\ UNCHANGED <<kinds, cursor, tab, mirrorRow, attempts, givenUp, permitted, ver>>
        /\ pc[a] \notin {"threw", "advance", "delete"}
    BY <1>9 DEF CallFails, Strikes, Throws, Goes, platform, database, discord, history
  <2>2. a = Consumer
    BY <2>1 DEF HandsInv
  <2>3. pc'[Consumer] = "threw"
    BY <1>9, <2>2 DEF CallFails, Strikes, Throws, Goes, platform, database, discord, history, TypeOK
  <2> SUFFICES ASSUME Repaired', faults' < MaxAttempts PROVE Goal'
    BY DEF AttemptsInv
  <2>4. Repaired /\ faults < MaxAttempts
    BY <2>1, <1>n DEF Repaired
  <2>5. Goal
    BY <2>4 DEF AttemptsInv
  <2>6. Again => Again'
    BY <2>1, <2>3 DEF Latest
  <2>7. pc[a] = "clear" => Again'
    BY <2>1, <2>2, <2>3, <1>w DEF Way, HandsInv, KindOf, Latest
  <2> QED BY <2>1, <2>3, <2>5, <2>6, <2>7, <1>d, <1>n DEF Failing
<1>10. CASE CheckFeature(a)
  <2>1. /\ UNCHANGED <<kinds, cursor, tab, mirrorRow, attempts, givenUp, permitted, struck, faults>> /\ pc[a] = "apply"
        /\ \/ pc'[a] = "get"
           \/ pc'[a] \in {"advance", "idle"} /\ ~enabled
    BY <1>10 DEF CheckFeature, Done, Goes, platform, database, discord, history, hazards, TypeOK
  <2>r. a = Roll => pc'[Consumer] = "idle" /\ pc[Consumer] = "idle"
    BY DEF Others
  <2> SUFFICES ASSUME Repaired, faults < MaxAttempts PROVE Goal'
    BY <2>1 DEF AttemptsInv, Repaired
  <2>2. Goal
    BY DEF AttemptsInv
  <2>3. Failing' = FALSE /\ Failing = FALSE
    BY <2>1, <2>r DEF Failing
  <2>4. Again => Again'
    BY <2>1, <2>r DEF Latest, HazardsInv, Repaired
  <2> QED BY <2>1, <2>2, <2>3, <2>4, <1>d, <1>n
<1>11. CASE ReadMirror(a)
  <2>1. /\ UNCHANGED <<kinds, cursor, tab, mirrorRow, attempts, givenUp, permitted, struck, faults, ver>> /\ pc[a] = "get"
        /\ \/ pc'[a] = "permission"
           \/ pc'[a] \in {"advance", "idle"} /\ ~HasWork(KindOf(a), mirrorRow)
    BY <1>11 DEF ReadMirror, platform, database, discord, history, hazards, TypeOK
  <2>r. a = Roll => pc'[Consumer] = "idle" /\ pc[Consumer] = "idle"
    BY DEF Others
  <2> SUFFICES ASSUME Repaired, faults < MaxAttempts PROVE Goal'
    BY <2>1 DEF AttemptsInv, Repaired
  <2>2. Goal
    BY DEF AttemptsInv
  <2>3. Failing' = FALSE /\ Failing = FALSE
    BY <2>1, <2>r DEF Failing
  <2>4. mirrorRow # 0 /\ Again => Again'
    BY <2>1, <2>r, <1>w DEF Latest, HasWork, Way, HandsInv, KindOf, Leaves
  <2> QED BY <2>1, <2>2, <2>3, <2>4, <1>d, <1>n
<1>12. CASE MayMirror(a)
  <2>1. /\ UNCHANGED <<kinds, cursor, tab, mirrorRow, attempts, givenUp, permitted, struck, faults, ver>> /\ pc[a] = "permission"
        /\ \/ permitted /\ pc'[a] = NextCall(a)
           \/ ~permitted /\ pc'[a] \in {"advance", "idle"}
    BY <1>12 DEF MayMirror, Done, Goes, platform, discord, history, hazards, TypeOK
  <2>n. NextCall(a) \in {"delete", "edit", "intend", "create"}
    BY DEF NextCall
  <2>r. a = Roll => pc'[Consumer] = "idle" /\ pc[Consumer] = "idle"
    BY DEF Others
  <2> SUFFICES ASSUME Repaired, faults < MaxAttempts PROVE Goal'
    BY <2>1 DEF AttemptsInv, Repaired
  <2>2. Goal
    BY DEF AttemptsInv
  <2>3. Failing' = FALSE /\ Failing = FALSE
    BY <2>1, <2>n, <2>r DEF Failing
  <2>4. Again => Again'
    BY <2>1, <2>n, <2>r DEF Latest, HazardsInv, Repaired
  <2> QED BY <2>1, <2>2, <2>3, <2>4, <1>d, <1>n
<1>13. CASE DeleteScheduledEvent(a)
  BY <1>13, <1>d, <1>n, <1>w DEF DeleteScheduledEvent, Goes, platform, database, history, hazards,
     TypeOK, HandsInv, HazardsInv, AttemptsInv, Repaired, Failing, Latest, Way
<1>14. CASE ClearMirror(a)
  <2>1. /\ UNCHANGED <<attempts, givenUp, permitted, struck, faults>> /\ mirrorRow' = 0
        /\ \/ pc[a] = "clear" /\ pc'[a] \in {"advance", "idle"}
           \/ pc[a] = "clearAndThrow" /\ pc'[a] \in {"threw", "idle"}
    BY <1>14 DEF ClearMirror, Done, Throws, Goes, platform, discord, history, hazards, TypeOK
  <2>r. a = Roll => pc'[Consumer] = "idle" /\ pc[Consumer] = "idle"
    BY DEF Others
  <2> SUFFICES ASSUME Repaired, faults < MaxAttempts PROVE Goal'
    BY <2>1 DEF AttemptsInv, Repaired
  <2>2. Goal
    BY DEF AttemptsInv
  <2>3. Failing' => Failing
    BY <2>1, <2>r DEF Failing
  <2> QED BY <2>1, <2>2, <2>3, <1>n
<1>15. CASE EditScheduledEvent(a)
  <2>1. /\ UNCHANGED <<kinds, cursor, mirrorRow, attempts, givenUp, permitted, struck, faults, ver, rolls>> /\ pc[a] = "edit"
        /\ \/ tab' = [tab EXCEPT ![held[a]] = ver[a]] /\ permitted /\ tab[held[a]] # 0
           \/ tab' = tab /\ (~permitted \/ tab[held[a]] = 0)
    BY <1>15 DEF EditScheduledEvent, Done, Throws, Goes, platform, database, history, hazards
  <2>e. /\ tab' = [tab EXCEPT ![held[a]] = ver[a]] /\ permitted /\ tab[held[a]] # 0 => pc'[a] \in {"advance", "idle"}
        /\ ~permitted \/ tab[held[a]] = 0 => pc'[a] \in {"threw", "idle"}
    BY <1>15 DEF EditScheduledEvent, Done, Throws, Goes, platform, database, history, hazards,
       TypeOK
  <2>r. a = Roll => pc'[Consumer] = "idle" /\ pc[Consumer] = "idle"
    BY DEF Others
  <2>h. held[a] = mirrorRow /\ held[a] \in Id /\ ver[a] # 0 /\ mirrorRow # 0
    BY <2>1, <1>w, InHand DEF Way, HandsInv
  <2> SUFFICES ASSUME Repaired, faults < MaxAttempts PROVE Goal'
    BY <2>1 DEF AttemptsInv, Repaired
  <2>2. Goal
    BY DEF AttemptsInv
  <2>3. CASE tab' = [tab EXCEPT ![held[a]] = ver[a]] /\ permitted /\ tab[held[a]] # 0
    <3>1. tab'[mirrorRow'] # 0
      BY <2>1, <2>3, <2>h DEF TypeOK
    <3>2. Failing' = FALSE
      BY <2>1, <2>3, <2>e, <2>r DEF Failing
    <3> QED BY <3>1, <3>2, <2>1, <2>2, <1>n
  <2>4. CASE tab' = tab /\ (~permitted \/ tab[held[a]] = 0)
    <3>1. pc'[a] \in {"threw", "idle"}
      BY <2>4, <2>e
    <3>2. Again => Again'
      BY <2>1, <3>1, <2>r DEF Latest
    <3>3. Again => a = Roll
      BY <2>1, <1>w DEF Way, HandsInv, KindOf
    <3>4. Again => FALSE
      BY <3>3, <2>1 DEF HandsInv, HazardsInv
    <3>5. ~permitted
      BY <2>2, <3>4, <2>4, <2>1, <2>h, <1>d
    <3>6. Failing' => Failing
      BY <3>5, <2>1, <3>1, <2>r DEF Failing
    <3> QED BY <3>2, <3>6, <2>1, <2>2, <2>4, <1>d, <1>n
  <2> QED BY <2>1, <2>3, <2>4
<1>16. CASE CreateScheduledEvent(a)
  BY <1>16, <1>d, <1>n, <1>w DEF CreateScheduledEvent, NewScheduledEvent, platform, database,
     history, hazards, TypeOK, HandsInv, HazardsInv, AttemptsInv, Repaired, Failing, Latest, Way
<1>17. CASE CreateRefused(a)
  BY <1>17, <1>d, <1>n, <1>w DEF CreateRefused, Throws, Goes, platform, database, discord,
     history, hazards, TypeOK, HandsInv, HazardsInv, AttemptsInv, Repaired, Failing, Latest, Way
<1>18. CASE RecordMirror(a)
  BY <1>18, <1>d, <1>n, <1>w DEF RecordMirror, Done, Goes, platform, discord, history, hazards,
     TypeOK, HandsInv, HazardsInv, AttemptsInv, Repaired, Failing, Latest, Way
<1>19. CASE a = Consumer /\ Take
  BY <1>19, <1>d, <1>n, <1>w DEF Take, Begins, platform, database, discord, hazards, TypeOK,
     HandsInv, HazardsInv, AttemptsInv, Repaired, Failing, Latest, Way
<1>20. CASE a = Consumer /\ Intend
  BY <1>20, <1>d, <1>n, <1>w DEF Intend, IntendLeadsTo, Goes, platform, discord, history, hazards,
     TypeOK, HandsInv, HazardsInv, AttemptsInv, Repaired, Failing, Latest, Way
<1>21. CASE a = Consumer /\ RecordAgain
  <2>1. /\ UNCHANGED <<kinds, cursor, tab, attempts, givenUp, permitted, struck, faults, delivery>>
        /\ pc[Consumer] = "recordAgain" /\ pc'[Consumer] = "advance" /\ mirrorRow' = delivery[ver[Consumer]]
    BY <1>21 DEF RecordAgain, Done, Goes, platform, discord, history, hazards, TypeOK
  <2> SUFFICES ASSUME Repaired, faults < MaxAttempts PROVE Goal'
    BY <2>1 DEF AttemptsInv, Repaired
  <2>2. Goal
    BY DEF AttemptsInv
  <2>3. Failing' = FALSE /\ Failing = FALSE
    BY <2>1 DEF Failing
  <2>4. tab[delivery[ver[Consumer]]] # 0
    <3>1. /\ ver[Consumer] \in Version /\ ver[Consumer] = cursor + 1 /\ delivery[ver[Consumer]] \in Id
      BY <2>1, InHand DEF HandsInv
    <3>2. ver[Consumer] > cursor
      BY <3>1, <1>n
    <3> QED BY <3>1, <3>2 DEF PostedInv, Repaired
  <2> QED BY <2>1, <2>2, <2>3, <2>4, <1>n
<1>22. CASE a = Consumer /\ RecordPosted
  BY <1>22, <1>d, <1>n, <1>w DEF RecordPosted, Goes, platform, discord, history, hazards, TypeOK,
     HandsInv, HazardsInv, AttemptsInv, Repaired, Failing, Latest, Way
<1>23. CASE a = Consumer /\ Remove
  BY <1>23, <1>d, <1>n, <1>w DEF Remove, platform, database, discord, history, hazards, TypeOK,
     HandsInv, HazardsInv, AttemptsInv, Repaired, Failing, Latest, Way
<1>24. CASE a = Consumer /\ HandlerThrew
  <2>1. /\ UNCHANGED <<kinds, cursor, tab, mirrorRow, permitted, struck, faults>> /\ pc[Consumer] = "threw"
        /\ attempts + 1 < MaxAttempts =>
             attempts' = attempts + 1 /\ givenUp' = givenUp /\ pc'[Consumer] = "idle"
    BY <1>24, <1>n DEF HandlerThrew, GivesUp, Goes, platform, database, discord, hazards, TypeOK
  <2> SUFFICES ASSUME Repaired, faults < MaxAttempts PROVE Goal'
    BY <2>1 DEF AttemptsInv, Repaired
  <2>2. Goal
    BY DEF AttemptsInv
  <2>3. Failing
    BY <2>1 DEF Failing
  <2>4. attempts + 1 <= faults /\ attempts + 1 < MaxAttempts
    BY <2>2, <2>3, <1>n
  <2>5. Failing' = FALSE
    BY <2>1, <2>4 DEF Failing
  <2>6. Again => Again'
    BY <2>1, <2>4 DEF Latest
  <2> QED BY <1>24, <2>1, <2>2, <2>4, <2>5, <2>6, <1>d, <1>n
<1>25. CASE a = Consumer /\ Advance
  BY <1>25, <1>d, <1>n, <1>w DEF Advance, Goes, platform, discord, history, hazards, TypeOK,
     HandsInv, HazardsInv, AttemptsInv, Repaired, Failing, Latest, Way
<1>26. CASE a = Roll /\ RollRead
  BY <1>26, <1>d, <1>n, <1>w DEF RollRead, Begins, Latest, platform, database, discord, hazards,
     TypeOK, HandsInv, HazardsInv, AttemptsInv, Repaired, Failing, Way
<1>27. CASE Outside
  BY <1>27, <1>1, <1>2, <1>3, <1>4, <1>5, <1>6 DEF Outside
<1>28. CASE a = Consumer /\ OfConsumer
  BY <1>28, <1>19, <1>20, <1>21, <1>22, <1>23, <1>24, <1>25 DEF OfConsumer
<1> QED BY <1>7, <1>8, <1>9, <1>10, <1>11, <1>12, <1>13, <1>14, <1>15, <1>16, <1>17, <1>18, <1>26,
       <1>27, <1>28 DEF Step

LEMMA FirstKept ==
  ASSUME Typed, Typed', NEW a \in Actor, Others(a), Others(a)', WayInv, FirstInv, Step(a)
  PROVE FirstInv'
<1> USE DEF Consumer, Roll, Actor, Typed
<1>h. (pc[a] # "idle" => ver[a] \in 1..Latest /\ ver[a] # 0) /\ Way(a)
  BY InHand DEF WayInv
<1>n. lastId \in Nat /\ mirrorRow \in Nat /\ Latest \in Nat
  BY DEF TypeOK, Latest
<1>1. ASSUME NEW kind \in Kinds, Publish(kind) PROVE FirstInv'
  BY <1>1, <1>h, <1>n DEF Publish, Latest, database, discord, locals, history, hazards, TypeOK,
     HandsInv, FirstInv, Unhurt, NearOrFar, Way, KindOf, Leaves, LeavesTab, Id
<1>2. ASSUME NEW i \in Id, ManualDelete(i) PROVE FirstInv'
  BY <1>2, <1>h, <1>n DEF ManualDelete, Strikes, platform, database, locals, history, TypeOK,
     HandsInv, FirstInv, Unhurt, NearOrFar, Latest, Way, KindOf, Leaves, LeavesTab, Id
<1>3. CASE RevokePermission
  BY <1>3, <1>h, <1>n DEF RevokePermission, Strikes, platform, database, locals, history, TypeOK,
     HandsInv, FirstInv, Unhurt, NearOrFar, Latest, Way, KindOf, Leaves, LeavesTab, Id
<1>4. CASE GrantPermission
  BY <1>4, <1>h, <1>n DEF GrantPermission, platform, database, locals, history, hazards, TypeOK,
     HandsInv, FirstInv, Unhurt, NearOrFar, Latest, Way, KindOf, Leaves, LeavesTab, Id
<1>5. CASE SwitchOn
  BY <1>5, <1>h, <1>n DEF SwitchOn, platform, discord, locals, history, hazards, TypeOK, HandsInv,
     FirstInv, Unhurt, NearOrFar, Latest, Way, KindOf, Leaves, LeavesTab, Id
<1>6. CASE Crash
  BY <1>6, <1>h, <1>n DEF Crash, Strikes, platform, discord, history, TypeOK, HandsInv, FirstInv,
     Unhurt, NearOrFar, Latest, Way, KindOf, Leaves, LeavesTab, Id
<1>7. CASE DeleteFails(a)
  BY <1>7, <1>h, <1>n DEF DeleteFails, Strikes, Goes, platform, database, discord, history,
     TypeOK, HandsInv, FirstInv, Unhurt, NearOrFar, Latest, Way, KindOf, Leaves, LeavesTab, Id
<1>8. CASE CreateAnswerLost(a)
  BY <1>8, <1>h, <1>n DEF CreateAnswerLost, NewScheduledEvent, Strikes, Throws, Goes, platform,
     database, history, TypeOK, HandsInv, FirstInv, Unhurt, NearOrFar, Latest, Way, KindOf,
     Leaves, LeavesTab, Id
<1>9. CASE CallFails(a)
  BY <1>9, <1>h, <1>n DEF CallFails, Strikes, Throws, Goes, platform, database, discord, history,
     TypeOK, HandsInv, FirstInv, Unhurt, NearOrFar, Latest, Way, KindOf, Leaves, LeavesTab, Id
<1>10. CASE CheckFeature(a)
  BY <1>10, <1>h, <1>n DEF CheckFeature, Done, Goes, platform, database, discord, history,
     hazards, TypeOK, HandsInv, FirstInv, Unhurt, NearOrFar, Latest, Way, KindOf, Leaves,
     LeavesTab, Id
<1>11. CASE ReadMirror(a)
  BY <1>11, <1>h, <1>n DEF ReadMirror, platform, database, discord, history, hazards, TypeOK,
     HandsInv, FirstInv, Unhurt, NearOrFar, Latest, Way, KindOf, Leaves, LeavesTab, Id
<1>12. CASE MayMirror(a)
  BY <1>12, <1>h, <1>n DEF MayMirror, NextCall, Done, Goes, platform, discord, history, hazards,
     TypeOK, HandsInv, FirstInv, Unhurt, NearOrFar, Latest, Way, KindOf, Leaves, LeavesTab, Id
<1>13. CASE DeleteScheduledEvent(a)
  BY <1>13, <1>h, <1>n DEF DeleteScheduledEvent, Goes, platform, database, history, hazards,
     TypeOK, HandsInv, FirstInv, Unhurt, NearOrFar, Latest, Way, KindOf, Leaves, LeavesTab, Id
<1>14. CASE ClearMirror(a)
  BY <1>14, <1>h, <1>n DEF ClearMirror, Done, Throws, Goes, platform, discord, history, hazards,
     TypeOK, HandsInv, FirstInv, Unhurt, NearOrFar, Latest, Way, KindOf, Leaves, LeavesTab, Id
<1>15. CASE EditScheduledEvent(a)
  BY <1>15, <1>h, <1>n DEF EditScheduledEvent, Done, Throws, Goes, platform, database, history,
     hazards, TypeOK, HandsInv, FirstInv, Unhurt, NearOrFar, Latest, Way, KindOf, Leaves,
     LeavesTab, Id
<1>16. CASE CreateScheduledEvent(a)
  BY <1>16, <1>h, <1>n DEF CreateScheduledEvent, NewScheduledEvent, platform, database, history,
     hazards, TypeOK, HandsInv, FirstInv, Unhurt, NearOrFar, Latest, Way, KindOf, Leaves,
     LeavesTab, Id
<1>17. CASE CreateRefused(a)
  BY <1>17, <1>h, <1>n DEF CreateRefused, Throws, Goes, platform, database, discord, history,
     hazards, TypeOK, HandsInv, FirstInv, Unhurt, NearOrFar, Latest, Way, KindOf, Leaves,
     LeavesTab, Id
<1>18. CASE RecordMirror(a)
  BY <1>18, <1>h, <1>n DEF RecordMirror, Done, Goes, platform, discord, history, hazards, TypeOK,
     HandsInv, FirstInv, Unhurt, NearOrFar, Latest, Way, KindOf, Leaves, LeavesTab, Id
<1>19. CASE a = Consumer /\ Take
  BY <1>19, <1>h, <1>n DEF Take, Begins, platform, database, discord, hazards, TypeOK, HandsInv,
     FirstInv, Unhurt, NearOrFar, Latest, Way, KindOf, Leaves, LeavesTab, Id
<1>20. CASE a = Consumer /\ Intend
  <2>1. /\ UNCHANGED <<kinds, tab, lastId, mirrorRow, struck>>
        /\ delivery' = [delivery EXCEPT ![ver[Consumer]] = IF delivery[ver[Consumer]] = NoRow THEN Owed ELSE delivery[ver[Consumer]]]
    BY <1>20 DEF Intend, IntendLeadsTo, Goes, platform, discord, history, hazards
  <2>2. \A n \in Version : delivery'[n] \in Id => delivery'[n] = delivery[n]
    BY <2>1 DEF Id, Owed, TypeOK
  <2> QED BY <2>1, <2>2 DEF FirstInv, Unhurt, NearOrFar, Latest
<1>21. CASE a = Consumer /\ RecordAgain
  <2>1. /\ UNCHANGED <<kinds, tab, lastId, delivery, struck>> /\ pc[Consumer] = "recordAgain"
        /\ mirrorRow' = delivery[ver[Consumer]]
    BY <1>21 DEF RecordAgain, Done, Goes, platform, discord, history, hazards
  <2>2. ver[Consumer] \in Version /\ delivery[ver[Consumer]] \in Id
    BY <2>1, InHand DEF HandsInv
  <2>3. delivery[ver[Consumer]] # 0
    BY <2>2 DEF Id
  <2> QED BY <2>1, <2>2, <2>3 DEF FirstInv, Unhurt, NearOrFar, Latest
<1>22. CASE a = Consumer /\ RecordPosted
  BY <1>22, <1>h, <1>n DEF RecordPosted, Goes, platform, discord, history, hazards, TypeOK,
     HandsInv, FirstInv, Unhurt, NearOrFar, Latest, Way, KindOf, Leaves, LeavesTab, Id
<1>23. CASE a = Consumer /\ Remove
  BY <1>23, <1>h, <1>n DEF Remove, platform, database, discord, history, hazards, TypeOK,
     HandsInv, FirstInv, Unhurt, NearOrFar, Latest, Way, KindOf, Leaves, LeavesTab, Id
<1>24. CASE a = Consumer /\ HandlerThrew
  BY <1>24, <1>h, <1>n DEF HandlerThrew, GivesUp, Goes, platform, database, discord, hazards,
     TypeOK, HandsInv, FirstInv, Unhurt, NearOrFar, Latest, Way, KindOf, Leaves, LeavesTab, Id
<1>25. CASE a = Consumer /\ Advance
  BY <1>25, <1>h, <1>n DEF Advance, Goes, platform, discord, history, hazards, TypeOK, HandsInv,
     FirstInv, Unhurt, NearOrFar, Latest, Way, KindOf, Leaves, LeavesTab, Id
<1>26. CASE a = Roll /\ RollRead
  BY <1>26, <1>h, <1>n DEF RollRead, Begins, Latest, platform, database, discord, hazards, TypeOK,
     HandsInv, FirstInv, Unhurt, NearOrFar, Way, KindOf, Leaves, LeavesTab, Id
<1>27. CASE Outside
  BY <1>27, <1>1, <1>2, <1>3, <1>4, <1>5, <1>6 DEF Outside
<1>28. CASE a = Consumer /\ OfConsumer
  BY <1>28, <1>19, <1>20, <1>21, <1>22, <1>23, <1>24, <1>25 DEF OfConsumer
<1> QED BY <1>7, <1>8, <1>9, <1>10, <1>11, <1>12, <1>13, <1>14, <1>15, <1>16, <1>17, <1>18, <1>26,
       <1>27, <1>28 DEF Step

LEMMA TruthKept ==
  ASSUME Typed, Typed', NEW a \in Actor, Others(a), Others(a)', WayInv, PostedInv, FirstInv,
         TruthInv, Step(a)
  PROVE TruthInv'
<1> USE DEF Consumer, Roll, Actor, Typed
<1>h. (pc[a] # "idle" => ver[a] \in 1..Latest /\ ver[a] # 0) /\ Way(a)
  BY InHand DEF WayInv
<1>n. lastId \in Nat /\ mirrorRow \in Nat /\ Latest \in Nat
  BY DEF TypeOK, Latest
<1> DEFINE Scope == (struck = {} \/ Unhurt) /\ givenUp = {}
<1> DEFINE Goal == /\ pc[Consumer] = "advance" => InStep(ver[Consumer])
                   /\ pc[Consumer] = "idle" /\ cursor = Latest /\ Latest > 0 => InStep(Latest)
<1>i. UNCHANGED <<kinds, tab, mirrorRow>> => \A v : InStep(v)' <=> InStep(v)
  BY DEF InStep
<1>1. ASSUME NEW kind \in Kinds, Publish(kind) PROVE TruthInv'
  BY <1>1, <1>h, <1>n DEF Publish, Latest, database, discord, locals, history, hazards, TypeOK,
     HandsInv, HazardsInv, TruthInv, Unhurt, NearOrFar, InStep, Way, KindOf, Leaves, LeavesTab,
     Others
<1>2. ASSUME NEW i \in Id, ManualDelete(i) PROVE TruthInv'
  BY <1>2, <1>h, <1>n DEF ManualDelete, Strikes, platform, database, locals, history, TypeOK,
     HandsInv, HazardsInv, TruthInv, Unhurt, NearOrFar, InStep, Latest, Way, KindOf, Leaves,
     LeavesTab, Others
<1>3. CASE RevokePermission
  BY <1>3, <1>h, <1>n DEF RevokePermission, Strikes, platform, database, locals, history, TypeOK,
     HandsInv, HazardsInv, TruthInv, Unhurt, NearOrFar, InStep, Latest, Way, KindOf, Leaves,
     LeavesTab, Others
<1>4. CASE GrantPermission
  BY <1>4, <1>h, <1>n DEF GrantPermission, platform, database, locals, history, hazards, TypeOK,
     HandsInv, HazardsInv, TruthInv, Unhurt, NearOrFar, InStep, Latest, Way, KindOf, Leaves,
     LeavesTab, Others
<1>5. CASE SwitchOn
  BY <1>5, <1>h, <1>n DEF SwitchOn, platform, discord, locals, history, hazards, TypeOK, HandsInv,
     HazardsInv, TruthInv, Unhurt, NearOrFar, InStep, Latest, Way, KindOf, Leaves, LeavesTab, Others
<1>6. CASE Crash
  BY <1>6, <1>h, <1>n DEF Crash, Strikes, platform, discord, history, TypeOK, HandsInv,
     HazardsInv, TruthInv, Unhurt, NearOrFar, InStep, Latest, Way, KindOf, Leaves, LeavesTab, Others
<1>7. CASE DeleteFails(a)
  BY <1>7, <1>h, <1>n DEF DeleteFails, Strikes, Goes, platform, database, discord, history,
     TypeOK, HandsInv, HazardsInv, TruthInv, Unhurt, NearOrFar, InStep, Latest, Way, KindOf,
     Leaves, LeavesTab, Others
<1>8. CASE CreateAnswerLost(a)
  BY <1>8, <1>h, <1>n DEF CreateAnswerLost, NewScheduledEvent, Strikes, Throws, Goes, platform,
     database, history, TypeOK, HandsInv, HazardsInv, TruthInv, Unhurt, NearOrFar, InStep, Latest,
     Way, KindOf, Leaves, LeavesTab, Others
<1>9. CASE CallFails(a)
  BY <1>9, <1>h, <1>n DEF CallFails, Strikes, Throws, Goes, platform, database, discord, history,
     TypeOK, HandsInv, HazardsInv, TruthInv, Unhurt, NearOrFar, InStep, Latest, Way, KindOf,
     Leaves, LeavesTab, Others
<1>10. CASE CheckFeature(a)
  <2>1. /\ UNCHANGED <<kinds, cursor, tab, mirrorRow, ver, struck, givenUp>> /\ pc[a] = "apply"
        /\ \/ pc'[a] = "get"
           \/ pc'[a] \in {"advance", "idle"} /\ ~enabled
    BY <1>10 DEF CheckFeature, Done, Goes, platform, database, discord, history, hazards, TypeOK
  <2> SUFFICES ASSUME Scope PROVE Goal'
    BY <2>1 DEF TruthInv, Unhurt, NearOrFar, Latest
  <2>2. Goal /\ enabled
    BY DEF TruthInv, HazardsInv, Unhurt
  <2> QED BY <2>1, <2>2, <1>i DEF Others, Latest
<1>11. CASE ReadMirror(a)
  <2>1. /\ UNCHANGED <<kinds, cursor, tab, mirrorRow, ver, struck, givenUp>> /\ pc[a] = "get"
        /\ \/ pc'[a] = "permission"
           \/ pc'[a] \in {"advance", "idle"} /\ ~HasWork(KindOf(a), mirrorRow) /\ (a = Consumer => pc'[a] # "idle")
    BY <1>11 DEF ReadMirror, platform, database, discord, history, hazards, TypeOK
  <2> SUFFICES ASSUME Scope PROVE Goal'
    BY <2>1 DEF TruthInv, Unhurt, NearOrFar, Latest
  <2>2. Goal
    BY DEF TruthInv
  <2>3. ~HasWork(KindOf(a), mirrorRow) => InStep(ver[a])
    BY DEF HasWork, KindOf, LeavesTab, InStep
  <2> QED BY <2>1, <2>2, <2>3, <1>i DEF Others, Latest
<1>12. CASE MayMirror(a)
  <2>1. /\ UNCHANGED <<kinds, cursor, tab, mirrorRow, ver, struck, givenUp>> /\ pc[a] = "permission"
        /\ \/ pc'[a] = NextCall(a)
           \/ pc'[a] \in {"advance", "idle"} /\ ~permitted
    BY <1>12 DEF MayMirror, Done, Goes, platform, discord, history, hazards, TypeOK
  <2>n. NextCall(a) \notin {"idle", "advance"}
    BY DEF NextCall
  <2> SUFFICES ASSUME Scope PROVE Goal'
    BY <2>1 DEF TruthInv, Unhurt, NearOrFar, Latest
  <2>2. Goal /\ permitted
    BY DEF TruthInv, HazardsInv, Unhurt
  <2> QED BY <2>1, <2>2, <2>n, <1>i DEF Others, Latest
<1>13. CASE DeleteScheduledEvent(a)
  <2>1. /\ UNCHANGED <<kinds, cursor, mirrorRow, ver, struck, givenUp>> /\ pc[a] = "delete" /\ pc'[a] = "clear"
    BY <1>13 DEF DeleteScheduledEvent, Goes, platform, database, history, hazards, TypeOK
  <2>2. mirrorRow # 0 /\ Leaves(KindOf(a))
    BY <2>1, <1>h DEF Way, HandsInv
  <2>3. ~InStep(ver[a])
    BY <2>2 DEF Leaves, LeavesTab, KindOf, InStep
  <2> SUFFICES ASSUME Scope PROVE Goal'
    BY <2>1 DEF TruthInv, Unhurt, NearOrFar, Latest
  <2>4. Goal
    BY DEF TruthInv
  <2>5. a = Roll => cursor # Latest
    BY <2>1, <2>3, <2>4, <1>h, <1>n DEF WayInv, Others, Latest, HandsInv
  <2> QED BY <2>1, <2>5 DEF Others, Latest
<1>14. CASE ClearMirror(a)
  <2>1. /\ UNCHANGED <<kinds, cursor, ver, struck, givenUp>> /\ pc[a] \in {"clear", "clearAndThrow"} /\ mirrorRow' = 0
        /\ pc'[a] \in {"advance", "threw", "idle"} /\ (a = Consumer => pc'[a] # "idle")
    BY <1>14 DEF ClearMirror, Done, Throws, Goes, platform, discord, history, hazards, TypeOK
  <2>2. Leaves(KindOf(a)) /\ ver[a] \in 1..Latest
    BY <2>1, <1>h DEF Way
  <2>3. InStep(ver[a])'
    BY <2>1, <2>2 DEF Leaves, LeavesTab, KindOf, InStep
  <2> SUFFICES ASSUME Scope PROVE Goal'
    BY <2>1 DEF TruthInv, Unhurt, NearOrFar, Latest
  <2>5. a = Roll /\ cursor = Latest => ver[a] = Latest
    BY <2>1, <2>2, <1>n DEF WayInv, Latest
  <2> QED BY <2>1, <2>3, <2>5 DEF Others, Latest
<1>15. CASE EditScheduledEvent(a)
  <2>1. /\ UNCHANGED <<kinds, cursor, mirrorRow, ver, struck, givenUp>> /\ pc[a] = "edit"
        /\ \/ tab' = [tab EXCEPT ![held[a]] = ver[a]]
           \/ tab' = tab /\ (~permitted \/ tab[held[a]] = 0)
    BY <1>15 DEF EditScheduledEvent, Done, Throws, Goes, platform, database, history, hazards
  <2>e. /\ pc'[a] \in {"advance", "threw", "idle"} /\ (a = Consumer => pc'[a] # "idle")
        /\ (~permitted \/ tab[held[a]] = 0) /\ a = Consumer => pc'[a] = "threw"
    BY <1>15 DEF EditScheduledEvent, Done, Throws, Goes, platform, database, history, hazards,
       TypeOK
  <2>2. held[a] = mirrorRow /\ held[a] \in Id /\ ~Leaves(KindOf(a)) /\ ver[a] \in 1..Latest
    BY <2>1, <1>h, InHand DEF Way
  <2> SUFFICES ASSUME Scope PROVE Goal'
    BY <2>1 DEF TruthInv, Unhurt, NearOrFar, Latest
  <2>4. Goal
    BY DEF TruthInv
  <2>5. a = Roll /\ cursor = Latest => ver[a] = Latest
    BY <2>1, <2>2, <1>n DEF WayInv, Latest
  <2>6. CASE tab' = [tab EXCEPT ![held[a]] = ver[a]]
    <3>1. tab'[mirrorRow] = ver[a] /\ mirrorRow # 0
      BY <2>2, <2>6 DEF TypeOK, Id
    <3>2. kinds[ver[a]] \in {"near", "far"}
      BY <2>2, KindIs, MirrorAssumption DEF KindOf, Leaves, LeavesTab, AllKinds
    <3>3. InStep(ver[a])'
      BY <3>1, <3>2, <2>1 DEF InStep
    <3> QED BY <3>3, <2>1, <2>e, <2>5 DEF Others, Latest
  <2>7. CASE tab' = tab /\ (~permitted \/ tab[held[a]] = 0)
    BY <2>1, <2>e, <2>4, <2>7, <1>i DEF Others, Latest
  <2> QED BY <2>1, <2>6, <2>7
<1>16. CASE CreateScheduledEvent(a)
  BY <1>16, <1>h, <1>n DEF CreateScheduledEvent, NewScheduledEvent, platform, database, history,
     hazards, TypeOK, HandsInv, HazardsInv, TruthInv, Unhurt, NearOrFar, InStep, Latest, Way,
     KindOf, Leaves, LeavesTab, Others
<1>17. CASE CreateRefused(a)
  BY <1>17, <1>h, <1>n DEF CreateRefused, Throws, Goes, platform, database, discord, history,
     hazards, TypeOK, HandsInv, HazardsInv, TruthInv, Unhurt, NearOrFar, InStep, Latest, Way,
     KindOf, Leaves, LeavesTab, Others
<1>18. CASE RecordMirror(a)
  <2>1. /\ UNCHANGED <<kinds, cursor, tab, ver, struck, givenUp>> /\ pc[a] = "recordMirror" /\ mirrorRow' = made[a]
        /\ pc'[a] \in {"advance", "idle"} /\ (a = Consumer => pc'[a] # "idle")
    BY <1>18 DEF RecordMirror, Done, Goes, platform, discord, history, hazards, TypeOK
  <2>2. /\ KindOf(a) = "near" /\ ver[a] \in 1..Latest /\ made[a] \in Id
        /\ tab[made[a]] = ver[a] \/ "manual" \in struck
    BY <2>1, <1>h, InHand DEF Way
  <2> SUFFICES ASSUME Scope PROVE Goal'
    BY <2>1 DEF TruthInv, Unhurt, NearOrFar, Latest
  <2>5. a = Roll /\ cursor = Latest => ver[a] = Latest
    BY <2>1, <2>2, <1>n DEF WayInv, Latest
  <2>6. InStep(ver[a])'
    BY <2>1, <2>2 DEF InStep, KindOf, Unhurt, Id
  <2> QED BY <2>1, <2>5, <2>6 DEF Others, Latest
<1>19. CASE a = Consumer /\ Take
  BY <1>19, <1>h, <1>n DEF Take, Begins, platform, database, discord, hazards, TypeOK, HandsInv,
     HazardsInv, TruthInv, Unhurt, NearOrFar, InStep, Latest, Way, KindOf, Leaves, LeavesTab, Others
<1>20. CASE a = Consumer /\ Intend
  BY <1>20, <1>h, <1>n DEF Intend, IntendLeadsTo, Goes, platform, discord, history, hazards,
     TypeOK, HandsInv, HazardsInv, TruthInv, Unhurt, NearOrFar, InStep, Latest, Way, KindOf,
     Leaves, LeavesTab, Others
<1>21. CASE a = Consumer /\ RecordAgain
  <2>1. /\ UNCHANGED <<kinds, cursor, tab, ver, delivery, struck, givenUp>> /\ pc[Consumer] = "recordAgain"
        /\ mirrorRow' = delivery[ver[Consumer]] /\ pc'[Consumer] = "advance" /\ a = Consumer
    BY <1>21 DEF RecordAgain, Done, Goes, platform, discord, history, hazards, TypeOK
  <2>2. /\ KindOf(a) = "near" /\ mirrorRow = 0 /\ ver[Consumer] \in Version /\ delivery[ver[Consumer]] \in Id
        /\ ver[Consumer] = cursor + 1
    BY <2>1, <1>h, InHand DEF Way, HandsInv
  <2> SUFFICES ASSUME Scope PROVE Goal'
    BY <2>1 DEF TruthInv, Unhurt, NearOrFar, Latest
  <2>3. struck # {}
    <3>1. ver[Consumer] > cursor
      BY <2>2 DEF TypeOK
    <3>2. struck = {} => faults = 0
      BY DEF HazardsInv
    <3> QED BY <2>1, <2>2, <3>1, <3>2 DEF PostedInv
  <2>4. tab[delivery[ver[Consumer]]] = ver[Consumer]
    BY <2>2, <2>3 DEF FirstInv
  <2>5. InStep(ver[Consumer])'
    BY <2>1, <2>2, <2>4 DEF InStep, KindOf, Id
  <2> QED BY <2>1, <2>5
<1>22. CASE a = Consumer /\ RecordPosted
  BY <1>22, <1>h, <1>n DEF RecordPosted, Goes, platform, discord, history, hazards, TypeOK,
     HandsInv, HazardsInv, TruthInv, Unhurt, NearOrFar, InStep, Latest, Way, KindOf, Leaves,
     LeavesTab, Others
<1>23. CASE a = Consumer /\ Remove
  BY <1>23, <1>h, <1>n DEF Remove, platform, database, discord, history, hazards, TypeOK,
     HandsInv, HazardsInv, TruthInv, Unhurt, NearOrFar, InStep, Latest, Way, KindOf, Leaves,
     LeavesTab, Others
<1>24. CASE a = Consumer /\ HandlerThrew
  BY <1>24, <1>h, <1>n DEF HandlerThrew, GivesUp, Goes, platform, database, discord, hazards,
     TypeOK, HandsInv, HazardsInv, TruthInv, Unhurt, NearOrFar, InStep, Latest, Way, KindOf,
     Leaves, LeavesTab, Others
<1>25. CASE a = Consumer /\ Advance
  BY <1>25, <1>h, <1>n DEF Advance, Goes, platform, discord, history, hazards, TypeOK, HandsInv,
     HazardsInv, TruthInv, Unhurt, NearOrFar, InStep, Latest, Way, KindOf, Leaves, LeavesTab, Others
<1>26. CASE a = Roll /\ RollRead
  BY <1>26, <1>h, <1>n DEF RollRead, Begins, Latest, platform, database, discord, hazards, TypeOK,
     HandsInv, HazardsInv, TruthInv, Unhurt, NearOrFar, InStep, Way, KindOf, Leaves, LeavesTab,
     Others
<1>27. CASE Outside
  BY <1>27, <1>1, <1>2, <1>3, <1>4, <1>5, <1>6 DEF Outside
<1>28. CASE a = Consumer /\ OfConsumer
  BY <1>28, <1>19, <1>20, <1>21, <1>22, <1>23, <1>24, <1>25 DEF OfConsumer
<1> QED BY <1>7, <1>8, <1>9, <1>10, <1>11, <1>12, <1>13, <1>14, <1>15, <1>16, <1>17, <1>18, <1>26,
       <1>27, <1>28 DEF Step

-----------------------------------------------------------------------------
\* The whole of it.

LEMMA MirrorInit == Init => MirrorInv
<1> SUFFICES ASSUME Init PROVE MirrorInv
  OBVIOUS
<1>t. Typed
  BY TypeInit
<1> USE DEF Init, Consumer, Roll, Actor
<1>1. AloneInv /\ WayInv
  BY DEF AloneInv, WayInv, Way
<1>2. OrphanInv
  <2>1. OutOfSight = {}
    BY DEF OutOfSight, Orphans, Shown
  <2> QED BY <2>1, FS_EmptySet DEF OrphanInv
<1>3. PostedInv
  BY DEF PostedInv, Id, NoRow, Version
<1>4. AttemptsInv
  BY MirrorAssumption DEF AttemptsInv, Failing
<1>5. FirstInv
  BY DEF FirstInv, Id, NoRow
<1>6. TruthInv
  BY DEF TruthInv, Latest
<1> QED BY <1>1, <1>2, <1>3, <1>4, <1>5, <1>6 DEF MirrorInv

LEMMA MirrorStep == Typed /\ Typed' /\ MirrorInv /\ [Next]_vars => MirrorInv'
<1> SUFFICES ASSUME Typed, Typed', MirrorInv, [Next]_vars, ~overlapped' PROVE MirrorInv'
  BY DEF MirrorInv
<1>1. CASE UNCHANGED vars
  <2>1. /\ AloneInv' <=> AloneInv
        /\ WayInv' <=> WayInv
        /\ PostedInv' <=> PostedInv
    BY <1>1 DEF vars, platform, database, discord, locals, history, hazards, AloneInv, WayInv,
       Way, KindOf, PostedInv, Latest
  <2>2. OrphanInv' <=> OrphanInv
    BY <1>1 DEF vars, platform, database, discord, locals, history, hazards, OrphanInv,
       OutOfSight, Forgetting, Shown, Orphans, InFlight
  <2>3. AttemptsInv' <=> AttemptsInv
    BY <1>1 DEF vars, platform, database, discord, locals, history, hazards, AttemptsInv,
       Repaired, Failing, Deleting, Latest
  <2>4. (FirstInv' <=> FirstInv) /\ (TruthInv' <=> TruthInv)
    BY <1>1 DEF vars, platform, database, discord, locals, history, hazards, FirstInv, TruthInv,
       Unhurt, NearOrFar, InStep, Latest
  <2>5. overlapped' = overlapped
    BY <1>1 DEF vars, history
  <2> QED BY <2>1, <2>2, <2>3, <2>4, <2>5 DEF MirrorInv
<1>2. CASE Next
  <2>1. AloneInv
    <3>1. ~overlapped
      BY <1>2, Unmet
    <3> QED BY <3>1 DEF MirrorInv
  <2>2. ~overlapped /\ \E a \in Actor : Others(a) /\ Others(a)' /\ Step(a)
    BY <1>2, <2>1, OneSteps
  <2>3. PICK a \in Actor : Others(a) /\ Others(a)' /\ Step(a)
    BY <2>2
  <2>4. WayInv /\ OrphanInv /\ PostedInv /\ AttemptsInv /\ FirstInv /\ TruthInv
    BY <2>2 DEF MirrorInv
  <2>5. AloneInv'
    BY <2>3 DEF AloneInv, Others
  <2>6. WayInv'
    BY <2>3, <2>4, WayKept
  <2>7. OrphanInv'
    BY <2>3, <2>4, OrphanKept
  <2>8. PostedInv'
    BY <2>3, <2>4, PostedKept
  <2>9. AttemptsInv'
    BY <2>3, <2>4, AttemptsKept
  <2>10. FirstInv'
    BY <2>3, <2>4, FirstKept
  <2>11. TruthInv'
    BY <2>3, <2>4, TruthKept
  <2> QED BY <2>5, <2>6, <2>7, <2>8, <2>9, <2>10, <2>11 DEF MirrorInv
<1> QED BY <1>1, <1>2

LEMMA MirrorHolds == Spec => [](Typed /\ MirrorInv)
<1>1. Init => Typed /\ MirrorInv
  BY TypeInit, MirrorInit
<1>2. Typed /\ MirrorInv /\ [Next]_vars => (Typed /\ MirrorInv)'
  BY TypeStep, MirrorStep
<1> QED BY <1>1, <1>2, PTL DEF Spec

\* Without the roll's meeting the consumer, the event is in the tab at most once
\* while nothing has struck, and what the consumer has caught up with is what
\* the tab shows and the mirror row leads to, each under the hazards it allows;
\* whatever the entries, the attempts and the bounds (apply, remove).
THEOREM MirrorStaysInStep == Spec => []MirrorInStep
<1>1. ASSUME Typed, MirrorInv PROVE MirrorInStep
  <2> USE <1>1 DEF Consumer, Roll, Actor
  <2>t. /\ mirrorRow \in 0..MaxIds /\ MaxIds \in Nat /\ Latest \in Nat /\ faults \in Nat
        /\ struck = {} => faults = 0 /\ permitted
        /\ tab \in [Id -> 0..MaxEntries]
    BY MirrorAssumption DEF Typed, TypeOK, HazardsInv, Latest
  <2>1. ASSUME struck = {}, ~overlapped PROVE OutOfSight = {}
    <3>1. Cardinality(OutOfSight) <= 0 /\ Cardinality(OutOfSight) \in Nat
      BY <2>1, <2>t, SightIsFinite, FS_CardinalityType DEF MirrorInv, OrphanInv
    <3>2. Cardinality(OutOfSight) = 0
      BY <3>1
    <3> QED BY <3>2, SightIsFinite, FS_EmptySet
  <2>2. OneInTab
    <3> SUFFICES ASSUME struck = {}, ~overlapped PROVE Cardinality(Shown) <= 1
      BY DEF OneInTab
    <3>1. PICK a \in Actor : Others(a)
      BY DEF MirrorInv, AloneInv, Others
    <3>2. Sight(a) = {}
      BY <2>1, <3>1, SightNow
    <3>3. PICK x : Shown \subseteq {x}
      <4>1. CASE pc[a] \in {"recordPosted", "recordMirror"}
        <5>1. mirrorRow = 0 /\ 0 \notin Shown
          BY <4>1 DEF MirrorInv, WayInv, Way, Shown, Id
        <5>2. Shown \subseteq {made[a]}
          BY <3>2, <4>1, <5>1, <2>t DEF Sight
        <5> QED BY <5>2
      <4>2. CASE pc[a] \notin {"recordPosted", "recordMirror"}
        <5>1. Shown \subseteq {mirrorRow}
          BY <3>2, <4>2, <2>t DEF Sight
        <5> QED BY <5>1
      <4> QED BY <4>1, <4>2
    <3>4. IsFiniteSet({x}) /\ Cardinality({x}) = 1
      BY FS_Singleton
    <3>5. Cardinality(Shown) <= Cardinality({x})
      BY <3>3, <3>4, FS_Subset
    <3> QED BY <3>4, <3>5
  <2>3. ASSUME CaughtUp, ~overlapped, Latest > 0, struck = {} \/ Unhurt PROVE InStep(Latest)
    BY <2>3 DEF CaughtUp, MirrorInv, TruthInv
  <2>4. TabTellsTheTruth
    <3> SUFFICES ASSUME CaughtUp, pc[Roll] = "idle", struck = {}, ~overlapped, Latest > 0
        PROVE CASE kinds[Latest] = "near" -> \E i \in Shown : i = mirrorRow /\ tab[i] = Latest
                [] kinds[Latest] = "far"  -> \A i \in Shown : tab[i] = Latest
                [] OTHER                  -> Shown = {}
      BY DEF TabTellsTheTruth
    <3>1. Others(Consumer) /\ pc[Consumer] = "idle"
      BY DEF Others, CaughtUp
    <3>2. Shown \subseteq {mirrorRow} /\ 0 \notin Shown
      BY <2>1, <3>1, <2>t, SightNow DEF Sight, Shown, Id
    <3>3. InStep(Latest)
      BY <2>3
    <3>4. mirrorRow # 0 => mirrorRow \in Id
      BY <2>t DEF Id
    <3>5. CASE kinds[Latest] = "near"
      <4>1. mirrorRow \in Shown /\ tab[mirrorRow] = Latest
        BY <3>3, <3>4, <3>5 DEF InStep, Shown
      <4> QED BY <4>1, <3>5
    <3>6. CASE kinds[Latest] = "far"
      <4>1. \A i \in Shown : tab[i] = Latest
        BY <3>2, <3>3, <3>6 DEF InStep
      <4> QED BY <4>1, <3>6
    <3>7. CASE kinds[Latest] \notin {"near", "far"}
      <4>1. Shown = {}
        BY <3>2, <3>3, <3>7 DEF InStep
      <4> QED BY <4>1, <3>7
    <3> QED BY <3>5, <3>6, <3>7
  <2>5. RecordTellsTheTruth
    <3> SUFFICES ASSUME CaughtUp, ~overlapped, Latest > 0, struck \subseteq {"crash", "lost"},
                        \A n \in 1..Latest : kinds[n] \in {"near", "far"}
        PROVE /\ kinds[Latest] = "near" => mirrorRow # 0
              /\ mirrorRow # 0 => tab[mirrorRow] = Latest
      BY DEF RecordTellsTheTruth
    <3>1. InStep(Latest)
      BY <2>3 DEF Unhurt, NearOrFar
    <3>2. kinds[Latest] \in {"near", "far"}
      BY <2>t
    <3> QED BY <3>1, <3>2 DEF InStep
  <2> QED BY <2>2, <2>4, <2>5 DEF MirrorInStep
<1> QED BY <1>1, MirrorHolds, PTL

\* Every scheduled event out of sight of the bot was paid for by a fault of its
\* own, and an entry given up on by as many as the attempts, where what a fault
\* leaves behind is repaired by the next attempt (apply and the consumer).
THEOREM LossesArePaidFor == Spec => []LossesCostFaults
<1>1. ASSUME Typed, MirrorInv PROVE LossesCostFaults
  <2> USE <1>1
  <2>t. faults \in Nat /\ MaxAttempts \in Nat
    BY MirrorAssumption DEF Typed, TypeOK
  <2>1. OrphansCostFaults
    <3>1. Orphans \subseteq OutOfSight
      BY DEF OutOfSight, Orphans
    <3>2. /\ Cardinality(Orphans) <= Cardinality(OutOfSight)
          /\ Cardinality(Orphans) \in Nat /\ Cardinality(OutOfSight) \in Nat
      BY <3>1, SightIsFinite, FS_Subset, FS_CardinalityType
    <3> QED BY <3>2, <2>t DEF OrphansCostFaults, MirrorInv, OrphanInv
  <2>2. GivenUpCostsAttempts
    BY <2>t DEF GivenUpCostsAttempts, MirrorInv, AttemptsInv
  <2> QED BY <2>1, <2>2 DEF LossesCostFaults
<1> QED BY <1>1, MirrorHolds, PTL

=============================================================================
