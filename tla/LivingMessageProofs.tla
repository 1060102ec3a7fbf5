------------------------- MODULE LivingMessageProofs -------------------------
(***************************************************************************)
(* Proofs about LivingMessage: the type invariant under any number of      *)
(* loops, and what one loop alone keeps.                                   *)
(***************************************************************************)
EXTENDS LivingMessage, FiniteSetTheorems, TLAPS

\* The channel and the message in hand are of the right kind, and the entries
\* are at most one for each change of the week and each fault.
LEMMA TypeStep == TypeOK /\ HandsInv /\ [Next]_vars => TypeOK' /\ HandsInv'
<1> SUFFICES ASSUME TypeOK, HandsInv, [Next]_vars PROVE TypeOK' /\ HandsInv'
  OBVIOUS
<1> USE LivingAssumption
<1>s. scene.rebinds \in Nat
  BY DEF TypeOK
<1>1. ASSUME WeekChanges PROVE TypeOK' /\ HandsInv'
  BY <1>1 DEF WeekChanges, TypeOK, HandsInv, settings, records, discord, locals, budget
<1>2. ASSUME SwitchOn PROVE TypeOK' /\ HandsInv'
  BY <1>2 DEF SwitchOn, TypeOK, HandsInv, calendar, records, discord, locals, budget
<1>3. ASSUME Crash PROVE TypeOK' /\ HandsInv'
  BY <1>3 DEF Crash, Fault, TypeOK, HandsInv, settings, records, discord
<1>4. ASSUME NEW c \in Channels \cup {NoChannel}, Rebind(c) PROVE TypeOK' /\ HandsInv'
  BY <1>4, <1>s DEF Rebind, TypeOK, HandsInv, calendar, records, discord, locals
<1>5. ASSUME NEW c \in Channels, CloseChannel(c) PROVE TypeOK' /\ HandsInv'
  BY <1>5 DEF CloseChannel, Fault, TypeOK, HandsInv, calendar, records, discord, locals
<1>6. ASSUME NEW m \in Message, DeleteByHand(m) PROVE TypeOK' /\ HandsInv'
  BY <1>6 DEF DeleteByHand, Fault, TypeOK, HandsInv, calendar, settings, records, locals, Gone
<1>7. ASSUME NEW a \in Actors, CallFails(a) PROVE TypeOK' /\ HandsInv'
  BY <1>7 DEF CallFails, Goes, Fault, TypeOK, HandsInv, calendar, settings, records, discord
<1>8. ASSUME NEW a \in Actors, AnswerLost(a) PROVE TypeOK' /\ HandsInv'
  <2>1. lastId + 1 \in Message /\ chan[a] \in Channels /\ lastId' \in 0..MaxMessages
    BY <1>8 DEF AnswerLost, NewMessage, TypeOK, HandsInv, Message
  <2> QED BY <1>8, <2>1 DEF AnswerLost, NewMessage, Goes, Fault, TypeOK, HandsInv, calendar, settings, records
<1>9. ASSUME NEW a \in Actors, Refresh(a) PROVE TypeOK' /\ HandsInv'
  <2>1. CASE ChannelFor(a)
    <3>1. /\ entries' \in 0..(MaxWeeks + MaxFaults) /\ entries' <= week' + faults'
          /\ UNCHANGED <<week, bound, closed, stored, row, place, shows, pinned, lastId, held, drawn,
                         scene, rebinds, faults>>
      BY <2>1 DEF ChannelFor, EntriesLeft, TypeOK, HandsInv, records, discord, budget
    <3>2. CASE ~feature \/ bound = NoChannel
      BY <2>1, <3>1, <3>2 DEF ChannelFor, TypeOK, HandsInv
    <3>3. CASE ~(~feature \/ bound = NoChannel)
      <4>1. bound \in Channels /\ feature' = feature /\ overlapped' \in BOOLEAN
            /\ chan' = [chan EXCEPT ![a] = bound] /\ pc' = [pc EXCEPT ![a] = "get"]
        BY <2>1, <3>3 DEF ChannelFor, TypeOK
      <4> QED BY <3>1, <4>1 DEF TypeOK, HandsInv
    <3> QED BY <3>2, <3>3
  <2>2. CASE GetGuildMessage(a)
    <3>1. stored # 0 => stored \in Message
      BY DEF TypeOK, Message
    <3> QED BY <2>2, <3>1 DEF GetGuildMessage, IsCurrent, TypeOK, HandsInv, calendar, settings, records, discord, budget
  <2>3. CASE Draw(a)
    BY <2>3 DEF Draw, WeekOf, TypeOK, HandsInv, calendar, settings, records, discord, budget
  <2>4. CASE Edit(a)
    BY <2>4 DEF Edit, Goes, MissingLeadsTo, TypeOK, HandsInv, calendar, settings, records, budget
  <2>5. CASE RemoveGuildMessage(a)
    BY <2>5 DEF RemoveGuildMessage, Goes, TypeOK, HandsInv, calendar, settings, discord, budget
  <2>6. CASE Intend(a)
    <3>1. Message \subseteq 0..MaxMessages /\ chan[a] \in Channels
      BY <2>6 DEF Intend, TypeOK, HandsInv, Message
    <3> QED BY <2>6, <3>1 DEF Intend, IntendLeadsTo, TypeOK, HandsInv, calendar, settings, discord, budget
  <2>7. CASE Restore(a)
    BY <2>7 DEF Restore, Goes, TypeOK, HandsInv, calendar, settings, discord, budget
  <2>8. CASE Post(a)
    <3>1. lastId + 1 \in Message /\ chan[a] \in Channels /\ lastId' \in 0..MaxMessages
          /\ lastId + 1 \in 0..MaxMessages
      BY <2>8 DEF Post, NewMessage, TypeOK, HandsInv, Message
    <3> QED BY <2>8, <3>1 DEF Post, NewMessage, TypeOK, HandsInv, calendar, settings, records, budget
  <2>9. CASE MissingAccess(a)
    BY <2>9 DEF MissingAccess, Goes, TypeOK, HandsInv, calendar, discord, budget
  <2>10. CASE RecordPosted(a)
    BY <2>10 DEF RecordPosted, Goes, TypeOK, HandsInv, calendar, settings, discord, budget
  <2>11. CASE SetGuildMessage(a)
    BY <2>11 DEF SetGuildMessage, AfterSet, Goes, TypeOK, HandsInv, calendar, settings, discord, budget
  <2>12. CASE PinMessage(a)
    BY <2>12 DEF PinMessage, Goes, TypeOK, HandsInv, calendar, settings, records, budget
  <2> QED BY <1>9, <2>1, <2>2, <2>3, <2>4, <2>5, <2>6, <2>7, <2>8, <2>9, <2>10, <2>11, <2>12 DEF Refresh
<1>10. ASSUME UNCHANGED vars PROVE TypeOK' /\ HandsInv'
  BY <1>10 DEF vars, calendar, settings, records, discord, locals, budget, TypeOK, HandsInv
<1> QED BY <1>1, <1>2, <1>3, <1>4, <1>5, <1>6, <1>7, <1>8, <1>9, <1>10 DEF Next, Environment

LEMMA TypeInit == Init => TypeOK /\ HandsInv
<1> SUFFICES ASSUME Init PROVE TypeOK /\ HandsInv
  OBVIOUS
<1>1. scene \in Scenes /\ rebinds \in 0..scene.rebinds /\ 0 \in 0..MaxMessages /\ 0 \in 0..MaxWeeks
      /\ 0 \in 0..MaxFaults /\ 0 \in 0..(MaxWeeks + MaxFaults)
  BY LivingAssumption DEF Init
<1>2. /\ row \in [Channels -> {NoRow, Owed} \cup Message] /\ place \in [Message -> Channels \cup {NoChannel}]
      /\ shows \in [Message -> {Gone} \cup 0..MaxWeeks] /\ chan \in [Actors -> Channels \cup {NoChannel}]
      /\ held \in [Actors -> 0..MaxMessages] /\ drawn \in [Actors -> 0..MaxWeeks]
      /\ pc \in [Actors -> {"idle"}]
  BY <1>1 DEF Init
<1>3. pc \in [Actors -> {"idle", "get", "drawEdit", "edit", "forget", "drawAgain", "postAgain",
                         "intend", "restore", "drawPost", "post", "record", "set", "pin"}]
  BY <1>2
<1>4. week \in 0..MaxWeeks /\ entries \in 0..(MaxWeeks + MaxFaults) /\ feature \in BOOLEAN
      /\ bound \in Channels \cup {NoChannel} /\ closed \in SUBSET Channels /\ stored \in 0..MaxMessages
      /\ pinned \in SUBSET Message /\ lastId \in 0..MaxMessages /\ faults \in 0..MaxFaults
      /\ overlapped \in BOOLEAN
  BY <1>1 DEF Init
<1>5. TypeOK
  BY <1>1, <1>2, <1>3, <1>4 DEF TypeOK
<1>6. HandsInv
  BY <1>2, <1>4 DEF Init, HandsInv
<1> QED BY <1>5, <1>6

\* The type invariant of the living message, for any number of loops, channels,
\* weeks, messages and faults (announce/thisWeek.ts, refresh).
THEOREM TypeCorrect == Spec => []TypeOK
<1>1. Init => TypeOK /\ HandsInv
  BY TypeInit
<1>2. TypeOK /\ HandsInv /\ [Next]_vars => (TypeOK /\ HandsInv)'
  BY TypeStep
<1> QED BY <1>1, <1>2, PTL DEF Spec

-----------------------------------------------------------------------------
\* One loop alone: where it is, and what its place comes to for the channels.

Others(a) == \A b \in Actors : b # a => pc[b] = "idle"

Wants(a, c) ==
  \/ pc[a] \in {"forget", "drawAgain", "postAgain", "drawPost", "post"} /\ chan[a] = c
  \/ pc[a] \in {"record", "set"} /\ chan[a] = c /\ Lost(held[a])
  \/ /\ ~(pc[a] \in {"record", "set"} /\ chan[a] = c)
     /\ Lost(IF (pc[a] = "idle" \/ chan[a] = c) /\ IsCurrent(stored, c) THEN stored ELSE row[c])

Owes(a, c) == /\ c \notin closed
              /\ bound = c \/ (pc[a] # "idle" /\ chan[a] = c)
              /\ Wants(a, c)

Clean(a) ==
  /\ closed = {}
  /\ \A m \in Message : place[m] # NoChannel => shows[m] # Gone
  /\ \A c \in Channels :
       /\ Cardinality(Posted(c))
            <= IF row[c] \in Message \/ (pc[a] = "record" /\ chan[a] = c) THEN 1 ELSE 0
       /\ row[c] \in Message =>
            row[c] \in pinned \/ (pc[a] \in {"set", "pin"} /\ held[a] = row[c])
  /\ stored # 0 => stored \in pinned \/ (pc[a] = "pin" /\ held[a] = stored)

LEMMA AloneNow == ASSUME NEW a \in Actors, AloneInv, pc[a] # "idle" PROVE Others(a)
  BY DEF AloneInv, Others

LEMMA AloneNext == ASSUME NEW a \in Actors, Others(a)' PROVE AloneInv'
  BY DEF AloneInv, Others

LEMMA WayNext == ASSUME NEW a \in Actors, Others(a)', Way(a)' PROVE WayInv'
  BY DEF Others, Way, WayInv

LEMMA DueNow == ASSUME NEW a \in Actors, NEW c \in Channels, Others(a) PROVE Due(c) <=> Owes(a, c)
<1>1. Missing(c) <=> Wants(a, c)
  <2>1. \A places : "idle" \notin places => (IsAt(c, places) <=> pc[a] \in places /\ chan[a] = c)
    BY DEF Others, IsAt
  <2>2. (\A b \in Actors : pc[b] # "idle" => chan[b] = c) <=> (pc[a] = "idle" \/ chan[a] = c)
    BY DEF Others
  <2>3. (\E b \in Actors : pc[b] \in {"record", "set"} /\ chan[b] = c /\ Lost(held[b]))
          <=> pc[a] \in {"record", "set"} /\ chan[a] = c /\ Lost(held[a])
    BY DEF Others
  <2>4. /\ IsAt(c, {"forget", "drawAgain", "postAgain", "drawPost", "post"})
             <=> pc[a] \in {"forget", "drawAgain", "postAgain", "drawPost", "post"} /\ chan[a] = c
        /\ IsAt(c, {"record", "set"}) <=> pc[a] \in {"record", "set"} /\ chan[a] = c
    BY <2>1
  <2> QED BY <2>2, <2>3, <2>4 DEF Missing, Wants
<1>2. (\E b \in Actors : pc[b] # "idle" /\ chan[b] = c) <=> pc[a] # "idle" /\ chan[a] = c
  BY DEF Others
<1> QED BY <1>1, <1>2 DEF Due, Owes

LEMMA DueNext == ASSUME NEW a \in Actors, NEW c \in Channels, Others(a)' PROVE Due(c)' <=> Owes(a, c)'
<1>1. Missing(c)' <=> Wants(a, c)'
  <2>1. \A places : "idle" \notin places => (IsAt(c, places)' <=> pc'[a] \in places /\ chan'[a] = c)
    BY DEF Others, IsAt
  <2>2. (\A b \in Actors : pc'[b] # "idle" => chan'[b] = c) <=> (pc'[a] = "idle" \/ chan'[a] = c)
    BY DEF Others
  <2>3. (\E b \in Actors : pc'[b] \in {"record", "set"} /\ chan'[b] = c /\ Lost(held[b])')
          <=> pc'[a] \in {"record", "set"} /\ chan'[a] = c /\ Lost(held[a])'
    BY DEF Others
  <2>4. /\ IsAt(c, {"forget", "drawAgain", "postAgain", "drawPost", "post"})'
             <=> pc'[a] \in {"forget", "drawAgain", "postAgain", "drawPost", "post"} /\ chan'[a] = c
        /\ IsAt(c, {"record", "set"})' <=> pc'[a] \in {"record", "set"} /\ chan'[a] = c
    BY <2>1 DEF IsAt
  <2> QED BY <2>2, <2>3, <2>4 DEF Missing, Wants
<1>2. (\E b \in Actors : pc'[b] # "idle" /\ chan'[b] = c) <=> pc'[a] # "idle" /\ chan'[a] = c
  BY DEF Others
<1> QED BY <1>1, <1>2 DEF Due, Owes

LEMMA CleanNow ==
  ASSUME NEW a \in Actors, Others(a), CleanInv, faults = 0, ~overlapped PROVE Clean(a)
<1>1. \A c : IsAt(c, {"record"}) <=> pc[a] = "record" /\ chan[a] = c
  BY DEF Others, IsAt
<1>2. \A m : PinnedSoon(m) <=> m \in pinned \/ (pc[a] \in {"set", "pin"} /\ held[a] = m)
  BY DEF Others, PinnedSoon
<1>3. (\E b \in Actors : pc[b] = "pin" /\ held[b] = stored) <=> pc[a] = "pin" /\ held[a] = stored
  BY DEF Others
<1> QED BY <1>1, <1>2, <1>3 DEF CleanInv, Clean, KnownIsPinned

LEMMA CleanNext == ASSUME NEW a \in Actors, Others(a)', Clean(a)' PROVE CleanInv'
<1>1. \A c : IsAt(c, {"record"})' <=> pc'[a] = "record" /\ chan'[a] = c
  BY DEF Others, IsAt
<1>2. \A m : PinnedSoon(m)' <=> m \in pinned' \/ (pc'[a] \in {"set", "pin"} /\ held'[a] = m)
  BY DEF Others, PinnedSoon
<1>3. (\E b \in Actors : pc'[b] = "pin" /\ held'[b] = stored') <=> pc'[a] = "pin" /\ held'[a] = stored'
  BY DEF Others
<1> QED BY <1>1, <1>2, <1>3 DEF CleanInv, Clean, KnownIsPinned, PinnedSoon

\* The price of a step: none where nothing more is missing, and one of a fault
\* pays for whatever is.
LEMMA Halves ==
  ASSUME NEW n \in Nat
  PROVE /\ n \div 2 \in Nat /\ (n + 1) \div 2 \in Nat
        /\ (n + 2) \div 2 = 1 + n \div 2
        /\ n \div 2 <= (n + 1) \div 2 /\ (n + 1) \div 2 <= 1 + n \div 2
        /\ n > 0 => (n + 1) \div 2 >= 1
  OBVIOUS

LEMMA PostedIsFinite == ASSUME NEW c PROVE IsFiniteSet(Posted(c)) /\ Cardinality(Posted(c)) \in Nat
<1>1. IsFiniteSet(Message)
  <2>1. 1 \in Int /\ MaxMessages \in Int
    BY LivingAssumption
  <2> QED BY <2>1, FS_Interval DEF Message
<1>2. Posted(c) \subseteq Message
  BY DEF Posted
<1> QED BY <1>1, <1>2, FS_Subset, FS_CardinalityType

LEMMA NoWorse ==
  ASSUME PaidInv, UNCHANGED <<place, faults, rebinds, bound>>, \A c \in Channels : Due(c)' => Due(c),
         TypeOK
  PROVE PaidInv'
<1> SUFFICES ASSUME NEW c \in Channels
    PROVE (Cardinality(Posted(c)) + (IF Due(c) THEN 1 ELSE 0))' <= (faults + Visits(c))'
  BY DEF PaidInv
<1>1. Posted(c)' = Posted(c) /\ Visits(c)' = Visits(c)
  BY DEF Posted, Visits
<1>2. Cardinality(Posted(c)) \in Nat /\ faults \in Nat /\ Visits(c) \in Nat
  <2>1. rebinds \in Nat
    BY LivingAssumption DEF TypeOK
  <2> QED BY <2>1, Halves, PostedIsFinite DEF TypeOK, Visits
<1>3. Cardinality(Posted(c)) + (IF Due(c) THEN 1 ELSE 0) <= faults + Visits(c)
  BY DEF PaidInv
<1> QED BY <1>1, <1>2, <1>3

LEMMA FaultPays ==
  ASSUME TypeOK, CostInv, WayInv', UNCHANGED <<place, rebinds, bound>>, faults' = faults + 1
  PROVE PaidInv'
<1> SUFFICES ASSUME NEW c \in Channels
    PROVE (Cardinality(Posted(c)) + (IF Due(c) THEN 1 ELSE 0))' <= (faults + Visits(c))'
  BY DEF PaidInv
<1>1. Posted(c)' = Posted(c) /\ Visits(c)' = Visits(c)
  BY DEF Posted, Visits
<1>r. rebinds \in Nat /\ faults \in Nat
  BY LivingAssumption DEF TypeOK
<1>2. Cardinality(Posted(c)) \in Nat /\ Visits(c) \in Nat
  BY <1>r, Halves, PostedIsFinite DEF Visits
<1>3. CASE faults # 0
  <2>1. Cardinality(Posted(c)) + (IF Due(c) THEN 1 ELSE 0) <= faults + Visits(c)
    BY <1>3 DEF PaidInv, CostInv
  <2> QED BY <2>1, <1>1, <1>2, <1>r
<1>4. CASE faults = 0
  <2>1. Cardinality(Posted(c)) <= 1
    BY <1>4, <1>2 DEF CleanInv, CostInv
  <2>2. Due(c)' => Visits(c) >= 1
    <3>1. Due(c)' => bound' = c \/ rebinds' > 0
      BY DEF Due, WayInv, Way
    <3> QED BY <3>1, <1>r, Halves DEF Visits
  <2> QED BY <2>1, <2>2, <1>1, <1>2, <1>r, <1>4
<1> QED BY <1>3, <1>4

LEMMA Combine ==
  ASSUME TypeOK, OneLoopInv, ~overlapped, NEW a \in Actors, Others(a), Others(a)', RowsInv', Way(a)',
         UNCHANGED <<place, faults, rebinds, bound>>,
         faults = 0 /\ Clean(a) => Clean(a)',
         \A c \in Channels : Owes(a, c)' => Owes(a, c)
  PROVE OneLoopInv'
<1>1. AloneInv' /\ WayInv'
  BY AloneNext, WayNext
<1>2. CASE faults = 0
  <2>1. Clean(a)
    BY <1>2, CleanNow DEF OneLoopInv, CostInv
  <2> QED BY <1>1, <1>2, <2>1, CleanNext DEF OneLoopInv, CostInv
<1>3. CASE faults # 0
  <2>1. \A c \in Channels : Due(c)' => Due(c)
    BY DueNow, DueNext
  <2> QED BY <1>1, <1>3, <2>1, NoWorse DEF OneLoopInv, CostInv
<1> QED BY <1>2, <1>3

LEMMA GetKeeps ==
  ASSUME TypeOK, HandsInv, OneLoopInv, ~overlapped, NEW a \in Actors, GetGuildMessage(a)
  PROVE OneLoopInv'
<1> USE DEF OneLoopInv
<1>1. Others(a) /\ Others(a)'
  <2>1. Others(a)
    BY AloneNow DEF GetGuildMessage
  <2> QED BY <2>1 DEF GetGuildMessage, Goes, TypeOK, Others
<1>2. UNCHANGED <<place, shows, pinned, lastId, stored, row, bound, closed, faults, rebinds>>
      /\ pc[a] = "get" /\ chan' = chan /\ held'[a] = stored
      /\ pc'[a] = IF IsCurrent(stored, chan[a]) THEN "drawEdit" ELSE "intend"
  BY DEF GetGuildMessage, Goes, TypeOK, calendar, settings, records, discord, budget
<1>3. RowsInv'
  BY <1>2 DEF RowsInv, Replaces, Lost
<1>4. Way(a)'
  BY <1>2 DEF WayInv, Way, IsCurrent
<1>5. faults = 0 /\ Clean(a) => Clean(a)'
  BY <1>2 DEF Clean, Posted
<1>6. ASSUME NEW c \in Channels, Owes(a, c)' PROVE Owes(a, c)
  BY <1>2, <1>6 DEF Owes, Wants, IsCurrent, Lost
<1> QED BY <1>1, <1>2, <1>3, <1>4, <1>5, <1>6, Combine

LEMMA DrawKeeps ==
  ASSUME TypeOK, HandsInv, OneLoopInv, ~overlapped, NEW a \in Actors, Draw(a)
  PROVE OneLoopInv'
<1> USE DEF OneLoopInv
<1>1. Others(a) /\ Others(a)'
  <2>1. Others(a)
    BY AloneNow DEF Draw, WeekOf
  <2> QED BY <2>1 DEF Draw, WeekOf, Goes, TypeOK, Others
<1>2. UNCHANGED <<place, shows, pinned, lastId, stored, row, bound, closed, faults, rebinds>>
      /\ chan' = chan /\ held' = held
      /\ \/ pc[a] = "drawEdit" /\ pc'[a] = "edit"
         \/ pc[a] = "drawPost" /\ pc'[a] = "post"
         \/ pc[a] = "drawAgain" /\ pc'[a] = "postAgain"
  BY DEF Draw, WeekOf, Goes, TypeOK, calendar, settings, records, discord, budget
<1>3. RowsInv'
  BY <1>2 DEF RowsInv, Replaces, Lost
<1>4. Way(a)'
  BY <1>2 DEF WayInv, Way, IsCurrent, Lost
<1>5. faults = 0 /\ Clean(a) => Clean(a)'
  BY <1>2 DEF Clean, Posted
<1>6. ASSUME NEW c \in Channels, Owes(a, c)' PROVE Owes(a, c)
  BY <1>2, <1>6 DEF Owes, Wants, IsCurrent, Lost
<1> QED BY <1>1, <1>2, <1>3, <1>4, <1>5, <1>6, Combine

LEMMA EditKeeps ==
  ASSUME TypeOK, HandsInv, OneLoopInv, ~overlapped, NEW a \in Actors, Edit(a)
  PROVE OneLoopInv'
<1> USE DEF OneLoopInv
<1>1. Others(a) /\ Others(a)'
  <2>1. Others(a)
    BY AloneNow DEF Edit, MissingLeadsTo
  <2> QED BY <2>1 DEF Edit, MissingLeadsTo, Goes, TypeOK, Others
<1>2. UNCHANGED <<place, pinned, lastId, stored, row, bound, closed, faults, rebinds>>
      /\ pc[a] = "edit" /\ chan' = chan /\ held' = held
      /\ pc'[a] = IF shows[held[a]] = Gone THEN "forget" ELSE "idle"
  BY DEF Edit, MissingLeadsTo, Goes, TypeOK, calendar, settings, records, discord, budget
<1>e. \A m \in Message : shows'[m] = Gone <=> shows[m] = Gone
  <2>1. held[a] \in Message /\ drawn[a] # Gone
    BY <1>2 DEF HandsInv, TypeOK, Gone
  <2> QED BY <2>1 DEF Edit, TypeOK
<1>3. RowsInv'
  BY <1>2, <1>e DEF RowsInv, Replaces, Lost
<1>4. Way(a)'
  BY <1>2, <1>e DEF WayInv, Way, IsCurrent, RowsInv, Replaces, Lost
<1>5. faults = 0 /\ Clean(a) => Clean(a)'
  BY <1>2, <1>e DEF Clean, Posted
<1>6. ASSUME NEW c \in Channels, Owes(a, c)' PROVE Owes(a, c)
  BY <1>2, <1>6, <1>e DEF Owes, Wants, IsCurrent, Lost, WayInv, Way
<1> QED BY <1>1, <1>2, <1>3, <1>4, <1>5, <1>6, Combine

LEMMA RemoveKeeps ==
  ASSUME TypeOK, HandsInv, OneLoopInv, ~overlapped, NEW a \in Actors, RemoveGuildMessage(a)
  PROVE OneLoopInv'
<1> USE DEF OneLoopInv
<1>1. Others(a) /\ Others(a)'
  <2>1. Others(a)
    BY AloneNow DEF RemoveGuildMessage
  <2> QED BY <2>1 DEF RemoveGuildMessage, Goes, TypeOK, Others
<1>2. UNCHANGED <<place, shows, pinned, lastId, row, bound, closed, faults, rebinds>>
      /\ pc[a] = "forget" /\ pc'[a] = "drawAgain" /\ chan' = chan /\ held' = held /\ stored' = 0
  BY DEF RemoveGuildMessage, Goes, TypeOK, calendar, settings, records, discord, budget
<1>3. RowsInv'
  BY <1>2 DEF RowsInv, Replaces, Lost
<1>4. Way(a)'
  BY <1>2 DEF WayInv, Way, IsCurrent, Lost
<1>5. faults = 0 /\ Clean(a) => Clean(a)'
  BY <1>2 DEF Clean, Posted
<1>6. ASSUME NEW c \in Channels, Owes(a, c)' PROVE Owes(a, c)
  BY <1>2, <1>6 DEF Owes, Wants, IsCurrent, Lost
<1> QED BY <1>1, <1>2, <1>3, <1>4, <1>5, <1>6, Combine

LEMMA IntendKeeps ==
  ASSUME TypeOK, HandsInv, OneLoopInv, ~overlapped, NEW a \in Actors, Intend(a)
  PROVE OneLoopInv'
<1> USE DEF OneLoopInv
<1>1. Others(a) /\ Others(a)'
  <2>1. Others(a)
    BY AloneNow DEF Intend
  <2> QED BY <2>1 DEF Intend, Goes, TypeOK, Others
<1>2. UNCHANGED <<place, shows, pinned, lastId, stored, bound, closed, faults, rebinds>> /\ pc[a] = "intend" /\ chan' = chan
  BY DEF Intend, Goes, TypeOK, calendar, settings, records, discord, budget
<1>h. /\ pc'[a] = IF row[chan[a]] \in Message THEN "restore" ELSE "drawPost"
      /\ row[chan[a]] \in Message => held'[a] = row[chan[a]]
  BY DEF Intend, IntendLeadsTo, TypeOK
<1>e. /\ chan[a] \in Channels
      /\ \A c \in Channels : row[c] \in Message => row'[c] = row[c]
      /\ \A c \in Channels : row[c] \notin Message => row'[c] \notin Message
      /\ row[chan[a]] \notin Message => row'[chan[a]] = Owed
  <2>1. chan[a] \in Channels
    BY <1>2 DEF HandsInv
  <2>2. row \in [Channels -> {NoRow, Owed} \cup Message]
    BY DEF TypeOK
  <2>3. NoRow \notin Message /\ Owed \notin Message
    BY LivingAssumption DEF Message, NoRow, Owed
  <2>4. row' = [row EXCEPT ![chan[a]] = IF row[chan[a]] = NoRow THEN Owed ELSE row[chan[a]]]
    BY DEF Intend
  <2> QED BY <2>1, <2>2, <2>3, <2>4
<1>3. RowsInv'
  BY <1>2, <1>e DEF RowsInv, Replaces, Lost
<1>4. Way(a)'
  BY <1>2, <1>e, <1>h DEF WayInv, Way, IsCurrent, Lost, Replaces
<1>5. faults = 0 /\ Clean(a) => Clean(a)'
  BY <1>2, <1>e, <1>h DEF Clean, Posted
<1>6. ASSUME NEW c \in Channels, Owes(a, c)' PROVE Owes(a, c)
  BY <1>2, <1>6, <1>e, <1>h DEF Owes, Wants, IsCurrent, Lost, WayInv, Way
<1> QED BY <1>1, <1>2, <1>3, <1>4, <1>5, <1>6, Combine

LEMMA RestoreKeeps ==
  ASSUME TypeOK, HandsInv, OneLoopInv, ~overlapped, NEW a \in Actors, Restore(a)
  PROVE OneLoopInv'
<1> USE DEF OneLoopInv
<1>1. Others(a) /\ Others(a)'
  <2>1. Others(a)
    BY AloneNow DEF Restore
  <2> QED BY <2>1 DEF Restore, Goes, TypeOK, Others
<1>2. UNCHANGED <<place, shows, pinned, lastId, row, bound, closed, faults, rebinds>>
      /\ pc[a] = "restore" /\ pc'[a] = "idle" /\ chan' = chan /\ held' = held /\ stored' = held[a]
  BY DEF Restore, Goes, TypeOK, calendar, settings, records, discord, budget
<1>e. chan[a] \in Channels /\ held[a] = row[chan[a]] /\ row[chan[a]] \in Message
      /\ row[chan[a]] # 0 /\ place[row[chan[a]]] = chan[a]
  BY <1>2 DEF HandsInv, WayInv, Way, RowsInv, Message
<1>3. RowsInv'
  BY <1>2, <1>e DEF RowsInv, Replaces, Lost
<1>4. Way(a)'
  BY <1>2 DEF Way
<1>5. faults = 0 /\ Clean(a) => Clean(a)'
  BY <1>2, <1>e DEF Clean, Posted
<1>6. ASSUME NEW c \in Channels, Owes(a, c)' PROVE Owes(a, c)
  BY <1>2, <1>6, <1>e DEF Owes, Wants, IsCurrent, Lost, WayInv, Way
<1> QED BY <1>1, <1>2, <1>3, <1>4, <1>5, <1>6, Combine

LEMMA RecordKeeps ==
  ASSUME TypeOK, HandsInv, OneLoopInv, ~overlapped, NEW a \in Actors, RecordPosted(a)
  PROVE OneLoopInv'
<1> USE DEF OneLoopInv
<1>1. Others(a) /\ Others(a)'
  <2>1. Others(a)
    BY AloneNow DEF RecordPosted
  <2> QED BY <2>1 DEF RecordPosted, Goes, TypeOK, Others
<1>2. UNCHANGED <<place, shows, pinned, lastId, stored, bound, closed, faults, rebinds>>
      /\ pc[a] = "record" /\ pc'[a] = "set" /\ chan' = chan /\ held' = held

  BY DEF RecordPosted, Goes, TypeOK, calendar, settings, records, discord, budget
<1>e. /\ chan[a] \in Channels /\ held[a] \in Message /\ place[held[a]] = chan[a]
      /\ row[chan[a]] = Owed /\ row[chan[a]] \notin Message /\ ~IsCurrent(stored, chan[a])
      /\ row' = [row EXCEPT ![chan[a]] = held[a]] /\ row \in [Channels -> {NoRow, Owed} \cup Message]
  <2>1. /\ chan[a] \in Channels /\ held[a] \in Message /\ place[held[a]] = chan[a]
        /\ row[chan[a]] = Owed /\ ~IsCurrent(stored, chan[a]) /\ Owed # NoRow
        /\ Owed \notin Message /\ row \in [Channels -> {NoRow, Owed} \cup Message]
    BY <1>2 DEF HandsInv, WayInv, Way, TypeOK, Message, NoRow, Owed
  <2>2. row' = [row EXCEPT ![chan[a]] = IF row[chan[a]] = NoRow THEN row[chan[a]] ELSE held[a]]
    BY DEF RecordPosted
  <2> QED BY <2>1, <2>2
<1>3. RowsInv'
  BY <1>2, <1>e DEF RowsInv, Replaces, Lost, IsCurrent
<1>4. Way(a)'
  BY <1>2, <1>e DEF Way, WayInv, Replaces, Lost, IsCurrent
<1>5. faults = 0 /\ Clean(a) => Clean(a)'
  BY <1>2, <1>e DEF Clean, Posted
<1>6. ASSUME NEW c \in Channels, Owes(a, c)' PROVE Owes(a, c)
  BY <1>2, <1>6, <1>e DEF Owes, Wants, IsCurrent, Lost
<1> QED BY <1>1, <1>2, <1>3, <1>4, <1>5, <1>6, Combine

LEMMA SetKeeps ==
  ASSUME TypeOK, HandsInv, OneLoopInv, ~overlapped, NEW a \in Actors, SetGuildMessage(a)
  PROVE OneLoopInv'
<1> USE DEF OneLoopInv
<1>1. Others(a) /\ Others(a)'
  <2>1. Others(a)
    BY AloneNow DEF SetGuildMessage, AfterSet
  <2> QED BY <2>1 DEF SetGuildMessage, AfterSet, Goes, TypeOK, Others
<1>2. UNCHANGED <<place, shows, pinned, lastId, row, bound, closed, faults, rebinds>>
      /\ pc[a] = "set" /\ pc'[a] = "pin" /\ chan' = chan /\ held' = held /\ stored' = held[a]
  BY DEF SetGuildMessage, AfterSet, Goes, TypeOK, calendar, settings, records, discord, budget
<1>e. chan[a] \in Channels /\ held[a] \in Message /\ held[a] # 0 /\ Replaces(held[a], chan[a])
  BY <1>2 DEF HandsInv, WayInv, Way, Message
<1>3. RowsInv'
  BY <1>2, <1>e DEF RowsInv, Replaces, Lost
<1>4. Way(a)'
  BY <1>2, <1>e DEF Way, WayInv, Replaces, Lost, IsCurrent
<1>5. faults = 0 /\ Clean(a) => Clean(a)'
  BY <1>2, <1>e DEF Clean, Posted
<1>6. ASSUME NEW c \in Channels, Owes(a, c)' PROVE Owes(a, c)
  BY <1>2, <1>6, <1>e DEF Owes, Wants, IsCurrent, Lost, Replaces
<1> QED BY <1>1, <1>2, <1>3, <1>4, <1>5, <1>6, Combine

LEMMA PinKeeps ==
  ASSUME TypeOK, HandsInv, OneLoopInv, ~overlapped, NEW a \in Actors, PinMessage(a)
  PROVE OneLoopInv'
<1> USE DEF OneLoopInv
<1>1. Others(a) /\ Others(a)'
  <2>1. Others(a)
    BY AloneNow DEF PinMessage
  <2> QED BY <2>1 DEF PinMessage, Goes, TypeOK, Others
<1>2. UNCHANGED <<place, shows, lastId, stored, row, bound, closed, faults, rebinds>>
      /\ pc[a] = "pin" /\ pc'[a] = "idle" /\ chan' = chan /\ held' = held
  BY DEF PinMessage, Goes, TypeOK, calendar, settings, records, discord, budget
<1>e. chan[a] \in Channels /\ held[a] \in Message /\ held[a] # 0 /\ place[held[a]] = chan[a]
      /\ stored = held[a]
  BY <1>2 DEF HandsInv, WayInv, Way, Message, Replaces
<1>3. RowsInv'
  BY <1>2 DEF RowsInv, Replaces, Lost
<1>4. Way(a)'
  BY <1>2 DEF Way
<1>5. faults = 0 /\ Clean(a) => Clean(a)'
  <2>1. faults = 0 /\ Clean(a) => pinned' = pinned \cup {held[a]}
    BY <1>e, LivingAssumption DEF Clean, PinMessage
  <2> QED BY <1>2, <1>e, <2>1 DEF Clean, Posted
<1>6. ASSUME NEW c \in Channels, Owes(a, c)' PROVE Owes(a, c)
  BY <1>2, <1>6, <1>e DEF Owes, Wants, IsCurrent, Lost
<1> QED BY <1>1, <1>2, <1>3, <1>4, <1>5, <1>6, Combine

LEMMA AccessKeeps ==
  ASSUME TypeOK, HandsInv, OneLoopInv, ~overlapped, NEW a \in Actors, MissingAccess(a)
  PROVE OneLoopInv'
<1> USE DEF OneLoopInv
<1>1. Others(a) /\ Others(a)'
  <2>1. Others(a)
    BY AloneNow DEF MissingAccess
  <2> QED BY <2>1 DEF MissingAccess, Goes, TypeOK, Others
<1>2. UNCHANGED <<place, shows, pinned, lastId, stored, bound, closed, faults, rebinds>>
      /\ pc[a] \in {"post", "postAgain", "edit"} /\ pc'[a] = "idle" /\ chan' = chan /\ held' = held
      /\ chan[a] \in closed
  BY DEF MissingAccess, Goes, TypeOK, calendar, settings, records, discord, budget
<1>e. /\ chan[a] \in Channels
      /\ \A c \in Channels : c # chan[a] => row'[c] = row[c]
      /\ \/ row' = row
         \/ row'[chan[a]] = NoRow /\ NoRow \notin Message /\ ~IsCurrent(stored, chan[a])
  BY <1>2 DEF MissingAccess, HandsInv, WayInv, Way, TypeOK, Message, NoRow
<1>3. RowsInv'
  BY <1>2, <1>e DEF RowsInv, Replaces, Lost, IsCurrent
<1>4. Way(a)'
  BY <1>2 DEF Way
<1>5. faults = 0 /\ Clean(a) => Clean(a)'
  BY <1>2 DEF Clean
<1>6. ASSUME NEW c \in Channels, Owes(a, c)' PROVE Owes(a, c)
  <2>1. c # chan[a] /\ bound = c
    BY <1>2, <1>6 DEF Owes
  <2>2. row'[c] = row[c]
    BY <1>e, <2>1
  <2> QED BY <1>2, <1>6, <2>1, <2>2 DEF Owes, Wants, IsCurrent, Lost, RowsInv, Replaces
<1> QED BY <1>1, <1>2, <1>3, <1>4, <1>5, <1>6, Combine

LEMMA BeginKeeps ==
  ASSUME TypeOK, HandsInv, OneLoopInv, ~overlapped, NEW a \in Actors, ChannelFor(a), pc' # pc, ~overlapped'
  PROVE OneLoopInv'
<1> USE DEF OneLoopInv
<1>2. UNCHANGED <<place, shows, pinned, lastId, stored, row, bound, closed, faults, rebinds>>
      /\ pc[a] = "idle" /\ pc'[a] = "get" /\ held' = held /\ chan'[a] = bound
      /\ (\A b \in Actors : pc[b] = "idle") /\ (\A b \in Actors : b # a => pc'[b] = pc[b])
  BY DEF ChannelFor, TypeOK, records, discord, budget
<1>1. Others(a) /\ Others(a)'
  BY <1>2 DEF Others
<1>3. RowsInv'
  BY <1>2 DEF RowsInv, Replaces, Lost
<1>4. Way(a)'
  BY <1>2 DEF Way
<1>5. faults = 0 /\ Clean(a) => Clean(a)'
  BY <1>2 DEF Clean, Posted
<1>6. ASSUME NEW c \in Channels, Owes(a, c)' PROVE Owes(a, c)
  BY <1>2, <1>6 DEF Owes, Wants, IsCurrent, Lost
<1> QED BY <1>1, <1>2, <1>3, <1>4, <1>5, <1>6, Combine

-----------------------------------------------------------------------------
\* A message more.

LEMMA OneMore ==
  ASSUME TypeOK, RowsInv, NEW a \in Actors, NewMessage(a), NEW k \in Channels, k = chan[a]
  PROVE /\ lastId + 1 \in Message /\ lastId' = lastId + 1 /\ pinned' = pinned
        /\ place[lastId + 1] = NoChannel /\ place'[lastId + 1] = k
        /\ shows'[lastId + 1] # Gone
        /\ \A m \in Message : m # lastId + 1 => place'[m] = place[m] /\ shows'[m] = shows[m]
        /\ \A c \in Channels : c # k => Posted(c)' = Posted(c)
        /\ Cardinality(Posted(k))' = Cardinality(Posted(k)) + 1
        /\ \A m \in Message : place[m] # NoChannel => m # lastId + 1
        /\ \A m \in Message : place'[m] # NoChannel <=> m <= lastId'
<1> DEFINE n == lastId + 1
<1>1. n \in Message /\ lastId \in Nat
  BY LivingAssumption DEF NewMessage, TypeOK, Message
<1>2. place[n] = NoChannel /\ k # NoChannel /\ \A m \in Message : place[m] # NoChannel <=> m <= lastId
  BY <1>1, LivingAssumption DEF RowsInv
<1>3. /\ place' = [place EXCEPT ![n] = k] /\ shows' = [shows EXCEPT ![n] = drawn[a]] /\ lastId' = n
      /\ pinned' = pinned /\ drawn[a] # Gone
  BY DEF NewMessage, TypeOK, Gone
<1>4. /\ place'[n] = k /\ shows'[n] # Gone
      /\ \A m \in Message : m # n => place'[m] = place[m] /\ shows'[m] = shows[m]
  BY <1>1, <1>3 DEF TypeOK
<1>5. \A c \in Channels : c # k => Posted(c)' = Posted(c)
  BY <1>2, <1>4, LivingAssumption DEF Posted
<1>6. Posted(k)' = Posted(k) \cup {n} /\ n \notin Posted(k)
  BY <1>1, <1>2, <1>4 DEF Posted
<1>7. Cardinality(Posted(k) \cup {n}) = Cardinality(Posted(k)) + 1
  BY <1>6, PostedIsFinite, FS_AddElement
<1>8. \A m \in Message : place'[m] # NoChannel <=> m <= lastId'
  <2>1. \A m \in Message : m \in Nat
    BY DEF Message
  <2> QED BY <1>1, <1>2, <1>3, <1>4, <2>1
<1> QED BY <1>1, <1>2, <1>3, <1>4, <1>5, <1>6, <1>7, <1>8

\* What the rows name is not disturbed by a message more.
LEMMA RowsStand ==
  ASSUME TypeOK, RowsInv, NEW a \in Actors, NewMessage(a), chan[a] \in Channels, UNCHANGED <<stored, row>>
  PROVE /\ RowsInv'
        /\ \A c \in Channels : row[c] \in Message => place[row[c]] = c /\ row[c] # lastId + 1
                                                     /\ (Lost(row[c])' <=> Lost(row[c]))
        /\ \A c \in Channels : IsCurrent(stored, c)' <=> IsCurrent(stored, c)
        /\ stored # 0 => (Lost(stored)' <=> Lost(stored))
<1>0. NoChannel \notin Channels
  BY LivingAssumption
<1>1. \A c \in Channels : row[c] \in Message => place[row[c]] = c /\ row[c] # lastId + 1
                                                /\ (Lost(row[c])' <=> Lost(row[c]))
  BY OneMore, <1>0 DEF RowsInv, Lost
<1>2. stored # 0 => stored \in Message /\ stored # lastId + 1 /\ place'[stored] = place[stored]
                    /\ shows'[stored] = shows[stored] /\ place[stored] \in Channels
  <2>1. stored # 0 => stored \in Message
    BY DEF TypeOK, Message
  <2> QED BY <2>1, OneMore, <1>0 DEF RowsInv
<1>3. RowsInv'
  BY <1>1, <1>2, OneMore DEF RowsInv, Replaces
<1> QED BY <1>1, <1>2, <1>3 DEF IsCurrent, Lost

LEMMA PostKeeps ==
  ASSUME TypeOK, HandsInv, OneLoopInv, ~overlapped, NEW a \in Actors, Post(a)
  PROVE OneLoopInv'
<1> USE DEF OneLoopInv
<1> DEFINE n == lastId + 1
<1>k. PICK k : k = chan[a]
  OBVIOUS
<1>1. Others(a) /\ Others(a)'
  <2>1. Others(a)
    BY AloneNow DEF Post
  <2> QED BY <2>1 DEF Post, TypeOK, Others
<1>2. UNCHANGED <<stored, row, bound, closed, faults, rebinds>> /\ NewMessage(a) /\ chan[a] \notin closed
      /\ chan' = chan /\ held'[a] = n
      /\ \/ pc[a] = "post" /\ pc'[a] = "record"
         \/ pc[a] = "postAgain" /\ pc'[a] = "set"
  BY DEF Post, NewMessage, TypeOK, settings, records, budget
<1>3. k \in Channels
  BY <1>2, <1>k DEF HandsInv
<1>4. /\ n \in Message /\ lastId' = n /\ place[n] = NoChannel /\ place'[n] = k /\ shows'[n] # Gone
      /\ pinned' = pinned
      /\ \A m \in Message : m # n => place'[m] = place[m] /\ shows'[m] = shows[m]
      /\ \A c \in Channels : c # k => Posted(c)' = Posted(c)
      /\ Cardinality(Posted(k))' = Cardinality(Posted(k)) + 1
  BY <1>2, <1>3, <1>k, OneMore
<1>5. /\ RowsInv'
      /\ \A c \in Channels : row[c] \in Message => place[row[c]] = c /\ row[c] # n
                                                   /\ (Lost(row[c])' <=> Lost(row[c]))
      /\ \A c \in Channels : IsCurrent(stored, c)' <=> IsCurrent(stored, c)
      /\ stored # 0 => (Lost(stored)' <=> Lost(stored))
  BY <1>2, <1>3, <1>k, RowsStand
<1>6. WayInv' /\ AloneInv'
  <2>1. Way(a)'
    BY <1>2, <1>3, <1>4, <1>5, <1>k DEF WayInv, Way, Replaces
  <2> QED BY <1>1, <2>1, WayNext, AloneNext
<1>n. \A c \in Channels : Cardinality(Posted(c)) \in Nat
  BY PostedIsFinite
<1>7. CASE faults = 0
  <2>1. Clean(a)
    BY <1>1, <1>7, CleanNow DEF CostInv
  <2>2. pc[a] = "post" /\ row[k] \notin Message
    <3>1. pc[a] = "postAgain" => row[k] \in Message /\ Lost(row[k])
      BY <1>k DEF WayInv, Way
    <3>2. pc[a] = "post" => row[k] = Owed
      BY <1>k DEF WayInv, Way
    <3>3. ~(row[k] \in Message /\ Lost(row[k]))
      BY <1>3, <1>5, <2>1, LivingAssumption DEF Clean, Lost
    <3> QED BY <1>2, <3>1, <3>2, <3>3 DEF Owed, Message
  <2>3. Clean(a)'
    <3>1. \A m \in Message : place'[m] # NoChannel => shows'[m] # Gone
      BY <1>4, <2>1 DEF Clean
    <3>2. ASSUME NEW c \in Channels
          PROVE Cardinality(Posted(c))'
                  <= IF row'[c] \in Message \/ (pc'[a] = "record" /\ chan'[a] = c) THEN 1 ELSE 0
      <4>1. CASE c = k
        <5>1. Cardinality(Posted(k)) <= 0
          BY <1>3, <2>1, <2>2 DEF Clean
        <5> QED BY <4>1, <5>1, <1>2, <1>4, <1>n, <1>3, <2>2, <1>k
      <4>2. CASE c # k
        <5>1. Cardinality(Posted(c)) <= IF row[c] \in Message THEN 1 ELSE 0
          BY <4>2, <2>1, <2>2 DEF Clean
        <5>2. Posted(c)' = Posted(c) /\ row'[c] = row[c]
          BY <4>2, <1>2, <1>4
        <5> QED BY <4>2, <5>1, <5>2, <1>2, <1>k
      <4> QED BY <4>1, <4>2
    <3>3. /\ closed' = {}
          /\ \A c \in Channels : row'[c] \in Message => row'[c] \in pinned'
          /\ stored' # 0 => stored' \in pinned'
      BY <1>2, <1>4, <2>1, <2>2 DEF Clean
    <3> QED BY <3>1, <3>2, <3>3 DEF Clean
  <2> QED BY <1>1, <1>2, <1>5, <1>6, <1>7, <2>3, CleanNext DEF CostInv
<1>8. CASE faults # 0
  <2>1. PaidInv'
    <3> SUFFICES ASSUME NEW c \in Channels
        PROVE (Cardinality(Posted(c)) + (IF Due(c) THEN 1 ELSE 0))' <= (faults + Visits(c))'
      BY DEF PaidInv
    <3>1. faults \in Nat /\ Visits(c) \in Nat /\ Visits(c)' = Visits(c) /\ faults' = faults
      <4>1. rebinds \in Nat
        BY LivingAssumption DEF TypeOK
      <4> QED BY <1>2, <4>1, Halves DEF TypeOK, Visits
    <3>2. Cardinality(Posted(c)) + (IF Due(c) THEN 1 ELSE 0) <= faults + Visits(c)
      BY <1>8 DEF PaidInv, CostInv
    <3>3. CASE c = k
      <4>1. Due(c)
        <5>1. Owes(a, c)
          BY <1>2, <3>3, <1>k DEF Owes, Wants
        <5> QED BY <5>1, <1>1, DueNow
      <4>2. ~Due(c)'
        <5>1. ~Owes(a, c)'
          BY <1>2, <1>4, <3>3, <1>k DEF Owes, Wants, Lost
        <5> QED BY <5>1, <1>1, DueNext
      <4>3. /\ Cardinality(Posted(c)) + 1 <= faults + Visits(c)
            /\ (Cardinality(Posted(c)) + (IF Due(c) THEN 1 ELSE 0))' = Cardinality(Posted(c))'
        <5>1. Cardinality(Posted(c))' \in Nat
          BY <1>3, <1>4, <1>n, <3>3
        <5> QED BY <3>2, <4>1, <4>2, <5>1
      <4> QED BY <3>1, <3>3, <4>3, <1>4, <1>n
    <3>4. CASE c # k
      <4>1. Due(c)' => Due(c)
        <5>1. Owes(a, c)' => Owes(a, c)
          <6>1. row'[c] = row[c] /\ (Lost(row[c])' <=> Lost(row[c]))
            BY <1>2, <1>5 DEF Lost
          <6> QED BY <1>2, <3>4, <6>1, <1>k DEF Owes, Wants
        <5> QED BY <5>1, <1>1, DueNow, DueNext
      <4> QED BY <3>1, <3>2, <3>4, <4>1, <1>4, <1>n
    <3> QED BY <3>3, <3>4
  <2> QED BY <1>2, <1>5, <1>6, <1>8, <2>1 DEF CostInv
<1> QED BY <1>7, <1>8

-----------------------------------------------------------------------------
\* Faults, and what the manager does.

LEMMA LostAnswerKeeps ==
  ASSUME TypeOK, HandsInv, OneLoopInv, ~overlapped, NEW a \in Actors, AnswerLost(a)
  PROVE OneLoopInv'
<1> USE DEF OneLoopInv
<1> DEFINE n == lastId + 1
<1>k. PICK k : k = chan[a]
  OBVIOUS
<1>1. Others(a) /\ Others(a)' /\ pc'[a] = "idle"
  <2>1. Others(a)
    BY AloneNow DEF AnswerLost
  <2> QED BY <2>1 DEF AnswerLost, Goes, TypeOK, Others
<1>2. UNCHANGED <<stored, row, bound, closed, rebinds>> /\ NewMessage(a) /\ chan[a] \notin closed
      /\ chan' = chan /\ held' = held /\ faults' = faults + 1 /\ pc[a] \in {"post", "postAgain"}
  BY DEF AnswerLost, Goes, Fault, NewMessage, TypeOK, settings, records
<1>3. k \in Channels
  BY <1>2, <1>k DEF HandsInv
<1>4. /\ \A c \in Channels : c # k => Posted(c)' = Posted(c)
      /\ Cardinality(Posted(k))' = Cardinality(Posted(k)) + 1
  BY <1>2, <1>3, <1>k, OneMore
<1>5. /\ RowsInv'
      /\ \A c \in Channels : row[c] \in Message => (Lost(row[c])' <=> Lost(row[c])) /\ place[row[c]] = c
  BY <1>2, <1>3, <1>k, RowsStand
<1>6. WayInv' /\ AloneInv'
  <2>1. Way(a)'
    BY <1>1 DEF Way
  <2> QED BY <1>1, <2>1, WayNext, AloneNext
<1>n. \A c \in Channels : Cardinality(Posted(c)) \in Nat
  BY PostedIsFinite
<1>r. faults \in Nat /\ rebinds \in Nat
  BY LivingAssumption DEF TypeOK
<1>7. PaidInv'
  <2> SUFFICES ASSUME NEW c \in Channels
      PROVE (Cardinality(Posted(c)) + (IF Due(c) THEN 1 ELSE 0))' <= (faults + Visits(c))'
    BY DEF PaidInv
  <2>1. Visits(c) \in Nat /\ Visits(c)' = Visits(c) /\ (Due(c)' => Visits(c) >= 1)
    <3>1. Due(c)' => bound' = c
      BY <1>1, DueNext DEF Owes
    <3> QED BY <1>2, <1>r, <3>1, Halves DEF Visits
  <2>2. Cardinality(Posted(c)) + 1 <= faults + Visits(c) \/ (Cardinality(Posted(c)) = 0 /\ faults = 0) \/ c # k
    <3>1. CASE faults = 0 /\ c = k
      <4>1. Clean(a)
        BY <1>1, <3>1, CleanNow DEF CostInv
      <4>2. ~(row[k] \in Message /\ Lost(row[k]))
        BY <1>3, <1>5, <4>1, LivingAssumption DEF Clean, Lost
      <4>3. pc[a] = "post" /\ row[k] \notin Message
        <5>1. pc[a] = "postAgain" => row[k] \in Message /\ Lost(row[k])
          BY <1>k DEF WayInv, Way
        <5>2. pc[a] = "post" => row[k] = Owed
          BY <1>k DEF WayInv, Way
        <5> QED BY <1>2, <4>2, <5>1, <5>2 DEF Owed, Message
      <4>4. Cardinality(Posted(k)) <= 0
        BY <1>3, <4>1, <4>3 DEF Clean
      <4> QED BY <3>1, <4>4, <1>n
    <3>2. CASE faults # 0 /\ c = k
      <4>1. Owes(a, c)
        BY <1>2, <1>k, <3>2 DEF Owes, Wants
      <4>2. Due(c)
        BY <4>1, <1>1, DueNow
      <4> QED BY <3>2, <4>2 DEF PaidInv, CostInv
    <3> QED BY <3>1, <3>2
  <2>3. CASE c = k
    <3>1. Cardinality(Posted(c))' = Cardinality(Posted(c)) + 1
      BY <1>4, <2>3
    <3> QED BY <2>1, <2>2, <2>3, <3>1, <1>2, <1>n, <1>r
  <2>4. CASE c # k
    <3>1. Cardinality(Posted(c))' = Cardinality(Posted(c))
      BY <1>4, <2>4
    <3>2. CASE faults = 0
      <4>1. Cardinality(Posted(c)) <= 1
        BY <3>2, <1>n DEF CleanInv, CostInv
      <4> QED BY <4>1, <3>1, <3>2, <2>1, <1>2, <1>n
    <3>3. CASE faults # 0
      <4>1. Cardinality(Posted(c)) + (IF Due(c) THEN 1 ELSE 0) <= faults + Visits(c)
        BY <3>3 DEF PaidInv, CostInv
      <4> QED BY <4>1, <3>1, <2>1, <1>2, <1>n, <1>r
    <3> QED BY <3>2, <3>3
  <2> QED BY <2>3, <2>4
<1> QED BY <1>2, <1>5, <1>6, <1>7, <1>r DEF CostInv

\* A fault that leaves the messages where they are.
LEMMA FaultKeeps ==
  ASSUME TypeOK, HandsInv, OneLoopInv, Fault, UNCHANGED <<place, lastId, bound, stored, row>>,
         \A m \in Message : shows[m] = Gone => shows'[m] = Gone,
         AloneInv', WayInv'
  PROVE OneLoopInv'
<1>1. faults' = faults + 1 /\ rebinds' = rebinds /\ faults \in Nat
  BY DEF Fault, TypeOK
<1>2. PaidInv'
  BY <1>1, FaultPays DEF OneLoopInv
<1>3. RowsInv'
  BY DEF OneLoopInv, RowsInv, Replaces, Lost
<1> QED BY <1>1, <1>2, <1>3 DEF OneLoopInv, CostInv

LEMMA CrashKeeps == ASSUME TypeOK, HandsInv, OneLoopInv, Crash PROVE OneLoopInv'
<1>1. \A a \in Actors : pc'[a] = "idle"
  BY DEF Crash
<1>2. AloneInv' /\ WayInv'
  BY <1>1 DEF AloneInv, WayInv, Way
<1> QED BY <1>2, FaultKeeps DEF Crash, settings, records, discord

LEMMA CallFailsKeeps ==
  ASSUME TypeOK, HandsInv, OneLoopInv, NEW a \in Actors, CallFails(a) PROVE OneLoopInv'
<1>1. Others(a) /\ Others(a)' /\ pc'[a] = "idle"
  <2>1. Others(a)
    BY AloneNow DEF CallFails, OneLoopInv
  <2> QED BY <2>1 DEF CallFails, Goes, TypeOK, Others
<1>2. AloneInv' /\ WayInv'
  <2>1. Way(a)'
    BY <1>1 DEF Way
  <2> QED BY <1>1, <2>1, WayNext, AloneNext
<1> QED BY <1>2, FaultKeeps DEF CallFails, settings, records, discord

LEMMA CloseKeeps ==
  ASSUME TypeOK, HandsInv, OneLoopInv, NEW c \in Channels, CloseChannel(c) PROVE OneLoopInv'
<1>1. UNCHANGED <<bound, stored, row, place, shows, lastId, pc, chan, held, rebinds>>
  BY DEF CloseChannel, Fault, records, discord, locals
<1>2. AloneInv' /\ WayInv'
  BY <1>1 DEF OneLoopInv, AloneInv, WayInv, Way, IsCurrent, Lost, Replaces
<1> QED BY <1>1, <1>2, FaultKeeps DEF CloseChannel

LEMMA DeleteKeeps ==
  ASSUME TypeOK, HandsInv, OneLoopInv, NEW d \in Message, DeleteByHand(d) PROVE OneLoopInv'
<1>1. UNCHANGED <<bound, stored, row, place, lastId, pc, chan, held, rebinds>>
      /\ \A m \in Message : shows[m] = Gone => shows'[m] = Gone
  BY DEF DeleteByHand, Fault, TypeOK, settings, records, locals
<1>2. AloneInv' /\ WayInv'
  BY <1>1 DEF OneLoopInv, AloneInv, WayInv, Way, IsCurrent, Lost, Replaces
<1> QED BY <1>1, <1>2, FaultKeeps DEF DeleteByHand

\* A channel bound anew is a visit of it: the visit pays for what is missing.
LEMMA RebindKeeps ==
  ASSUME TypeOK, HandsInv, OneLoopInv, ~overlapped, NEW b \in Channels \cup {NoChannel}, Rebind(b)
  PROVE OneLoopInv'
<1> USE DEF OneLoopInv
<1>1. /\ UNCHANGED <<closed, stored, row, place, shows, pinned, lastId, pc, chan, held, faults, overlapped>>
      /\ b # bound /\ bound' = b /\ rebinds' = rebinds + 1
  BY DEF Rebind, records, discord, locals
<1>r. faults \in Nat /\ rebinds \in Nat
  BY LivingAssumption DEF TypeOK
<1>2. AloneInv' /\ RowsInv'
  BY <1>1 DEF AloneInv, RowsInv, Replaces, Lost
<1>3. WayInv'
  BY <1>1, <1>r DEF WayInv, Way, IsCurrent, Lost, Replaces
<1>4. CASE faults = 0
  BY <1>1, <1>2, <1>3, <1>4 DEF CostInv, CleanInv, Posted, IsAt, PinnedSoon, KnownIsPinned
<1>5. CASE faults # 0
  <2>1. PaidInv'
    <3> SUFFICES ASSUME NEW c \in Channels
        PROVE (Cardinality(Posted(c)) + (IF Due(c) THEN 1 ELSE 0))' <= (faults + Visits(c))'
      BY DEF PaidInv
    <3>1. Posted(c)' = Posted(c) /\ Cardinality(Posted(c)) \in Nat
      BY <1>1, PostedIsFinite DEF Posted
    <3>2. Cardinality(Posted(c)) + (IF Due(c) THEN 1 ELSE 0) <= faults + Visits(c)
      BY <1>5 DEF PaidInv, CostInv
    <3>3. CASE c = b
      <4>1. Visits(c)' = Visits(c) + 1 /\ Visits(c) \in Nat
        <5>1. Visits(c) = (rebinds + 1) \div 2 /\ Visits(c)' = 1 + (rebinds + 1) \div 2
          BY <1>1, <3>3 DEF Visits
        <5> QED BY <5>1, <1>r, Halves
      <4> QED BY <3>1, <3>2, <4>1, <1>1, <1>r
    <3>4. CASE c # b
      <4>1. Visits(c) <= Visits(c)' /\ Visits(c) \in Nat /\ Visits(c)' \in Nat
        <5>1. CASE bound = c
          <6>1. Visits(c) = 1 + rebinds \div 2 /\ Visits(c)' = (rebinds + 1 + 1) \div 2
            BY <1>1, <3>4, <5>1 DEF Visits
          <6>2. rebinds + 1 + 1 = rebinds + 2
            BY <1>r
          <6> QED BY <6>1, <6>2, <1>r, Halves
        <5>2. CASE bound # c
          <6>1. Visits(c) = (rebinds + 1) \div 2 /\ Visits(c)' = (rebinds + 1 + 1) \div 2
            BY <1>1, <3>4, <5>2 DEF Visits
          <6>2. rebinds + 1 \in Nat
            BY <1>r
          <6> QED BY <6>1, <6>2, <1>r, Halves
        <5> QED BY <5>1, <5>2
      <4>2. Due(c)' => Due(c)
        BY <1>1, <3>4 DEF Due, Missing, IsAt, Lost, IsCurrent
      <4> QED BY <3>1, <3>2, <4>1, <4>2, <1>1, <1>r
    <3> QED BY <3>3, <3>4
  <2> QED BY <1>1, <1>2, <1>3, <1>5, <2>1 DEF CostInv
<1> QED BY <1>4, <1>5

\* Nothing that the invariant speaks of changes.
LEMMA FrameKeeps ==
  ASSUME OneLoopInv, UNCHANGED <<bound, closed, discord, records, pc, chan, held, rebinds, faults, overlapped>>
  PROVE OneLoopInv'
<1> USE DEF OneLoopInv, discord, records
<1>1. AloneInv' /\ RowsInv' /\ WayInv'
  BY DEF AloneInv, RowsInv, WayInv, Way, IsCurrent, Lost, Replaces
<1>2. CleanInv => CleanInv'
  BY DEF CleanInv, Posted, IsAt, PinnedSoon, KnownIsPinned
<1>3. PaidInv => PaidInv'
  <2>1. \A c : (Due(c)' <=> Due(c)) /\ Posted(c)' = Posted(c) /\ Visits(c)' = Visits(c)
    BY DEF Due, Missing, IsAt, Lost, IsCurrent, Posted, Visits
  <2> QED BY <2>1 DEF PaidInv
<1> QED BY <1>1, <1>2, <1>3 DEF CostInv

-----------------------------------------------------------------------------
LEMMA KeptStep == TypeOK /\ HandsInv /\ KeptInv /\ [Next]_vars => KeptInv'
<1> SUFFICES ASSUME TypeOK, HandsInv, KeptInv, [Next]_vars, ~overlapped' PROVE OneLoopInv'
  BY DEF KeptInv
<1>o. ~overlapped /\ OneLoopInv
  <2>1. ASSUME NEW a \in Actors, Refresh(a) PROVE overlapped => overlapped'
    <3>1. ASSUME ChannelFor(a) PROVE overlapped => overlapped'
      BY <3>1 DEF ChannelFor
    <3>2. ASSUME ~ChannelFor(a) PROVE overlapped' = overlapped
      BY <2>1, <3>2 DEF Refresh, GetGuildMessage, Draw, WeekOf, Edit, RemoveGuildMessage, Intend, Restore, Post,
        MissingAccess, RecordPosted, SetGuildMessage, PinMessage
    <3> QED BY <3>1, <3>2
  <2>2. ASSUME Environment PROVE overlapped' = overlapped
    BY <2>2 DEF Environment, WeekChanges, SwitchOn, Crash, Rebind, CloseChannel, DeleteByHand, CallFails, AnswerLost
  <2>3. ASSUME UNCHANGED vars PROVE overlapped' = overlapped
    BY <2>3 DEF vars
  <2>4. ~overlapped
    BY <2>1, <2>2, <2>3 DEF Next
  <2> QED BY <2>4 DEF KeptInv
<1>1. ASSUME NEW a \in Actors, Refresh(a) PROVE OneLoopInv'
  <2>1. CASE ChannelFor(a)
    <3>1. CASE pc' = pc
      <4>1. UNCHANGED <<bound, closed, discord, records, pc, chan, held, rebinds, faults, overlapped>>
        BY <1>o, <2>1, <3>1 DEF ChannelFor, budget, TypeOK
      <4> QED BY <4>1, <1>o, FrameKeeps
    <3>2. CASE pc' # pc
      BY <1>o, <2>1, <3>2, BeginKeeps
    <3> QED BY <3>1, <3>2
  <2>2. CASE ~ChannelFor(a)
    BY <1>o, <1>1, <2>2, GetKeeps, DrawKeeps, EditKeeps, RemoveKeeps, IntendKeeps, RestoreKeeps, PostKeeps,
       AccessKeeps, RecordKeeps, SetKeeps, PinKeeps DEF Refresh
  <2> QED BY <2>1, <2>2
<1>2. ASSUME Environment PROVE OneLoopInv'
  <2>1. CASE WeekChanges
    BY <1>o, <2>1, FrameKeeps DEF WeekChanges, settings, locals, budget
  <2>2. CASE SwitchOn
    BY <1>o, <2>2, FrameKeeps DEF SwitchOn, locals, budget
  <2>3. CASE ~WeekChanges /\ ~SwitchOn
    BY <1>o, <1>2, <2>3, CrashKeeps, RebindKeeps, CloseKeeps, DeleteKeeps, CallFailsKeeps, LostAnswerKeeps
       DEF Environment
  <2> QED BY <2>1, <2>2, <2>3
<1>3. ASSUME UNCHANGED vars PROVE OneLoopInv'
  BY <1>o, <1>3, FrameKeeps DEF vars, settings, locals, budget
<1> QED BY <1>1, <1>2, <1>3 DEF Next

LEMMA KeptInit == Init => KeptInv
<1> SUFFICES ASSUME Init PROVE OneLoopInv
  BY DEF KeptInv
<1>1. AloneInv /\ RowsInv /\ WayInv
  BY LivingAssumption DEF Init, AloneInv, RowsInv, WayInv, Way, IsCurrent, Message, NoRow
<1>2. \A c \in Channels : Posted(c) = {}
  BY LivingAssumption DEF Init, Posted
<1>3. CleanInv
  <2>1. Cardinality({}) = 0
    BY FS_EmptySet
  <2>2. \A c \in Channels : row[c] \notin Message
    BY DEF Init, Message, NoRow
  <2>3. \A c : ~IsAt(c, {"record"})
    BY DEF Init, IsAt
  <2> QED BY <1>2, <2>1, <2>2, <2>3 DEF Init, CleanInv, KnownIsPinned
<1> QED BY <1>1, <1>3 DEF Init, OneLoopInv, CostInv

LEMMA KeptTells == TypeOK /\ KeptInv => MessageIsKept
<1> SUFFICES ASSUME TypeOK, KeptInv PROVE ExtrasCostFaults /\ KnownIsPinned
  BY DEF MessageIsKept
<1>1. KnownIsPinned
  BY DEF KeptInv, OneLoopInv, CostInv, CleanInv, KnownIsPinned
<1>2. ASSUME ~overlapped, NEW c \in Channels
      PROVE Cardinality(Posted(c)) <= 1 + faults + (IF faults = 0 THEN 0 ELSE rebinds \div 2)
  <2>1. faults \in Nat /\ rebinds \in Nat /\ Cardinality(Posted(c)) \in Nat
    BY LivingAssumption, PostedIsFinite DEF TypeOK
  <2>2. CASE faults = 0
    <3>1. Cardinality(Posted(c)) <= 1
      BY <1>2, <2>1, <2>2 DEF KeptInv, OneLoopInv, CostInv, CleanInv
    <3> QED BY <2>1, <2>2, <3>1
  <2>3. CASE faults # 0
    <3>1. Cardinality(Posted(c)) + (IF Due(c) THEN 1 ELSE 0) <= faults + Visits(c)
      BY <1>2, <2>3 DEF KeptInv, OneLoopInv, CostInv, PaidInv
    <3>2. Visits(c) <= 1 + rebinds \div 2 /\ Visits(c) \in Nat /\ rebinds \div 2 \in Nat
      BY <2>1, Halves DEF Visits
    <3> QED BY <2>1, <2>3, <3>1, <3>2
  <2> QED BY <2>2, <2>3
<1> QED BY <1>1, <1>2 DEF ExtrasCostFaults

\* While no two refreshes overlap, a channel is given one message, and one more
\* only for a fault or, after one, for each return of the binding; and the
\* message known is pinned (announce/thisWeek.ts:92-190, refresh and postAgain).
THEOREM MessageStaysKept == Spec => []MessageIsKept
<1>1. Init => TypeOK /\ HandsInv /\ KeptInv
  BY TypeInit, KeptInit
<1>2. TypeOK /\ HandsInv /\ KeptInv /\ [Next]_vars => (TypeOK /\ HandsInv /\ KeptInv)'
  BY TypeStep, KeptStep
<1>3. TypeOK /\ HandsInv /\ KeptInv => MessageIsKept
  BY KeptTells
<1> QED BY <1>1, <1>2, <1>3, PTL DEF Spec

=============================================================================
