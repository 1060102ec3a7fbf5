------------------------ MODULE ScheduledDigestProofs ------------------------
(***************************************************************************)
(* Proofs about ScheduledDigest, for any number of servers and hours, any  *)
(* reach of a catch up, any hour the clock repeats and any faults: what a  *)
(* channel holds too much of is paid for, and the hours run in order.      *)
(***************************************************************************)
EXTENDS ScheduledDigest, FiniteSetTheorems, SequenceTheorems, TLAPS

-----------------------------------------------------------------------------
\* The two clocks.

\* The bounds, as numbers.
LEMMA Bounds ==
  /\ LastHour \in Nat /\ Fold \in Nat /\ Fold <= LastHour /\ MaxFaults \in Nat
  /\ CatchUp \in Nat /\ CatchUp >= 1
  /\ \A h : h \in Hour <=> h \in Nat /\ h <= LastHour
BY DigestAssumption DEF DigestAssumption, Hour

\* An hour is the one its reading names, but for the second of the two that
\* read the same.
LEMMA HourFacts ==
  ASSUME NEW h \in Hour
  PROVE  /\ Reading(h) \in Hour /\ HourStart(h) \in Hour
         /\ h # Fold + 1 => HourStart(h) = h
         /\ h = Fold + 1 => HourStart(h) = Fold
         /\ HourStart(h) <= h /\ h <= HourStart(h) + 1
         /\ InstantOf(Reading(h)) = HourStart(h)
BY Bounds DEF Reading, InstantOf, HourStart

\* A later hour starts no earlier.
LEMMA HoursGoOn ==
  ASSUME NEW h \in Hour, NEW g \in Hour, h <= g
  PROVE  HourStart(h) <= HourStart(g)
BY Bounds DEF Reading, InstantOf, HourStart

\* What a job last ran for is an instant, and never the repeated one.
LEMMA SinceFacts ==
  ASSUME TypeOK
  PROVE  /\ Since \in Int /\ Since # Fold + 1
         /\ lastRun # Never => Since \in Nat
BY Bounds DEF TypeOK, Since, InstantOf, Never

\* The hours a pass takes up are on end: from the first within reach that is
\* owed to the hour it is, and those before it are dropped.
LEMMA DueHours ==
  ASSUME TypeOK, HoursSince(lastRun) # {},
         NEW due, due = HoursSince(lastRun)
  PROVE  \E first \in Hour :
           /\ first <= HourStart(clock) /\ HourStart(clock) - first < CatchUp
           /\ \A h \in due : h \in Hour /\ (WithinReach(h) <=> h >= first)
           /\ \A h \in due : ~WithinReach(h) => h <= HourStart(clock) - CatchUp
           /\ \A h \in Hour : first <= h /\ h <= HourStart(clock) => h \in due
           /\ lastRun = Never => first = HourStart(clock) /\ due = {first}
           /\ lastRun # Never => /\ Since < first
                                 /\ \A h \in Hour : Since < h /\ h < first => h \in due
           /\ {h \in due : WithinReach(h)} = first..HourStart(clock)
<1>1. clock \in Hour /\ HourStart(clock) \in Hour /\ Since \in Int
      /\ (lastRun # Never => Since \in Nat)
  BY HourFacts, SinceFacts DEF TypeOK
<1>2. CASE lastRun = Never
  <2>1. due = {HourStart(clock)}
    BY <1>2 DEF HoursSince
  <2>2. QED
    BY <1>1, <1>2, <2>1, Bounds DEF WithinReach
<1>3. CASE lastRun # Never
  <2> DEFINE reach == HourStart(clock) - CatchUp + 1
             first == IF Since + 1 >= reach THEN Since + 1 ELSE reach
  <2>1. due = (Since + 1)..HourStart(clock) /\ Since + 1 <= HourStart(clock)
    <3>1. due = (Since + 1)..HourStart(clock)
      BY <1>3 DEF HoursSince, Since
    <3>2. HourStart(clock) \in Int
      BY <1>1, Bounds
    <3>3. QED
      BY <1>1, <3>1, <3>2
  <2>2. first \in Hour /\ first <= HourStart(clock) /\ HourStart(clock) - first < CatchUp
    BY <1>1, <1>3, <2>1, Bounds
  <2>3. \A h \in due : h \in Hour /\ (WithinReach(h) <=> h >= first)
    BY <1>1, <1>3, <2>1, Bounds DEF WithinReach
  <2>4. \A h \in due : ~WithinReach(h) => h <= HourStart(clock) - CatchUp
    BY <1>1, <1>3, <2>1, Bounds DEF WithinReach
  <2>5. \A h \in Hour : first <= h /\ h <= HourStart(clock) => h \in due
    BY <1>1, <1>3, <2>1, Bounds
  <2>6. Since < first /\ \A h \in Hour : Since < h /\ h < first => h \in due
    BY <1>1, <1>3, <2>1, <2>2, Bounds
  <2>7. {h \in due : WithinReach(h)} = first..HourStart(clock)
    BY <1>1, <2>1, <2>2, <2>3, <2>5, Bounds
  <2> HIDE DEF first
  <2>8. QED
    BY <1>3, <2>2, <2>3, <2>4, <2>5, <2>6, <2>7
<1>4. QED
  BY <1>2, <1>3

\* The hours of a stretch, oldest first.
LEMMA StretchInOrder ==
  ASSUME TypeOK, NEW first \in Hour, first <= HourStart(clock)
  PROVE  LET run == OldestFirst(first..HourStart(clock)) IN
           /\ run \in Seq(Hour) /\ Len(run) = HourStart(clock) - first + 1
           /\ run # <<>> /\ run[1] = first
           /\ \A n \in 1..Len(run) : run[n] = first + n - 1 /\ run[n] <= HourStart(clock)
<1> DEFINE now == HourStart(clock)
           long == now - first + 1
           run == [n \in 1..long |-> first + n - 1]
<1>1. now \in Hour
  BY HourFacts DEF TypeOK
<1>2. Cardinality(first..now) = long /\ long \in Nat \ {0}
  <2>1. first \in Int /\ now \in Int /\ first <= now
    BY <1>1, Bounds
  <2>2. Cardinality(first..now) = IF first > now THEN 0 ELSE now - first + 1
    BY <2>1, FS_Interval
  <2>3. QED
    BY <2>1, <2>2
<1>3. \A n \in 1..long : now - long + n = first + n - 1
  BY <1>1, <1>2, Bounds
<1>4. OldestFirst(first..now) = run
  BY <1>2, <1>3 DEF OldestFirst
<1>5. \A n \in 1..long : first + n - 1 \in Hour /\ first + n - 1 <= now
  BY <1>1, <1>2, Bounds
<1>6. run \in [1..long -> Hour]
  BY <1>5
<1>7. run \in Seq(Hour) /\ Len(run) = long
  BY <1>2, <1>6
<1>8. run # <<>>
  BY <1>2, <1>7
<1>9. run[1] = first /\ \A n \in 1..Len(run) : run[n] = first + n - 1 /\ run[n] <= now
  BY <1>1, <1>2, <1>5, <1>7, Bounds
<1>10. QED
  BY <1>4, <1>7, <1>8, <1>9

\* What a pass leaves of its hours once the first of them is over.
LEMMA RestOfPass ==
  ASSUME TypeOK, PassInv, owed # <<>>
  PROVE  /\ Head(owed) = owed[1] /\ Head(owed) \in Hour /\ Head(owed) \notin dropped
         /\ Head(owed) <= HourStart(clock)
         /\ Len(owed) >= 1 /\ Tail(owed) \in Seq(Hour) /\ Len(Tail(owed)) = Len(owed) - 1
         /\ \A n \in 1..Len(Tail(owed)) : Tail(owed)[n] = owed[n + 1]
         /\ Tail(owed) # <<>> => Tail(owed)[1] = Head(owed) + 1
<1>1. owed \in Seq(Hour) /\ Len(owed) \in Nat /\ owed \in [1..Len(owed) -> Hour]
  BY LenProperties DEF TypeOK
<1>2. Len(owed) >= 1
  BY <1>1, EmptySeq
<1>3. /\ Tail(owed) \in Seq(Hour) /\ Len(Tail(owed)) = Len(owed) - 1
      /\ \A n \in 1..Len(Tail(owed)) : Tail(owed)[n] = owed[n + 1]
  BY <1>1, HeadTailProperties
<1>4. Head(owed) = owed[1] /\ owed[1] \in Hour
  BY <1>1, <1>2
<1>5. Tail(owed) # <<>> => 1 \in 1..Len(Tail(owed)) /\ 2 \in 1..Len(owed)
  BY <1>1, <1>3, EmptySeq
<1>6. Tail(owed) # <<>> => Tail(owed)[1] = owed[1] + 1
  BY <1>1, <1>3, <1>4, <1>5, Bounds DEF PassInv
<1>7. QED
  BY <1>1, <1>2, <1>3, <1>4, <1>6 DEF PassInv

-----------------------------------------------------------------------------
\* Types, and what a pass has in hand.

LEMMA FirstTypes == Init => TypeOK /\ PassInv
<1> SUFFICES ASSUME Init PROVE TypeOK /\ PassInv
  OBVIOUS
<1>1. 0 \in Hour
  BY Bounds
<1>2. <<>> \in Seq(Hour) /\ Len(<<>>) = 0
  OBVIOUS
<1>3. TypeOK
  BY <1>1, <1>2, Bounds DEF Init, TypeOK
<1>4. PassInv
  BY <1>2 DEF Init, PassInv, AtServer
<1>5. QED
  BY <1>3, <1>4

\* The digest in hand, while a server is.
LEMMA InHandType ==
  ASSUME TypeOK, PassInv, pc \in AtServer
  PROVE  Current \in Digest /\ Current[1] = server /\ Current[2] \in Hour /\ server \in Servers
<1>1. owed # <<>> /\ server \in Servers
  BY DEF PassInv, AtServer
<1>2. Reading(Head(owed)) \in Hour
  BY <1>1, RestOfPass, HourFacts
<1>3. QED
  BY <1>1, <1>2 DEF Current, Digest

LEMMA TypeStep ==
  ASSUME TypeOK, PassInv, [Next]_vars
  PROVE  TypeOK'
<1> USE DEF clocks, servers, tables, memory, history, Fault, NextServer
<1>1. CASE Tick
  BY <1>1, DigestAssumption DEF DigestAssumption, Hour, Tick, TypeOK
<1>2. CASE Environment /\ ~Tick
  BY <1>2 DEF Environment, SwitchOn, SetChannel, TypeOK
<1>3. CASE Start
  BY <1>3 DEF Start, TypeOK
<1>4. CASE Pass
  <2> DEFINE due == HoursSince(lastRun)
  <2>1. PICK first \in Hour :
          /\ first <= HourStart(clock) /\ HourStart(clock) - first < CatchUp
          /\ \A h \in due : h \in Hour
          /\ {h \in due : WithinReach(h)} = first..HourStart(clock)
    BY <1>4, DueHours DEF Pass
  <2>2. owed' = OldestFirst(first..HourStart(clock))
    BY <1>4, <2>1 DEF Pass
  <2>3. owed' \in Seq(Hour) /\ Len(owed') = HourStart(clock) - first + 1
    BY <2>1, <2>2, StretchInOrder
  <2>4. HourStart(clock) \in Int /\ first \in Int
    BY HourFacts, Bounds DEF TypeOK
  <2>5. Len(owed') <= CatchUp
    BY <2>1, <2>3, <2>4, Bounds
  <2>6. dropped' \in SUBSET Hour
    BY <1>4, <2>1 DEF Pass, TypeOK
  <2>7. UNCHANGED <<clock, lastRun, feature, channel, row, known, pinned, todo, server, posts,
                    ran, written, faults>> /\ pc' = "list"
    BY <1>4 DEF Pass
  <2> HIDE DEF due
  <2>8. QED
    BY <2>3, <2>5, <2>6, <2>7 DEF TypeOK
<1>5. CASE ListDue \/ \E s \in Servers : TakeServer(s)
  BY <1>5 DEF ListDue, TakeServer, TypeOK
<1>6. CASE Intend \/ Post \/ MissingAccess \/ RecordPosted
  <2>1. Current \in Digest /\ server \in Servers
    BY <1>6, InHandType DEF Intend, Post, MissingAccess, RecordPosted, AtServer
  <2>2. CASE Intend
    BY <2>1, <2>2 DEF Intend, TypeOK
  <2>3. CASE Post
    BY <2>1, <2>3 DEF Post, TypeOK
  <2>4. CASE MissingAccess
    BY <2>1, <2>4 DEF MissingAccess, TypeOK
  <2>5. CASE RecordPosted
    BY <2>1, <2>5 DEF RecordPosted, TypeOK
  <2>6. QED
    BY <1>6, <2>2, <2>3, <2>4, <2>5
<1>7. CASE Unpin \/ Pin \/ Remember
  <2>1. Current[2] \in Hour /\ server \in Servers
    BY <1>7, InHandType DEF Unpin, Pin, Remember, AtServer
  <2>2. CASE Unpin
    BY <2>1, <2>2 DEF Unpin, Unpinned, TypeOK
  <2>3. CASE Pin
    BY <2>1, <2>3 DEF Pin, TypeOK
  <2>4. CASE Remember
    BY <2>1, <2>4 DEF Remember, TypeOK
  <2>5. QED
    BY <1>7, <2>2, <2>3, <2>4
<1>8. CASE HourRan
  <2>1. Head(owed) \in Hour
    BY <1>8, RestOfPass DEF HourRan, PassInv
  <2>2. QED
    BY <1>8, <2>1 DEF HourRan, TypeOK
<1>9. CASE RecordRun
  <2>1. /\ Head(owed) \in Hour /\ Tail(owed) \in Seq(Hour) /\ Len(Tail(owed)) = Len(owed) - 1
        /\ Len(owed) \in Nat
    BY <1>9, RestOfPass, LenProperties DEF RecordRun, PassInv, TypeOK
  <2>2. Reading(Head(owed)) \in Hour
    BY <2>1, HourFacts
  <2>3. Len(Tail(owed)) <= CatchUp
    BY <2>1, Bounds DEF TypeOK
  <2>4. QED
    BY <1>9, <2>1, <2>2, <2>3 DEF RecordRun, TypeOK
<1>10. CASE Failures
  <2>1. <<>> \in Seq(Hour) /\ Len(<<>>) <= CatchUp
    BY Bounds
  <2>2. faults' \in 0..MaxFaults
    BY <1>10, Bounds DEF Failures, CloseChannel, Crash, HourFails, ServerFails, RecordRunFails,
                         TypeOK
  <2>3. QED
    BY <1>10, <2>1, <2>2 DEF Failures, CloseChannel, Crash, HourFails, ServerFails,
                             RecordRunFails, AfterFailure, TypeOK
<1>11. CASE UNCHANGED vars
  BY <1>11 DEF vars, TypeOK
<1>12. QED
  BY <1>1, <1>2, <1>3, <1>4, <1>5, <1>6, <1>7, <1>8, <1>9, <1>10, <1>11
     DEF Next, Process, Environment

\* What a pass has in hand holds through what leaves its hours alone.
LEMMA PassStep ==
  ASSUME TypeOK, PassInv, [Next]_vars
  PROVE  PassInv'
<1> USE DEF clocks, servers, tables, memory, history, Fault, NextServer
<1> DEFINE Ahead == \A n \in 1..Len(owed) :
                      /\ owed[n] = owed[1] + n - 1 /\ owed[n] \notin dropped
                      /\ owed[n] <= HourStart(clock)
             Beyond == \A h \in dropped : h <= HourStart(clock) - CatchUp
<1>0. /\ Ahead /\ Beyond /\ Len(<<>>) = 0
      /\ UNCHANGED <<dropped, clock>> => Beyond'
      /\ UNCHANGED <<owed, dropped, clock>> => Ahead'
  BY DEF PassInv, HourStart, Reading, InstantOf
<1>1. CASE Tick
  <2>1. clock \in Hour /\ clock' \in Hour /\ clock <= clock'
    BY <1>1, DigestAssumption DEF DigestAssumption, Hour, Tick, TypeOK
  <2>2. HourStart(clock) <= HourStart(clock') /\ HourStart(clock) \in Hour /\ HourStart(clock') \in Hour
    BY <2>1, HoursGoOn, HourFacts
  <2>3. \A n \in 1..Len(owed) : owed[n] \in Hour
    BY LenProperties DEF TypeOK
  <2>4. \A n \in 1..Len(owed) : owed[n] <= HourStart(clock')
    BY <1>0, <2>2, <2>3, Bounds
  <2>5. Ahead'
    BY <1>0, <1>1, <2>4 DEF Tick
  <2>6. dropped \in SUBSET Hour /\ dropped' = dropped
    BY <1>1 DEF Tick, TypeOK
  <2>7. Beyond'
    BY <1>0, <2>2, <2>6, Bounds
  <2>8. QED
    BY <1>1, <2>5, <2>7 DEF Tick, PassInv, AtServer, Current
<1>2. CASE Environment /\ ~Tick
  BY <1>0, <1>2 DEF Environment, SwitchOn, SetChannel, PassInv, AtServer, Current
<1>3. CASE Start
  BY <1>0, <1>3 DEF Start, PassInv, AtServer, Current
<1>4. CASE Pass
  <2> DEFINE due == HoursSince(lastRun)
  <2>1. PICK first \in Hour :
          /\ first <= HourStart(clock)
          /\ HourStart(clock) - first < CatchUp
          /\ \A h \in due : ~WithinReach(h) => h <= HourStart(clock) - CatchUp
          /\ {h \in due : WithinReach(h)} = first..HourStart(clock)
    BY <1>4, DueHours DEF Pass
  <2>2. owed' = OldestFirst(first..HourStart(clock)) /\ pc' = "list"
    BY <1>4, <2>1 DEF Pass
  <2>3. /\ owed' # <<>> /\ owed'[1] = first
        /\ \A n \in 1..Len(owed') : owed'[n] = first + n - 1 /\ owed'[n] <= HourStart(clock)
        /\ owed' \in Seq(Hour)
    BY <2>1, <2>2, StretchInOrder
  <2>4. \A n \in 1..Len(owed') : owed'[n] >= first /\ owed'[n] \in Hour
    BY <2>3, LenProperties, Bounds
  <2>5. Beyond'
    BY <1>0, <1>4, <2>1 DEF Pass, HourStart, Reading, InstantOf
  <2>6. \A n \in 1..Len(owed') : owed'[n] \notin dropped'
    <3>1. HourStart(clock) \in Int /\ HourStart(clock') = HourStart(clock) /\ first \in Int
      BY <1>4, HourFacts, Bounds DEF Pass, TypeOK, HourStart, Reading, InstantOf
    <3>2. \A h \in dropped' : h <= HourStart(clock) - CatchUp
      BY <2>5, <3>1
    <3>3. \A h \in Hour : h >= first => ~(h <= HourStart(clock) - CatchUp)
      BY <2>1, <3>1, Bounds
    <3>4. QED
      BY <2>4, <3>2, <3>3
  <2>7. QED
    BY <1>4, <2>2, <2>3, <2>5, <2>6
       DEF Pass, PassInv, AtServer, HourStart, Reading, InstantOf
<1>5. CASE ListDue \/ \E s \in Servers : TakeServer(s)
  BY <1>0, <1>5 DEF ListDue, TakeServer, PassInv, AtServer
<1>6. CASE Intend \/ Post \/ MissingAccess \/ RecordPosted
  <2>1. Current \in Digest /\ (Current' = Current \/ pc' = "servers")
    BY <1>6, InHandType DEF Intend, Post, MissingAccess, RecordPosted, AtServer, Current
  <2>2. CASE Intend
    <3>1. CASE Settled(Current)
      BY <1>0, <2>2, <3>1 DEF Intend, PassInv, AtServer
    <3>2. CASE ~Settled(Current)
      BY <1>0, <2>1, <2>2, <3>2 DEF Intend, PassInv, AtServer, TypeOK
    <3>3. QED
      BY <3>1, <3>2
  <2>3. CASE Post
    BY <1>0, <2>1, <2>3 DEF Post, PassInv, AtServer
  <2>4. CASE MissingAccess
    BY <1>0, <2>4 DEF MissingAccess, PassInv, AtServer
  <2>5. CASE RecordPosted
    BY <1>0, <2>5 DEF RecordPosted, PassInv, AtServer
  <2>6. QED
    BY <1>6, <2>2, <2>3, <2>4, <2>5
<1>7. CASE Unpin \/ Pin \/ Remember
  BY <1>0, <1>7 DEF Unpin, Pin, Remember, PassInv, AtServer
<1>8. CASE HourRan
  <2>1. Head(owed) \in Hour /\ ran[Head(owed)] \in Nat
    BY <1>8, RestOfPass DEF HourRan, PassInv, TypeOK
  <2>2. ran'[Head(owed)] > 0
    BY <1>8, <2>1 DEF HourRan, TypeOK
  <2>3. QED
    BY <1>0, <1>8, <2>2 DEF HourRan, PassInv, AtServer
<1>9. CASE RecordRun
  <2>1. owed # <<>>
    BY <1>9 DEF RecordRun, PassInv
  <2>2. /\ Head(owed) \in Hour /\ Head(owed) = owed[1]
        /\ Len(owed) \in Nat /\ Len(Tail(owed)) = Len(owed) - 1
        /\ \A n \in 1..Len(Tail(owed)) : Tail(owed)[n] = owed[n + 1]
        /\ Tail(owed) # <<>> => Tail(owed)[1] = owed[1] + 1
        /\ Tail(owed) \in Seq(Hour)
    BY <2>1, RestOfPass, LenProperties DEF TypeOK
  <2>3. ASSUME NEW n \in 1..Len(Tail(owed))
        PROVE  /\ Tail(owed)[n] = Tail(owed)[1] + n - 1
               /\ Tail(owed)[n] \notin dropped /\ Tail(owed)[n] <= HourStart(clock)
    <3>1. n + 1 \in 1..Len(owed) /\ Tail(owed) # <<>> /\ n \in Int
      <4>1. n \in Int /\ 1 <= n /\ n <= Len(owed) - 1
        BY <2>2
      <4>2. Tail(owed) # <<>>
        BY <2>2, <4>1
      <4>3. QED
        BY <2>2, <4>1, <4>2
    <3>2. owed[n + 1] = owed[1] + (n + 1) - 1
      BY <1>0, <3>1
    <3>3. owed[1] \in Int
      BY <2>2, Bounds
    <3>4. QED
      BY <1>0, <2>2, <3>1, <3>2, <3>3
  <2>4. Ahead'
    BY <1>9, <2>3 DEF RecordRun, HourStart, Reading, InstantOf
  <2>5. QED
    BY <1>9, <2>4 DEF RecordRun, PassInv, AtServer
<1>10. CASE Failures
  BY <1>0, <1>10 DEF Failures, CloseChannel, Crash, HourFails, ServerFails, RecordRunFails,
                     AfterFailure, PassInv, AtServer, Current
<1>11. CASE UNCHANGED vars
  BY <1>0, <1>11 DEF vars, PassInv, AtServer, Current
<1>12. QED
  BY <1>1, <1>2, <1>3, <1>4, <1>5, <1>6, <1>7, <1>8, <1>9, <1>10, <1>11
     DEF Next, Process, Environment

\* Every variable keeps its range, and a pass has hours on end in hand, none of
\* them dropped before.
THEOREM TypeCorrect == Spec => [](TypeOK /\ PassInv)
<1>1. TypeOK /\ PassInv /\ [Next]_vars => (TypeOK /\ PassInv)'
  BY TypeStep, PassStep
<1>2. QED
  BY FirstTypes, <1>1, PTL DEF Spec

-----------------------------------------------------------------------------
\* The price of a digest too many.

LEMMA RepeatStep ==
  ASSUME TypeOK, PassInv, RepeatInv, [Next]_vars
  PROVE  RepeatInv'
<1> USE DEF RepeatInv, clocks, servers, tables, memory, history, Fault, NextServer
<1>0. /\ \A k \in Digest : posts[k] \in Nat
      /\ faults \in Nat
  BY Bounds DEF TypeOK
<1>1. CASE Environment \/ Start \/ Pass \/ ListDue \/ \E s \in Servers : TakeServer(s)
  BY <1>1 DEF Environment, Tick, SwitchOn, SetChannel, Start, Pass, ListDue, TakeServer, Current
<1>2. CASE Intend
  <2>1. Current \in Digest /\ (row[Current] = "posted" <=> row'[Current] = "posted")
    BY <1>2, InHandType DEF Intend, Settled, AtServer, TypeOK
  <2>2. \A k \in Digest : row[k] = "posted" <=> row'[k] = "posted"
    BY <1>2, <2>1 DEF Intend, TypeOK
  <2>3. QED
    BY <1>2, <2>2 DEF Intend
<1>3. CASE Post
  <2>1. Current \in Digest /\ row[Current] = "owed"
    BY <1>3, InHandType DEF Post, AtServer, PassInv
  <2>2. /\ posts' = [posts EXCEPT ![Current] = @ + 1]
        /\ pc = "post" /\ pc' = "record" /\ Current' = Current /\ UNCHANGED <<row, faults>>
    BY <1>3 DEF Post, Current
  <2>3. \A k \in Digest : posts'[k] = IF k = Current THEN posts[k] + 1 ELSE posts[k]
    BY <2>2 DEF TypeOK
  <2>4. posts[Current] <= faults
    BY <2>1, <2>2, <1>0
  <2>5. QED
    BY <1>0, <2>1, <2>2, <2>3, <2>4
<1>4. CASE MissingAccess \/ RecordPosted
  <2>1. Current \in Digest /\ row[Current] = "owed"
    BY <1>4, InHandType DEF MissingAccess, RecordPosted, AtServer, PassInv
  <2>2. CASE MissingAccess
    BY <1>0, <2>1, <2>2 DEF MissingAccess, TypeOK
  <2>3. CASE RecordPosted
    BY <1>0, <2>1, <2>3 DEF RecordPosted, TypeOK
  <2>4. QED
    BY <1>4, <2>2, <2>3
<1>5. CASE Unpin \/ Pin \/ Remember \/ HourRan \/ RecordRun
  BY <1>5 DEF Unpin, Pin, Remember, HourRan, RecordRun
<1>6. CASE Failures
  <2>1. CASE \E s \in Servers : CloseChannel(s)
    BY <1>0, <2>1 DEF CloseChannel, Current
  <2>2. CASE Crash \/ ServerFails \/ HourFails \/ RecordRunFails
    <3>1. faults' = faults + 1 /\ UNCHANGED <<posts, row>>
      BY <2>2 DEF Crash, ServerFails, HourFails, RecordRunFails
    <3>2. QED
      BY <1>0, <3>1
  <2>3. QED
    BY <1>6, <2>1, <2>2 DEF Failures
<1>7. CASE UNCHANGED vars
  BY <1>7 DEF vars, Current
<1>8. QED
  BY <1>1, <1>2, <1>3, <1>4, <1>5, <1>6, <1>7 DEF Next, Process, Environment

\* Pins are finite sets.
LEMMA PinnedCounts ==
  ASSUME NEW P \in SUBSET Hour, NEW d
  PROVE  /\ IsFiniteSet(P) /\ Cardinality(P) \in Nat
         /\ Cardinality(P \ {d}) \in Nat
         /\ Cardinality(P \ {d}) <= Cardinality(P)
         /\ Cardinality(P) <= Cardinality(P \ {d}) + 1
         /\ Cardinality((P \cup {d}) \ {d}) <= Cardinality(P)
<1>1. IsFiniteSet(P)
  <2>1. 0 \in Int /\ LastHour \in Int
    BY Bounds
  <2>2. IsFiniteSet(Hour)
    BY <2>1, FS_Interval DEF Hour
  <2>3. QED
    BY <2>2, FS_Subset
<1>2. /\ Cardinality(P \ {d}) = IF d \in P THEN Cardinality(P) - 1 ELSE Cardinality(P)
      /\ IsFiniteSet(P \ {d})
  BY <1>1, FS_RemoveElement
<1>3. Cardinality(P) \in Nat /\ Cardinality(P \ {d}) \in Nat
  BY <1>1, <1>2, FS_CardinalityType
<1>4. (P \cup {d}) \ {d} = P \ {d}
  OBVIOUS
<1>5. QED
  BY <1>1, <1>2, <1>3, <1>4

\* What PinInv says of one server.
PinsOf(s) ==
  /\ ~Handling(s) \/ pc \in {"intend", "post"} => Cardinality(Unpinned(s)) <= faults
  /\ Handling(s) /\ pc \in {"record", "unpin"} =>
       Cardinality(Unpinned(s)) + (IF channel[s] = "closed" THEN 1 ELSE 0) <= faults
  /\ Handling(s) /\ pc = "pin" => Cardinality(pinned[s]) <= faults
  /\ Handling(s) /\ pc = "remember" => Cardinality(pinned[s] \ {Current[2]}) <= faults

\* Whatever it is doing, an untouched server has at most one fault to pay for.
LEMMA PinsAnyhow ==
  ASSUME TypeOK, PassInv, NEW s \in Servers, PinsOf(s)
  PROVE  /\ Cardinality(Unpinned(s)) \in Nat /\ Cardinality(pinned[s]) \in Nat
         /\ Cardinality(pinned[s]) <= Cardinality(Unpinned(s)) + 1
         /\ Cardinality(Unpinned(s)) <= Cardinality(pinned[s])
         /\ Cardinality(pinned[s] \ {Current[2]}) \in Nat
         /\ Cardinality(pinned[s]) <= Cardinality(pinned[s] \ {Current[2]}) + 1
         /\ Cardinality(pinned[s]) <= faults + 1
<1>1. pinned[s] \in SUBSET Hour /\ faults \in Nat
  BY Bounds DEF TypeOK
<1>2. /\ Cardinality(Unpinned(s)) \in Nat /\ Cardinality(pinned[s]) \in Nat
      /\ Cardinality(pinned[s]) <= Cardinality(Unpinned(s)) + 1
      /\ Cardinality(Unpinned(s)) <= Cardinality(pinned[s])
  BY <1>1, PinnedCounts DEF Unpinned
<1>3. /\ Cardinality(pinned[s] \ {Current[2]}) \in Nat
      /\ Cardinality(pinned[s]) <= Cardinality(pinned[s] \ {Current[2]}) + 1
  BY <1>1, PinnedCounts
<1>4. Handling(s) => pc \in {"intend", "post", "record", "unpin", "pin", "remember"}
  BY DEF Handling, AtServer
<1>5. QED
  BY <1>1, <1>2, <1>3, <1>4 DEF PinsOf

LEMMA PinStep ==
  ASSUME TypeOK, PassInv, [Next]_vars, NEW s \in Servers, PinsOf(s)
  PROVE  PinsOf(s)'
<1> USE DEF clocks, servers, tables, memory, history, Fault, NextServer
<1>0. /\ Cardinality(Unpinned(s)) \in Nat /\ Cardinality(pinned[s]) \in Nat /\ faults \in Nat
      /\ Cardinality(pinned[s]) <= Cardinality(Unpinned(s)) + 1
      /\ Cardinality(Unpinned(s)) <= Cardinality(pinned[s])
      /\ Cardinality(pinned[s]) <= faults + 1
      /\ pinned[s] \in SUBSET Hour
  <2>1. faults \in Nat /\ pinned[s] \in SUBSET Hour
    BY Bounds DEF TypeOK
  <2>2. QED
    BY <2>1, PinsAnyhow
<1>1. ASSUME UNCHANGED <<pinned, known>> PROVE Unpinned(s)' = Unpinned(s)
  BY <1>1 DEF Unpinned
<1>2. CASE Tick \/ (\E t \in Servers : SwitchOn(t)) \/ Start \/ Pass \/ ListDue
  BY <1>1, <1>2 DEF Tick, SwitchOn, Start, Pass, ListDue, PinsOf, Handling, AtServer, Current
<1>3. CASE \E t \in Servers, state \in {"open", "unbound"} : SetChannel(t, state)
  <2>1. /\ UNCHANGED <<pinned, known, pc, server, owed, faults>>
        /\ channel'[s] = "closed" => channel[s] = "closed"
    BY <1>3 DEF SetChannel, TypeOK
  <2>2. QED
    BY <1>0, <1>1, <2>1 DEF PinsOf, Handling, AtServer, Current
<1>4. CASE \E t \in Servers : CloseChannel(t)
  <2>1. UNCHANGED <<pinned, known, pc, server, owed>> /\ faults' = faults + 1
    BY <1>4 DEF CloseChannel
  <2>2. channel'[s] = "closed" => channel[s] \in {"open", "closed"}
    BY <1>4 DEF CloseChannel, TypeOK
  <2>3. /\ UNCHANGED <<Unpinned(s), Handling(s), Current>>
    BY <1>1, <2>1 DEF Handling, Current, AtServer
  <2>4. Handling(s) /\ pc \in {"record", "unpin"} => Cardinality(Unpinned(s)) <= faults
    BY <1>0 DEF PinsOf
  <2>5. Cardinality(pinned[s] \ {Current[2]}) \in Nat
    BY PinsAnyhow
  <2>6. QED
    BY <1>0, <2>1, <2>3, <2>4, <2>5 DEF PinsOf
<1>5. CASE \E t \in Servers : TakeServer(t)
  BY <1>1, <1>5 DEF TakeServer, PinsOf, Handling, AtServer
<1>6. CASE Intend \/ MissingAccess
  BY <1>1, <1>6 DEF Intend, MissingAccess, PinsOf, Handling, AtServer
<1>7. CASE Post \/ RecordPosted
  BY <1>0, <1>1, <1>7 DEF Post, RecordPosted, PinsOf, Handling, AtServer
<1>8. CASE Unpin
  <2>1. CASE server # s
    <3>1. pinned'[s] = pinned[s]
      BY <1>8, <2>1 DEF Unpin, TypeOK
    <3>2. QED
      BY <1>8, <2>1, <3>1 DEF Unpin, PinsOf, Handling, Unpinned
  <2>2. CASE server = s
    <3>1. pinned'[s] = IF channel[s] = "closed" THEN pinned[s] ELSE Unpinned(s)
      BY <1>8, <2>2 DEF Unpin, TypeOK
    <3>2. Handling(s) /\ pc = "unpin" /\ pc' = "pin" /\ faults' = faults
      BY <1>8, <2>2 DEF Unpin, Handling, AtServer
    <3>3. Cardinality(pinned'[s]) <= faults
      BY <1>0, <3>1, <3>2 DEF PinsOf
    <3>4. QED
      BY <1>8, <2>2, <3>2, <3>3 DEF PinsOf, Handling, AtServer, Unpin
  <2>3. QED
    BY <2>1, <2>2
<1>9. CASE Pin
  <2>1. CASE server # s
    <3>1. pinned'[s] = pinned[s]
      BY <1>9, <2>1 DEF Pin, TypeOK
    <3>2. QED
      BY <1>9, <2>1, <3>1 DEF Pin, PinsOf, Handling, Unpinned
  <2>2. CASE server = s
    <3>1. pinned'[s] = IF channel[s] = "closed" THEN pinned[s] ELSE pinned[s] \cup {Current[2]}
      BY <1>9, <2>2 DEF Pin, TypeOK
    <3>2. Handling(s) /\ pc = "pin" /\ pc' = "remember" /\ faults' = faults /\ Current' = Current
      BY <1>9, <2>2 DEF Pin, Handling, AtServer, Current
    <3>3. Cardinality(pinned[s]) <= faults
      BY <3>2 DEF PinsOf
    <3>4. /\ Cardinality(pinned[s] \ {Current[2]}) <= Cardinality(pinned[s])
          /\ Cardinality((pinned[s] \cup {Current[2]}) \ {Current[2]}) <= Cardinality(pinned[s])
          /\ Cardinality(pinned[s] \ {Current[2]}) \in Nat
          /\ (pinned[s] \cup {Current[2]}) \ {Current[2]} = pinned[s] \ {Current[2]}
      BY <1>0, PinnedCounts
    <3>5. Cardinality(pinned'[s] \ {Current'[2]}) <= faults'
      <4>1. pinned'[s] \ {Current'[2]} = pinned[s] \ {Current[2]}
        BY <3>1, <3>2, <3>4
      <4>2. QED
        <5>1. Cardinality(pinned'[s] \ {Current'[2]}) = Cardinality(pinned[s] \ {Current[2]})
          BY <4>1
        <5>2. QED
          BY <1>0, <3>2, <3>3, <3>4, <5>1
    <3>6. QED
      BY <1>9, <2>2, <3>2, <3>5 DEF PinsOf, Handling, AtServer, Pin
  <2>3. QED
    BY <2>1, <2>2
<1>10. CASE Remember
  <2>1. CASE server # s
    <3>1. known'[s] = known[s] /\ UNCHANGED <<pinned, faults>>
      BY <1>10, <2>1 DEF Remember, TypeOK
    <3>2. QED
      BY <1>10, <2>1, <3>1 DEF Remember, PinsOf, Handling, Unpinned, AtServer
  <2>2. CASE server = s
    <3>1. known'[s] = Current[2] /\ UNCHANGED <<pinned, faults>> /\ pc = "remember"
          /\ pc' = "servers" /\ Handling(s)
      BY <1>10, <2>2 DEF Remember, TypeOK, Handling, AtServer
    <3>2. Unpinned(s)' = pinned[s] \ {Current[2]}
      BY <3>1 DEF Unpinned
    <3>3. QED
      BY <3>1, <3>2 DEF PinsOf, Handling, AtServer
  <2>3. QED
    BY <2>1, <2>2
<1>11. CASE HourRan \/ RecordRun
  BY <1>1, <1>11 DEF HourRan, RecordRun, PinsOf, Handling, AtServer
<1>12. CASE Crash \/ HourFails \/ ServerFails \/ RecordRunFails
  <2>1. /\ UNCHANGED <<pinned, known>> /\ faults' = faults + 1
        /\ pc' \notin AtServer
    BY <1>12 DEF Crash, HourFails, ServerFails, RecordRunFails, AtServer, AfterFailure
  <2>2. Cardinality(Unpinned(s)) <= faults + 1
    BY <1>0
  <2>3. QED
    BY <1>1, <2>1, <2>2 DEF PinsOf, Handling, AtServer
<1>13. CASE UNCHANGED vars
  BY <1>1, <1>13 DEF vars, PinsOf, Handling, AtServer, Current
<1>14. QED
  BY <1>2, <1>3, <1>4, <1>5, <1>6, <1>7, <1>8, <1>9, <1>10, <1>11, <1>12, <1>13
     DEF Next, Process, Environment, Failures

\* Whatever fails, restarts or is read twice when the clocks go back, a digest
\* repeated and a digest pinned too many have each been paid for by a fault.
THEOREM ExtrasArePaidFor == Spec => []ExtrasCostFaults
<1> DEFINE Inv == RepeatInv /\ \A s \in Servers : PinsOf(s)
<1>1. Init => Inv
  <2> SUFFICES ASSUME Init PROVE Inv
    OBVIOUS
  <2>1. ASSUME NEW s \in Servers PROVE PinsOf(s)
    <3>1. Unpinned(s) = {} /\ pc = "down" /\ faults = 0
      BY DEF Init, Unpinned
    <3>2. Cardinality({}) = 0
      BY FS_EmptySet
    <3>3. QED
      BY <3>1, <3>2 DEF PinsOf, Handling, AtServer
  <2>2. RepeatInv
    BY DEF Init, RepeatInv
  <2>3. QED
    BY <2>1, <2>2
<1>2. TypeOK /\ PassInv /\ Inv /\ [Next]_vars => Inv'
  <2> SUFFICES ASSUME TypeOK, PassInv, Inv, [Next]_vars PROVE Inv'
    OBVIOUS
  <2>1. RepeatInv'
    BY RepeatStep
  <2>2. ASSUME NEW s \in Servers PROVE PinsOf(s)'
    BY PinStep
  <2>3. QED
    BY <2>1, <2>2
<1>3. TypeOK /\ PassInv /\ Inv => ExtrasCostFaults
  <2> SUFFICES ASSUME TypeOK, PassInv, Inv PROVE ExtrasCostFaults
    OBVIOUS
  <2>1. RepeatsCostFaults
    BY Bounds DEF RepeatInv, RepeatsCostFaults, TypeOK
  <2>2. PinsCostFaults
    <3>1. ASSUME NEW s \in Servers PROVE Cardinality(pinned[s]) <= 1 + faults
      <4>1. Cardinality(pinned[s]) <= faults + 1 /\ Cardinality(pinned[s]) \in Nat
        BY PinsAnyhow
      <4>2. faults \in Nat
        BY Bounds DEF TypeOK
      <4>3. QED
        BY <4>1, <4>2
    <3>2. QED
      BY <3>1 DEF PinsCostFaults
  <2>3. QED
    BY <2>1, <2>2 DEF ExtrasCostFaults
<1>4. QED
  BY <1>1, <1>2, <1>3, TypeCorrect, PTL DEF Spec

-----------------------------------------------------------------------------
\* The order of the hours.

\* What the hour about to run, or just run, is to the hours before and after.
LEMMA HeadAhead ==
  ASSUME TypeOK, PassInv, RunInv, owed # <<>>
  PROVE  /\ lastRun # Never => Head(owed) \notin written \/ Head(owed) = Fold + 1
         /\ ran[Head(owed)] = 0 => \A g \in Hour : g > Head(owed) => ran[g] = 0
         /\ \A f \in written, h \in Hour :
              f < h /\ h < Head(owed) => ran[h] > 0 \/ h \in dropped
<1>1. Head(owed) \in Hour /\ Head(owed) \notin dropped
  BY RestOfPass
<1>2. Since \in Int /\ ran \in [Hour -> Nat] /\ written \in SUBSET Hour
  BY SinceFacts DEF TypeOK
<1>3. CASE lastRun = Never
  BY <1>1, <1>2, <1>3 DEF RunInv
<1>4. CASE lastRun # Never
  <2>1. Since < Head(owed) /\ OnlyDroppedBefore(Head(owed))
    BY <1>4 DEF RunInv
  <2>2. Head(owed) \notin written \/ Head(owed) = Fold + 1
    BY <1>1, <1>2, <1>4, <2>1, Bounds DEF RunInv
  <2>3. ASSUME ran[Head(owed)] = 0, NEW g \in Hour, g > Head(owed), ran[g] # 0
        PROVE  FALSE
    <3>1. ran[g] > 0
      BY <1>2, <2>3
    <3>2. OnlyDroppedBefore(g)
      BY <1>4, <3>1 DEF RunInv
    <3>3. Head(owed) \in dropped \/ ran[Head(owed)] > 0
      BY <1>1, <2>1, <2>3, <3>2 DEF OnlyDroppedBefore
    <3>4. QED
      BY <1>1, <2>3, <3>3
  <2>4. ASSUME NEW f \in written, NEW h \in Hour, f < h, h < Head(owed)
        PROVE  ran[h] > 0 \/ h \in dropped
    <3>1. CASE h <= Since
      BY <1>4, <2>4, <3>1 DEF RunInv
    <3>2. CASE Since < h
      BY <2>1, <2>4, <3>2 DEF OnlyDroppedBefore
    <3>3. QED
      BY <1>2, <3>1, <3>2, Bounds
  <2>5. QED
    BY <2>2, <2>3, <2>4
<1>5. QED
  BY <1>3, <1>4

\* The hours stay in order through a step that runs none and writes none down.
LEMMA RunFrame ==
  ASSUME TypeOK, RunInv, UNCHANGED <<lastRun, ran, written, dropped>>,
         owed' = owed \/ owed' = <<>>, HourStart(clock) <= HourStart(clock'), clock' \in Hour
  PROVE  RunInv'
<1>1. /\ HourStart(clock) \in Int /\ HourStart(clock') \in Int /\ Since' = Since
      /\ \A h \in Hour : h \in Int
  BY HourFacts, Bounds DEF TypeOK, Since, InstantOf
<1>2. \A h : OnlyDroppedBefore(h) => OnlyDroppedBefore(h)'
  BY <1>1 DEF OnlyDroppedBefore
<1>3. \A h \in Hour : ran'[h] > 0 => h <= HourStart(clock')
  BY <1>1 DEF RunInv
<1>4. Len(<<>>) = 0 /\ (HourStart(clock))' = HourStart(clock')
  BY DEF HourStart, Reading, InstantOf
<1>5. (lastRun = Never =>
         /\ written = {}
         /\ Len(owed) <= 1
         /\ owed # <<>> => \A h \in Hour : h > Head(owed) => ran[h] = 0)'
  BY <1>4 DEF RunInv
<1>6. (lastRun # Never =>
         /\ \A h \in written : h <= Since \/ h = Fold + 1
         /\ \A f \in written, h \in Hour : f < h /\ h <= Since => ran[h] > 0 \/ h \in dropped
         /\ \A h \in Hour : ran[h] > 0 => OnlyDroppedBefore(h)
         /\ owed # <<>> => Since < Head(owed) /\ OnlyDroppedBefore(Head(owed)))'
  BY <1>1, <1>2 DEF RunInv
<1>7. QED
  BY <1>3, <1>4, <1>5, <1>6 DEF RunInv

LEMMA RunAtPass ==
  ASSUME TypeOK, PassInv, RunInv, Pass
  PROVE  RunInv'
<1> DEFINE due == HoursSince(lastRun)
<1>1. PICK first \in Hour :
        /\ first <= HourStart(clock)
        /\ \A h \in due : WithinReach(h) <=> h >= first
        /\ lastRun = Never => first = HourStart(clock)
        /\ lastRun # Never => /\ Since < first
                              /\ \A h \in Hour : Since < h /\ h < first => h \in due
        /\ {h \in due : WithinReach(h)} = first..HourStart(clock)
  BY DueHours DEF Pass
<1>2. /\ owed' = OldestFirst(first..HourStart(clock))
      /\ dropped' = dropped \cup {h \in due : ~WithinReach(h)}
      /\ UNCHANGED <<clock, lastRun, ran, written>>
  BY <1>1 DEF Pass, clocks
<1>3. owed' # <<>> /\ Head(owed') = first /\ Len(owed') = HourStart(clock) - first + 1
  BY <1>1, <1>2, StretchInOrder
<1>4. HourStart(clock) \in Int /\ first \in Int /\ Since \in Int /\ \A h \in Hour : h \in Int
  BY HourFacts, SinceFacts, Bounds DEF TypeOK
<1>5. Since' = Since /\ (HourStart(clock))' = HourStart(clock) /\ dropped \subseteq dropped'
  BY <1>2 DEF Since, InstantOf, HourStart, Reading
<1> HIDE DEF due
<1>6. \A h \in Hour : OnlyDroppedBefore(h) => OnlyDroppedBefore(h)'
  BY <1>2, <1>5 DEF OnlyDroppedBefore
<1>7. lastRun # Never => OnlyDroppedBefore(first)'
  <2> SUFFICES ASSUME lastRun # Never, NEW g \in Hour, Since < g, g < first
               PROVE  g \in dropped'
    BY <1>5 DEF OnlyDroppedBefore
  <2>1. g \in due /\ ~(g >= first)
    BY <1>1, <1>4
  <2>2. QED
    BY <1>1, <1>2, <2>1
<1>8. lastRun = Never => /\ written = {} /\ Len(owed') <= 1
                         /\ \A h \in Hour : h > first => ran[h] = 0
  <2>1. \A h \in Hour : ran[h] \in Nat
    BY DEF TypeOK
  <2>2. lastRun = Never => Len(owed') <= 1
    BY <1>1, <1>3, <1>4
  <2>3. \A h \in Hour : lastRun = Never /\ h > first => ~(ran[h] > 0)
    BY <1>1, <1>4 DEF RunInv
  <2>4. QED
    BY <2>1, <2>2, <2>3 DEF RunInv
<1>9. QED
  BY <1>1, <1>2, <1>3, <1>5, <1>6, <1>7, <1>8 DEF RunInv

LEMMA RunAtHourRan ==
  ASSUME TypeOK, PassInv, RunInv, HourRan
  PROVE  RunInv'
<1>1. /\ Head(owed) \in Hour /\ Head(owed) <= HourStart(clock) /\ owed # <<>>
  BY RestOfPass DEF HourRan, PassInv
<1>2. UNCHANGED <<clock, lastRun, owed, written, dropped>>
  BY DEF HourRan, clocks
<1>3. \A h \in Hour : ran'[h] = IF h = Head(owed) THEN ran[h] + 1 ELSE ran[h]
  BY <1>1 DEF HourRan, TypeOK
<1>4. \A h \in Hour : ran[h] \in Nat /\ h \in Int
  BY Bounds DEF TypeOK
<1>5. Since' = Since /\ (HourStart(clock))' = HourStart(clock)
  BY <1>2 DEF Since, InstantOf, HourStart, Reading
<1>6. \A h : OnlyDroppedBefore(h) => OnlyDroppedBefore(h)'
  BY <1>2, <1>3, <1>4, <1>5 DEF OnlyDroppedBefore
<1>7. \A h \in Hour : ran[h] > 0 => ran'[h] > 0
  BY <1>3, <1>4
<1>8. (lastRun = Never =>
         /\ written = {}
         /\ Len(owed) <= 1
         /\ owed # <<>> => \A h \in Hour : h > Head(owed) => ran[h] = 0)'
  BY <1>1, <1>2, <1>3, Bounds DEF RunInv
<1>9. (lastRun # Never =>
         /\ \A h \in written : h <= Since \/ h = Fold + 1
         /\ \A f \in written, h \in Hour : f < h /\ h <= Since => ran[h] > 0 \/ h \in dropped
         /\ \A h \in Hour : ran[h] > 0 => OnlyDroppedBefore(h)
         /\ owed # <<>> => Since < Head(owed) /\ OnlyDroppedBefore(Head(owed)))'
  <2> SUFFICES ASSUME lastRun # Never
               PROVE  /\ \A h \in written : h <= Since \/ h = Fold + 1
                      /\ \A f \in written, h \in Hour :
                           f < h /\ h <= Since => ran'[h] > 0 \/ h \in dropped
                      /\ \A h \in Hour : ran'[h] > 0 => OnlyDroppedBefore(h)'
                      /\ Since < Head(owed) /\ OnlyDroppedBefore(Head(owed))'
    BY <1>2, <1>5
  <2>1. \A h \in written : h <= Since \/ h = Fold + 1
    BY DEF RunInv
  <2>2. \A f \in written, h \in Hour : f < h /\ h <= Since => ran'[h] > 0 \/ h \in dropped
    BY <1>7 DEF RunInv
  <2>3. Since < Head(owed) /\ OnlyDroppedBefore(Head(owed))
    BY <1>1 DEF RunInv
  <2>4. \A h \in Hour : ran'[h] > 0 => OnlyDroppedBefore(h)'
    BY <1>3, <1>6, <2>3 DEF RunInv
  <2>5. QED
    BY <1>2, <1>6, <2>1, <2>2, <2>3, <2>4
<1>10. \A h \in Hour : ran'[h] > 0 => h <= HourStart(clock)
  BY <1>1, <1>3 DEF RunInv
<1>11. QED
  BY <1>5, <1>8, <1>9, <1>10 DEF RunInv

LEMMA RunAtRecordRun ==
  ASSUME TypeOK, PassInv, RunInv, RecordRun
  PROVE  RunInv'
<1> DEFINE H == Head(owed)
           S == HourStart(H)
<1>1. /\ owed # <<>> /\ H \in Hour /\ ran[H] > 0
      /\ Tail(owed) # <<>> => Tail(owed)[1] = H + 1
      /\ Tail(owed) \in Seq(Hour)
  BY RestOfPass DEF RecordRun, PassInv
<1>2. /\ lastRun' = Reading(H) /\ written' = written \cup {H} /\ owed' = Tail(owed)
      /\ UNCHANGED <<clock, ran, dropped>>
  BY DEF RecordRun
<1>3. /\ S \in Hour /\ S <= H /\ H <= S + 1
      /\ H # Fold + 1 => S = H
      /\ H = Fold + 1 => S = Fold
      /\ Since' = S /\ lastRun' # Never
  BY <1>1, <1>2, HourFacts, Bounds DEF Since, InstantOf, Never
<1>4. /\ Since \in Int /\ \A h \in Hour : h \in Int
      /\ (HourStart(clock))' = HourStart(clock) /\ written \in SUBSET Hour
      /\ Fold \in Int
  BY <1>2, SinceFacts, Bounds DEF HourStart, Reading, InstantOf, TypeOK
<1>5. lastRun # Never => Since <= S /\ Since < H /\ OnlyDroppedBefore(H)
  BY <1>1, <1>3, <1>4 DEF RunInv
<1> HIDE DEF H, S
<1>6. \A h \in written' : h <= S \/ h = Fold + 1
  BY <1>1, <1>2, <1>3, <1>4, <1>5 DEF RunInv
<1>7. ASSUME NEW f \in written', NEW h \in Hour, f < h, h <= S
      PROVE  ran[h] > 0 \/ h \in dropped
  <2>1. f # H /\ f \in written /\ lastRun # Never
    BY <1>1, <1>2, <1>3, <1>4, <1>7 DEF RunInv
  <2>2. CASE h <= Since
    BY <1>7, <2>1, <2>2 DEF RunInv
  <2>3. CASE Since < h /\ h < H
    BY <1>5, <2>1, <2>3 DEF OnlyDroppedBefore
  <2>4. CASE h = H
    BY <1>1, <2>4
  <2>5. QED
    BY <1>1, <1>3, <1>4, <1>7, <2>2, <2>3, <2>4
<1>8. ASSUME NEW g \in Hour, ran[g] > 0, NEW h \in Hour, S < h, h < g
      PROVE  h \in dropped \/ (h = Fold + 1 /\ S = Fold /\ ran[h] > 0)
  <2>1. lastRun # Never
    BY <1>1, <1>3, <1>4, <1>8 DEF RunInv, H
  <2>2. Since < h /\ OnlyDroppedBefore(g)
    BY <1>4, <1>3, <1>5, <1>8, <2>1 DEF RunInv
  <2>3. h \in dropped \/ (h = Fold + 1 /\ Since = Fold /\ ran[h] > 0)
    BY <1>8, <2>2 DEF OnlyDroppedBefore
  <2>4. Since = Fold /\ h = Fold + 1 => S = Fold
    BY <1>3, <1>4, <1>5, <1>8, <2>1
  <2>5. QED
    BY <2>3, <2>4
<1>9. ASSUME Tail(owed) # <<>>
      PROVE  /\ S < Head(Tail(owed))
             /\ \A h \in Hour : S < h /\ h < Head(Tail(owed)) =>
                  h \in dropped \/ (h = Fold + 1 /\ S = Fold /\ ran[h] > 0)
  <2>1. Head(Tail(owed)) = H + 1
    BY <1>1, <1>9
  <2>2. \A h \in Hour : S < h /\ h < H + 1 => h = H /\ H = Fold + 1 /\ S = Fold
    BY <1>1, <1>3, <1>4
  <2>3. S < H + 1
    BY <1>1, <1>3, <1>4
  <2>4. QED
    BY <1>1, <2>1, <2>2, <2>3
<1>10. (\A h \in Hour : ran[h] > 0 => OnlyDroppedBefore(h))'
  BY <1>2, <1>3, <1>8 DEF OnlyDroppedBefore
<1>11. (owed # <<>> => Since < Head(owed) /\ OnlyDroppedBefore(Head(owed)))'
  BY <1>2, <1>3, <1>9 DEF OnlyDroppedBefore
<1>12. (\A h \in Hour : ran[h] > 0 => h <= HourStart(clock))'
  BY <1>2, <1>4 DEF RunInv
<1>13. QED
  BY <1>2, <1>3, <1>6, <1>7, <1>10, <1>11, <1>12 DEF RunInv

LEMMA RunStep ==
  ASSUME TypeOK, PassInv, RunInv, TypeOK', [Next]_vars
  PROVE  RunInv'
<1> USE DEF clocks, servers, tables, memory, history
<1>1. CASE Pass \/ HourRan \/ RecordRun
  BY <1>1, RunAtPass, RunAtHourRan, RunAtRecordRun
<1>2. CASE ~(Pass \/ HourRan \/ RecordRun)
  <2>1. /\ UNCHANGED <<lastRun, ran, written, dropped>>
        /\ owed' = owed \/ owed' = <<>>
        /\ clock' = clock \/ clock' = clock + 1
    BY <1>2 DEF Next, Process, Environment, Failures, Tick, SwitchOn, SetChannel, CloseChannel,
       Crash, Start, ListDue, HourFails, AfterFailure, TakeServer, Intend, Post, MissingAccess,
       RecordPosted, Unpin, Pin, Remember, ServerFails, RecordRunFails, vars
  <2>2. clock \in Hour /\ clock' \in Hour /\ clock <= clock'
    BY <2>1, Bounds DEF TypeOK
  <2>3. HourStart(clock) <= HourStart(clock')
    BY <2>2, HoursGoOn
  <2>4. QED
    BY <2>1, <2>2, <2>3, RunFrame
<1>3. QED
  BY <1>1, <1>2

\* No hour is passed over by a step.
LEMMA PassedOverStep ==
  ASSUME TypeOK, PassInv, RunInv, NoHourPassedOver, [Next]_vars
  PROVE  NoHourPassedOver'
<1> USE DEF clocks, servers, tables, memory, history
<1>0. ran \in [Hour -> Nat] /\ written \in SUBSET Hour /\ Since \in Int /\ \A h \in Hour : h \in Int
  BY SinceFacts, Bounds DEF TypeOK
<1>1. CASE Pass
  <2>1. UNCHANGED <<ran, written>> /\ dropped \subseteq dropped'
    BY <1>1 DEF Pass
  <2>2. QED
    BY <2>1 DEF NoHourPassedOver
<1>2. CASE HourRan
  <2>1. Head(owed) \in Hour /\ owed # <<>>
    BY <1>2, RestOfPass DEF HourRan, PassInv
  <2>2. /\ \A h \in Hour : ran'[h] = IF h = Head(owed) THEN ran[h] + 1 ELSE ran[h]
        /\ UNCHANGED <<written, dropped>>
    BY <1>0, <1>2, <2>1 DEF HourRan
  <2>3. \A f \in written, h \in Hour : f < h /\ h < Head(owed) => ran[h] > 0 \/ h \in dropped
    BY <2>1, HeadAhead
  <2>4. QED
    BY <1>0, <2>1, <2>2, <2>3 DEF NoHourPassedOver
<1>3. CASE RecordRun
  <2>1. Head(owed) \in Hour /\ owed # <<>>
    BY <1>3, RestOfPass DEF RecordRun, PassInv
  <2>2. written' = written \cup {Head(owed)} /\ UNCHANGED <<ran, dropped>>
    BY <1>3 DEF RecordRun
  <2>3. ASSUME NEW h \in Hour, NEW g \in Hour, Head(owed) < h, h < g, ran[g] > 0
        PROVE  ran[h] > 0 \/ h \in dropped
    <3>1. lastRun # Never /\ Since < Head(owed) /\ OnlyDroppedBefore(g)
      BY <1>0, <2>1, <2>3 DEF RunInv
    <3>2. Since < h
      BY <1>0, <2>1, <2>3, <3>1
    <3>3. QED
      BY <2>3, <3>1, <3>2 DEF OnlyDroppedBefore
  <2>4. QED
    BY <2>2, <2>3 DEF NoHourPassedOver
<1>4. CASE ~(Pass \/ HourRan \/ RecordRun)
  <2>1. UNCHANGED <<ran, written, dropped>>
    BY <1>4 DEF Next, Process, Environment, Failures, Tick, SwitchOn, SetChannel, CloseChannel,
       Crash, Start, ListDue, HourFails, AfterFailure, TakeServer, Intend, Post, MissingAccess,
       RecordPosted, Unpin, Pin, Remember, ServerFails, RecordRunFails, vars
  <2>2. QED
    BY <2>1 DEF NoHourPassedOver
<1>5. QED
  BY <1>1, <1>2, <1>3, <1>4

\* The job runs like a clock that may stop and catches up: no hour is passed
\* over but for those too long ago to catch up, the oldest owed is run first,
\* and an hour written down is not run again, but for the one the clock repeats.
THEOREM HoursAreKept == Spec => HoursRunInOrder
<1>1. Init => RunInv /\ NoHourPassedOver
  BY DEF Init, RunInv, NoHourPassedOver, Never
<1>2. /\ TypeOK /\ PassInv /\ TypeOK' /\ RunInv /\ NoHourPassedOver /\ [Next]_vars
      => (RunInv /\ NoHourPassedOver)'
  BY RunStep, PassedOverStep
<1>3. ASSUME TypeOK, PassInv, RunInv, [Next]_vars, NEW h \in Hour, ran'[h] # ran[h]
      PROVE  /\ owed # <<>> /\ h = Head(owed)
             /\ h \notin written \/ h = Fold + 1
             /\ ran[h] = 0 => \A g \in Hour : g > h => ran[g] = 0
  <2>1. HourRan
    BY <1>3 DEF Next, Process, Environment, Failures, Tick, SwitchOn, SetChannel, CloseChannel,
       Crash, Start, Pass, ListDue, HourFails, TakeServer, Intend, Post, MissingAccess,
       RecordPosted, Unpin, Pin, Remember, ServerFails, RecordRun, RecordRunFails, vars,
       clocks, servers, tables, memory, history
  <2>2. owed # <<>> /\ Head(owed) \in Hour
    BY <1>3, <2>1, RestOfPass DEF HourRan, PassInv
  <2>3. h = Head(owed)
    BY <1>3, <2>1, <2>2 DEF HourRan, TypeOK
  <2>4. QED
    BY <1>3, <2>2, <2>3, HeadAhead DEF RunInv
<1>4. TypeOK /\ PassInv /\ RunInv /\ [Next]_vars
        => [\A h \in Hour : ran[h] = 0 /\ ran'[h] > 0 =>
              \A g \in Hour : g > h => ran[g] = 0]_vars
  BY <1>3
<1>5. TypeOK /\ PassInv /\ RunInv /\ [Next]_vars
        => [\A h \in written \ {Fold + 1} : ran'[h] = ran[h]]_vars
  BY <1>3 DEF TypeOK
<1>6. QED
  BY <1>1, <1>2, <1>4, <1>5, TypeCorrect, PTL
     DEF Spec, HoursRunInOrder, HoursInOrder, WrittenHourIsOver
=============================================================================
