------------------------ MODULE OutboxConsumerProofs ------------------------
(***************************************************************************)
(* Proofs about OutboxConsumer: its type invariant, the order in which     *)
(* entries are finished and posted, the price of a repeated post, and that *)
(* the consumer implements OutboxPromise.                                  *)
(***************************************************************************)
EXTENDS OutboxConsumer, TLAPS

-----------------------------------------------------------------------------
\* Types, and what the process has in hand.

LEMMA TypeInit == Init => TypeOK /\ InHand
BY ConsumerAssumption
   DEF Init, TypeOK, InHand, Idle, Polling, Handling, NoCursor, NoStamp, Entry, Key

LEMMA TypeStep ==
  ASSUME TypeOK, InHand, [Next]_vars
  PROVE  TypeOK'
<1> USE ConsumerAssumption
    DEF TypeOK, Idle, Polling, Handling, NoCursor, NoStamp, Entry, Key, table, memory
<1>0. pc \in Polling => entry \in Entry /\ attempts[entry] \in 0..(MaxAttempts - 1)
  BY DEF InHand
<1>1. CASE Publish
  BY <1>1 DEF Publish
<1>2. CASE Start
  BY <1>2 DEF Start
<1>3. CASE DrainPending
  BY <1>3 DEF DrainPending, RewindTo, LesserOf
<1>4. CASE Poll
  BY <1>4 DEF Poll, FirstOfPage, ReadCursor, LesserOf
<1>5. CASE Begin
  <2>1. Audience[entry] \in SUBSET (SUBSET Targets)
    BY <1>0, <1>5 DEF Begin
  <2>2. todo' \in SUBSET Targets
    BY <1>5, <2>1 DEF Begin
  <2>3. outcome' \in [Entry -> {"none", "handled", "unhandled", "skipped"}]
    BY <1>5 DEF Begin
  <2>4. QED
    BY <1>5, <2>2, <2>3 DEF Begin
<1>6. ASSUME NEW t \in Targets, Intend(t) PROVE TypeOK'
  BY <1>6 DEF Intend, Settled
<1>7. CASE Post \/ AnswerLost
  <2>1. posts' = [posts EXCEPT ![Current] = @ + 1]
    BY <1>7 DEF Post, AnswerLost
  <2>2. Current \in Key
    BY <1>0, <1>7 DEF Post, AnswerLost, InHand, Current
  <2>3. posts' \in [Key -> Nat]
    BY <2>1, <2>2
  <2>4. CASE Post
    BY <2>4, <2>3 DEF Post
  <2>5. CASE AnswerLost
    BY <2>5, <2>3 DEF AnswerLost, Fault
  <2>6. QED
    BY <1>7, <2>4, <2>5
<1>8. CASE RecordPosted
  BY <1>8 DEF RecordPosted, Current
<1>9. CASE MissingAccess
  BY <1>9 DEF MissingAccess
<1>10. CASE Abandon
  BY <1>10 DEF Abandon, Current
<1>11. CASE PoisonedPost
  BY <1>11 DEF PoisonedPost
<1>12. CASE HandlerReturns
  <2>1. attempts' \in [Entry -> 0..(MaxAttempts - 1)]
    BY <1>12, 0 \in 0..(MaxAttempts - 1) DEF HandlerReturns
  <2>2. QED
    BY <1>12, <2>1 DEF HandlerReturns
<1>13. CASE HandlerThrew
  <2>1. CASE GivesUp(entry)
    <3>1. attempts' = [attempts EXCEPT ![entry] = 0]
      BY <1>13, <2>1 DEF HandlerThrew
    <3>2. attempts' \in [Entry -> 0..(MaxAttempts - 1)]
      BY <3>1, 0 \in 0..(MaxAttempts - 1)
    <3>3. QED
      BY <1>13, <2>1, <3>2 DEF HandlerThrew, AfterGivingUp
  <2>2. CASE ~GivesUp(entry)
    <3>1. attempts[entry] + 1 \in 0..(MaxAttempts - 1)
      BY <1>0, <1>13, <2>2 DEF HandlerThrew, GivesUp
    <3>2. attempts' = [attempts EXCEPT ![entry] = attempts[entry] + 1]
      BY <1>13, <2>2 DEF HandlerThrew
    <3>3. attempts' \in [Entry -> 0..(MaxAttempts - 1)]
      BY <3>1, <3>2
    <3>4. QED
      BY <1>13, <2>2, <3>3 DEF HandlerThrew, AfterFailure, AfterGivingUp
  <2>3. QED
    BY <2>1, <2>2
<1>14. CASE Advance
  BY <1>14 DEF Advance
<1>15. CASE Crash
  BY <1>15 DEF Crash, Fault
<1>16. CASE DrainFails \/ CallFails \/ AdvanceFails
  BY <1>16 DEF DrainFails, CallFails, AdvanceFails, Fault
<1>17. CASE StampRead
  BY <1>17 DEF StampRead
<1>18. CASE StampWrite
  BY <1>18 DEF StampWrite
<1>19. CASE UNCHANGED vars
  BY <1>19 DEF vars
<1>20. QED
  BY <1>1, <1>2, <1>3, <1>4, <1>5, <1>6, <1>7, <1>8, <1>9, <1>10, <1>11, <1>12,
     <1>13, <1>14, <1>15, <1>16, <1>17, <1>18, <1>19
     DEF Next, Process, Failures

LEMMA InHandStep ==
  ASSUME TypeOK, InHand, [Next]_vars
  PROVE  InHand'
<1> USE ConsumerAssumption
    DEF TypeOK, InHand, Idle, Polling, Handling, NoCursor, NoStamp, Entry, Key,
        Current, table, memory
<1>1. CASE Publish \/ StampRead \/ StampWrite
  BY <1>1 DEF Publish, StampRead, StampWrite
<1>2. CASE Start \/ DrainPending
  BY <1>2 DEF Start, DrainPending
<1>3. CASE Poll
  BY <1>3 DEF Poll, FirstOfPage, ReadCursor, LesserOf
<1>4. CASE Begin
  BY <1>4 DEF Begin
<1>5. ASSUME NEW t \in Targets, Intend(t) PROVE InHand'
  BY <1>5 DEF Intend, Settled
<1>6. CASE Post
  BY <1>6 DEF Post
<1>7. CASE RecordPosted \/ Abandon \/ MissingAccess
  BY <1>7 DEF RecordPosted, Abandon, MissingAccess
<1>8. CASE PoisonedPost \/ HandlerReturns
  BY <1>8 DEF PoisonedPost, HandlerReturns
<1>9. CASE HandlerThrew
  BY <1>9 DEF HandlerThrew, AfterFailure, AfterGivingUp
<1>10. CASE Advance
  BY <1>10 DEF Advance
<1>11. CASE Failures
  BY <1>11 DEF Failures, Crash, DrainFails, CallFails, AnswerLost, AdvanceFails
<1>12. CASE UNCHANGED vars
  BY <1>12 DEF vars
<1>13. QED
  BY <1>1, <1>2, <1>3, <1>4, <1>5, <1>6, <1>7, <1>8, <1>9, <1>10, <1>11, <1>12
     DEF Next, Process

\* Every state has the declared types, and a poll in flight holds an entry of
\* its page and, while a post is in flight, a target whose row is owed.
THEOREM TypeCorrect == Spec => [](TypeOK /\ InHand)
<1>1. TypeOK /\ InHand /\ [Next]_vars => (TypeOK /\ InHand)'
  BY TypeStep, InHandStep
<1>2. QED
  BY TypeInit, <1>1, PTL DEF Spec
-----------------------------------------------------------------------------
\* The order in which entries are finished and posted.

LEMMA OrderInit == Init => OrderInv
BY DEF Init, OrderInv, CursorCoversFinished, NoOvertaking, Passed, Polling, Handling,
       NoCursor, NoStamp, Entry, Key

LEMMA OrderStep ==
  ASSUME TypeOK, InHand, OrderInv, [Next]_vars
  PROVE  OrderInv'
<1> USE ConsumerAssumption
    DEF TypeOK, OrderInv, CursorCoversFinished, NoOvertaking, Passed,
        Polling, Handling, NoCursor, NoStamp, Entry, Key, table, memory
<1>1. CASE Publish \/ StampRead \/ StampWrite
  <2>1. CASE Publish
    BY <2>1 DEF Publish
  <2>2. CASE StampRead
    BY <2>2 DEF StampRead
  <2>3. CASE StampWrite
    BY <2>3 DEF StampWrite
  <2>4. QED
    BY <1>1, <2>1, <2>2, <2>3
<1>2. CASE Start \/ DrainPending
  <2>1. CASE Start
    BY <2>1 DEF Start
  <2>2. CASE DrainPending
    <3>1. cursorRow' \in Int /\ cursorRow' <= cursorRow /\ NoStamp <= cursorRow'
      BY <2>2 DEF DrainPending, RewindTo, LesserOf
    <3>2. QED
      BY <2>2, <3>1 DEF DrainPending
  <2>3. QED
    BY <1>2, <2>1, <2>2
<1>3. CASE Poll
  BY <1>3 DEF Poll, FirstOfPage, ReadCursor, LesserOf
<1>4. CASE Begin
  BY <1>4 DEF Begin, InHand
<1>5. ASSUME NEW t \in Targets, Intend(t) PROVE OrderInv'
  BY <1>5 DEF Intend, Settled
<1>6. CASE Post \/ AnswerLost
  <2>1. /\ Current \in Key /\ Current[1] = entry
        /\ posts' = [posts EXCEPT ![Current] = @ + 1]
    BY <1>6 DEF Post, AnswerLost, InHand, Current
  <2>2. \A k \in Key : posts'[k] > 0 => posts[k] > 0 \/ k[1] = entry
    BY <2>1
  <2>3. pc \in Polling
    BY <1>6 DEF Post, AnswerLost
  <2>4. /\ UNCHANGED <<outcome, cursorRow, stamp, entry>>
        /\ pc' \in {"record", "threw"}
    BY <1>6 DEF Post, AnswerLost
  <2>5. NoOvertaking'
    BY <2>2, <2>3, <2>4
  <2>6. QED
    BY <2>3, <2>4, <2>5
<1>7. CASE RecordPosted \/ Abandon \/ MissingAccess
  BY <1>7 DEF RecordPosted, Abandon, MissingAccess
<1>8. CASE PoisonedPost
  BY <1>8 DEF PoisonedPost
<1>9. CASE HandlerReturns
  BY <1>9 DEF HandlerReturns, InHand
<1>10. CASE HandlerThrew
  BY <1>10 DEF HandlerThrew, AfterFailure, AfterGivingUp, InHand
<1>11. CASE Advance
  BY <1>11 DEF Advance, InHand
<1>12. CASE Crash \/ DrainFails \/ CallFails \/ AdvanceFails
  <2>1. CASE Crash
    BY <2>1 DEF Crash
  <2>2. CASE DrainFails \/ CallFails \/ AdvanceFails
    BY <2>2 DEF DrainFails, CallFails, AdvanceFails
  <2>3. QED
    BY <1>12, <2>1, <2>2
<1>13. CASE UNCHANGED vars
  BY <1>13 DEF vars
<1>14. QED
  BY <1>1, <1>2, <1>3, <1>4, <1>5, <1>6, <1>7, <1>8, <1>9, <1>10, <1>11, <1>12, <1>13
     DEF Next, Process, Failures

\* The inductive form of the two properties below.
LEMMA OrderCorrect == Spec => []OrderInv
<1>1. OrderInv /\ TypeOK /\ InHand /\ [Next]_vars => OrderInv'
  BY OrderStep
<1>2. QED
  BY OrderInit, <1>1, TypeCorrect, PTL DEF Spec

\* The cursor never passes an entry that no handling has finished, whatever
\* crashes, rewinds and re-stamps there are.
THEOREM CursorIsSafe == Spec => []CursorCoversFinished
BY OrderCorrect, PTL DEF OrderInv

\* Nothing of an entry is posted before every earlier entry is finished.
THEOREM PostsInOrder == Spec => []NoOvertaking
BY OrderCorrect, PTL DEF OrderInv

-----------------------------------------------------------------------------
\* The price of a repeated post.

LEMMA RepeatStep ==
  ASSUME TypeOK, InHand, RepeatInv, [Next]_vars
  PROVE  RepeatInv'
<1> USE DEF TypeOK, RepeatInv, Key, table, memory
<1>1. CASE Publish \/ StampRead \/ StampWrite
  BY <1>1 DEF Publish, StampRead, StampWrite, Current
<1>2. CASE Start \/ DrainPending \/ Poll \/ Begin
  BY <1>2 DEF Start, DrainPending, Poll, Begin, Current
<1>3. ASSUME NEW t \in Targets, Intend(t) PROVE RepeatInv'
  BY <1>3 DEF Intend, Settled, Current
<1>4. CASE Post \/ AnswerLost
  <2>1. Current \in Key /\ row[Current] = "owed" /\ pc # "record"
    BY <1>4 DEF Post, AnswerLost, InHand, Current, Polling, Handling
  <2>2. posts' = [posts EXCEPT ![Current] = @ + 1]
    BY <1>4 DEF Post, AnswerLost
  <2>3. row' = row /\ Current \in Key
    BY <1>4, <2>1 DEF Post, AnswerLost
  <2>4. CASE Post
    <3>1. pc' = "record" /\ Current' = Current /\ faults' = faults
      BY <2>4 DEF Post, Current
    <3>2. QED
      BY <2>1, <2>2, <2>3, <3>1
  <2>5. CASE AnswerLost
    <3>1. faults' = faults + 1
      BY <2>5 DEF AnswerLost, Fault
    <3>2. QED
      BY <2>1, <2>2, <2>3, <3>1
  <2>6. QED
    BY <1>4, <2>4, <2>5
<1>5. CASE RecordPosted
  <2>1. Current \in Key /\ row' = [row EXCEPT ![Current] = "posted"]
    BY <1>5 DEF RecordPosted, InHand, Current, Polling, Handling
  <2>2. pc = "record" /\ pc' = "handler" /\ UNCHANGED <<posts, faults>>
    BY <1>5 DEF RecordPosted
  <2>3. QED
    BY <2>1, <2>2
<1>6. CASE Abandon
  BY <1>6 DEF Abandon, InHand
<1>7. CASE MissingAccess \/ PoisonedPost \/ HandlerReturns \/ HandlerThrew \/ Advance
  BY <1>7 DEF MissingAccess, PoisonedPost, HandlerReturns, HandlerThrew, AfterFailure, AfterGivingUp,
              Advance
<1>8. CASE Crash \/ DrainFails \/ CallFails \/ AdvanceFails
  BY <1>8 DEF Crash, DrainFails, CallFails, AdvanceFails, Fault
<1>9. CASE UNCHANGED vars
  BY <1>9 DEF vars, Current
<1>10. QED
  BY <1>1, <1>2, <1>3, <1>4, <1>5, <1>6, <1>7, <1>8, <1>9 DEF Next, Process, Failures

\* No delivery is posted more often than once and once more for every fault
\* so far; with no fault, none is posted twice.
THEOREM RepeatsArePaidFor == Spec => []RepeatsCostFaults
<1>1. Init => RepeatInv
  BY ConsumerAssumption DEF Init, RepeatInv, Key
<1>2. RepeatInv /\ TypeOK /\ InHand /\ [Next]_vars => RepeatInv'
  BY RepeatStep
<1>3. RepeatInv /\ TypeOK => RepeatsCostFaults
  BY DEF RepeatInv, RepeatsCostFaults, TypeOK
<1>4. QED
  BY <1>1, <1>2, <1>3, TypeCorrect, PTL DEF Spec

-----------------------------------------------------------------------------
\* A delivery that is recorded is never made again.

\* Once the row of a delivery says it was posted, it is never posted again.
THEOREM RecordedStays == Spec => RecordedIsFinal
<1>1. ASSUME TypeOK, InHand, [Next]_vars,
             NEW k \in Key, row[k] = "posted"
      PROVE  row'[k] = "posted" /\ posts'[k] = posts[k]
  <2> USE <1>1 DEF TypeOK, InHand, table, memory, Current
  <2>1. CASE Publish \/ StampRead \/ StampWrite \/ Failures
    BY <2>1 DEF Publish, StampRead, StampWrite, Failures, Crash, DrainFails, CallFails,
                AnswerLost, AdvanceFails
  <2>2. CASE Start \/ DrainPending \/ Poll \/ Begin
    BY <2>2 DEF Start, DrainPending, Poll, Begin
  <2>3. ASSUME NEW t \in Targets, Intend(t)
        PROVE  row'[k] = "posted" /\ posts'[k] = posts[k]
    BY <2>3 DEF Intend, Settled
  <2>4. CASE Post \/ RecordPosted \/ Abandon
    BY <2>4 DEF Post, RecordPosted, Abandon
  <2>5. CASE MissingAccess \/ PoisonedPost \/ HandlerReturns \/ HandlerThrew \/ Advance
    BY <2>5 DEF MissingAccess, PoisonedPost, HandlerReturns, HandlerThrew, Advance
  <2>6. CASE UNCHANGED vars
    BY <2>6 DEF vars
  <2>7. QED
    BY <2>1, <2>2, <2>3, <2>4, <2>5, <2>6 DEF Next, Process
<1>2. TypeOK /\ InHand /\ [Next]_vars
        => [\A k \in Key : row[k] = "posted" => row'[k] = "posted" /\ posts'[k] = posts[k]]_vars
  BY <1>1
<1>3. QED
  BY <1>2, TypeCorrect, PTL DEF Spec, RecordedIsFinal

-----------------------------------------------------------------------------
\* What is still owed.

\* What OwedInv says of one delivery.
OwedAt(k) ==
  row[k] = "owed" /\ Steady(k[1]) =>
    /\ k[1] \notin Unhandled
    /\ k[2] \in UNION Audience[k[1]]
    /\ k[1] <= cursorRow => outcome[k[1]] = "skipped"
    /\ pc \in Polling /\ k[1] < entry => outcome[k[1]] = "skipped"
    /\ pc \in {"handler", "post", "record", "abandon"} /\ k[1] = entry => k[2] \in todo
    /\ pc = "advance" /\ k[1] = entry => outcome[entry] = "skipped"

\* What OwedInv says of the handling in flight.
HandlingAhead ==
  /\ pc \in Polling => cursorRow < entry
  /\ pc \in {"handler", "post", "record", "abandon"} =>
       entry \notin Unhandled /\ \E found \in Audience[entry] : todo \subseteq found

LEMMA OwedParts == OwedInv <=> HandlingAhead /\ \A k \in Key : OwedAt(k)
BY DEF OwedInv, HandlingAhead, OwedAt

\* The entry of a handling in flight stays ahead of the cursor.
LEMMA HandlingStep ==
  ASSUME TypeOK, InHand, OrderInv, HandlingAhead, [Next]_vars
  PROVE  HandlingAhead'
<1> USE ConsumerAssumption
    DEF TypeOK, HandlingAhead, Polling, Handling, NoCursor, NoStamp, Entry, table, memory
<1>1. CASE Publish \/ StampRead
  BY <1>1 DEF Publish, StampRead
<1>2. CASE StampWrite
  BY <1>2 DEF StampWrite, OrderInv
<1>3. CASE Start \/ DrainPending
  BY <1>3 DEF Start, DrainPending
<1>4. CASE Poll
  BY <1>4 DEF Poll, FirstOfPage, ReadCursor, LesserOf
<1>5. CASE Begin
  BY <1>5 DEF Begin
<1>6. ASSUME NEW t \in Targets, Intend(t) PROVE HandlingAhead'
  BY <1>6 DEF Intend, Settled
<1>7. CASE Post \/ MissingAccess \/ PoisonedPost
  BY <1>7 DEF Post, MissingAccess, PoisonedPost
<1>8. CASE RecordPosted \/ Abandon
  BY <1>8 DEF RecordPosted, Abandon
<1>9. CASE HandlerReturns \/ HandlerThrew
  BY <1>9 DEF HandlerReturns, HandlerThrew, AfterFailure, AfterGivingUp
<1>10. CASE Advance
  BY <1>10 DEF Advance, InHand
<1>11. CASE Failures
  BY <1>11 DEF Failures, Crash, DrainFails, CallFails, AnswerLost, AdvanceFails
<1>12. CASE UNCHANGED vars
  BY <1>12 DEF vars
<1>13. QED
  BY <1>1, <1>2, <1>3, <1>4, <1>5, <1>6, <1>7, <1>8, <1>9, <1>10, <1>11, <1>12
     DEF Next, Process

\* A delivery owed and left alone stays one the consumer has yet to come to.
LEMMA OwedStep ==
  ASSUME TypeOK, InHand, OrderInv, HandlingAhead, [Next]_vars,
         NEW k \in Key, OwedAt(k)
  PROVE  OwedAt(k)'
<1> USE ConsumerAssumption
    DEF TypeOK, InHand, HandlingAhead, OwedAt, Polling, Handling, NoCursor, NoStamp,
        Entry, Key, table, memory
<1>0. Steady(k[1])' <=> Steady(k[1])
  BY DEF Steady
<1>1. CASE Publish \/ StampRead
  BY <1>0, <1>1 DEF Publish, StampRead
<1>2. CASE StampWrite
  BY <1>0, <1>2 DEF StampWrite, OrderInv
<1>3. CASE Start \/ Poll
  <2>1. CASE Start
    BY <1>0, <2>1 DEF Start
  <2>2. CASE Poll
    <3>1. entry' \in Entry /\ entry' <= IF cursorRow = NoCursor THEN 1 ELSE cursorRow + 1
      BY <2>2 DEF Poll, FirstOfPage, ReadCursor
    <3>2. UNCHANGED <<row, cursorRow, outcome, todo>> /\ pc' = "entry"
      BY <2>2 DEF Poll
    <3>3. k[1] \in Entry /\ (k[1] < entry' => k[1] <= cursorRow)
      BY <3>1
    <3>4. QED
      BY <1>0, <3>2, <3>3
  <2>3. QED
    BY <1>3, <2>1, <2>2
<1>4. CASE DrainPending
  <2>1. cursorRow' <= cursorRow
    BY <1>4 DEF DrainPending, RewindTo, LesserOf
  <2>2. cursorRow' \in Int
    BY <1>4 DEF DrainPending, RewindTo, LesserOf
  <2>3. QED
    BY <1>0, <1>4, <2>1, <2>2 DEF DrainPending
<1>5. CASE Begin
  <2>1. CASE entry \in Unhandled
    BY <1>0, <1>5, <2>1 DEF Begin
  <2>2. CASE entry \notin Unhandled
    <3>1. todo' \in Audience[entry] /\ pc' = "handler"
      BY <1>5, <2>2 DEF Begin
    <3>2. Steady(k[1]) /\ k[1] = entry /\ k[2] \in UNION Audience[k[1]] => k[2] \in todo'
      BY <3>1 DEF Steady
    <3>3. QED
      BY <1>0, <1>5, <2>2, <3>1, <3>2 DEF Begin
  <2>3. QED
    BY <2>1, <2>2
<1>6. ASSUME NEW t \in Targets, Intend(t) PROVE OwedAt(k)'
  <2>1. pc = "handler" /\ entry \in Entry /\ t \in todo /\ cursorRow < entry
    BY <1>6 DEF Intend
  <2>2. CASE k = <<entry, t>>
    <3>1. k[2] \in UNION Audience[k[1]] /\ k[1] \notin Unhandled /\ k[1] = entry /\ k[2] = t
      BY <2>1, <2>2
    <3>2. Settled(<<entry, t>>) => row'[k] = "posted"
      BY <1>6, <2>2 DEF Intend, Settled
    <3>3. ~Settled(<<entry, t>>) => todo' = todo /\ pc' = "post"
      BY <1>6 DEF Intend
    <3>4. UNCHANGED <<cursorRow, entry, outcome>>
      BY <1>6 DEF Intend
    <3>5. CASE Settled(<<entry, t>>)
      BY <3>2, <3>5
    <3>6. CASE ~Settled(<<entry, t>>)
      BY <2>1, <3>1, <3>3, <3>4, <3>6
    <3>7. QED
      BY <3>5, <3>6
  <2>3. CASE k # <<entry, t>>
    <3>1. row'[k] = row[k]
      BY <1>6, <2>3 DEF Intend, Settled
    <3>2. k[1] = entry => k[2] # t
      BY <2>3
    <3>3. todo' = todo \/ todo' = todo \ {t}
      BY <1>6 DEF Intend
    <3>4. UNCHANGED <<cursorRow, entry, outcome>> /\ pc' \in {"handler", "post"}
      BY <1>6 DEF Intend
    <3>5. QED
      BY <1>0, <2>1, <3>1, <3>2, <3>3, <3>4
  <2>4. QED
    BY <2>2, <2>3
<1>7. CASE Post \/ MissingAccess \/ PoisonedPost
  BY <1>0, <1>7 DEF Post, MissingAccess, PoisonedPost
<1>8. CASE RecordPosted \/ Abandon
  <2>1. pc \in {"record", "abandon"} /\ Current \in Key
    BY <1>8 DEF RecordPosted, Abandon, Current
  <2>2. CASE k = Current
    <3>1. row'[k] # "owed"
      BY <1>8, <2>1, <2>2 DEF RecordPosted, Abandon
    <3>2. QED
      BY <3>1
  <2>3. CASE k # Current
    <3>1. row'[k] = row[k]
      BY <1>8, <2>3 DEF RecordPosted, Abandon
    <3>2. k[1] = entry => k[2] # target
      BY <2>3 DEF Current
    <3>3. todo' = todo \ {target} /\ pc' = "handler" /\ UNCHANGED <<cursorRow, entry, outcome>>
      BY <1>8 DEF RecordPosted, Abandon
    <3>4. QED
      BY <1>0, <2>1, <3>1, <3>2, <3>3
  <2>4. QED
    BY <2>2, <2>3
<1>9. CASE HandlerReturns
  BY <1>0, <1>9 DEF HandlerReturns
<1>10. CASE HandlerThrew
  BY <1>0, <1>10 DEF HandlerThrew, AfterFailure, AfterGivingUp
<1>11. CASE Advance
  BY <1>0, <1>11 DEF Advance
<1>12. CASE Failures
  BY <1>0, <1>12 DEF Failures, Crash, DrainFails, CallFails, AnswerLost, AdvanceFails
<1>13. CASE UNCHANGED vars
  BY <1>0, <1>13 DEF vars
<1>14. QED
  BY <1>1, <1>2, <1>3, <1>4, <1>5, <1>6, <1>7, <1>8, <1>9, <1>10, <1>11, <1>12, <1>13
     DEF Next, Process

\* An entry behind the cursor owes nothing unless it was given up on, as long
\* as its handlings find the same targets: through crashes, rewinds, closed
\* channels and re-stamps of the cursor.
THEOREM OwedIsAhead == Spec => []NothingOwedBehindCursor
<1>1. Init => HandlingAhead /\ \A k \in Key : OwedAt(k)
  BY DEF Init, HandlingAhead, OwedAt, Polling, Handling
<1>2. /\ HandlingAhead /\ \A k \in Key : OwedAt(k)
      /\ TypeOK /\ InHand /\ OrderInv /\ [Next]_vars
      => (HandlingAhead /\ \A k \in Key : OwedAt(k))'
  <2> SUFFICES ASSUME HandlingAhead, \A k \in Key : OwedAt(k),
                      TypeOK, InHand, OrderInv, [Next]_vars
               PROVE  (HandlingAhead /\ \A k \in Key : OwedAt(k))'
    OBVIOUS
  <2>1. HandlingAhead'
    BY HandlingStep
  <2>2. ASSUME NEW k \in Key PROVE OwedAt(k)'
    BY OwedStep
  <2>3. QED
    BY <2>1, <2>2 DEF Key, Entry
<1>3. Spec => [](HandlingAhead /\ \A k \in Key : OwedAt(k))
  BY <1>1, <1>2, TypeCorrect, OrderCorrect, PTL DEF Spec
<1>4. OwedInv => NothingOwedBehindCursor
  BY DEF OwedInv, NothingOwedBehindCursor
<1>5. QED
  BY <1>3, <1>4, OwedParts, PTL

\* A startup whose drain finishes leaves no owed row behind the cursor, and
\* never moves the cursor forward.
THEOREM DrainGoesBack == Spec => DrainReachesOwed
<1>1. ASSUME TypeOK, [Next]_vars, pc = "drain", pc' = "idle", faults' = faults
      PROVE  /\ cursorRow' <= cursorRow
             /\ \A k \in Key : row[k] = "owed" => cursorRow' < k[1]
  <2>1. DrainPending
    BY <1>1 DEF Next, Process, Failures, Publish, Start, DrainPending, Poll, Begin, Intend,
       Post, RecordPosted, MissingAccess, Abandon, PoisonedPost, HandlerReturns, HandlerThrew,
       Advance, Crash, DrainFails, CallFails, AnswerLost, AdvanceFails, StampRead, StampWrite,
       Fault, TypeOK, vars
  <2>2. QED
    BY <1>1, <2>1, ConsumerAssumption
       DEF DrainPending, OldestOwed, RewindTo, LesserOf, TypeOK, NoCursor, Entry, Key
<1>2. TypeOK /\ [Next]_vars
        => [pc = "drain" /\ pc' = "idle" /\ faults' = faults
              => /\ cursorRow' <= cursorRow
                 /\ \A k \in Key : row[k] = "owed" => cursorRow' < k[1]]_vars
  BY <1>1
<1>3. QED
  BY <1>2, TypeCorrect, PTL DEF Spec, DrainReachesOwed

-----------------------------------------------------------------------------
\* The consumer implements the promise.

LEMMA PromiseInit == Init => Promise!Init
BY DEF Init, Promise!Init, Promise!Key, Promise!Entry, Key, Entry, Passed

LEMMA PromiseStep ==
  ASSUME TypeOK, InHand, OrderInv, [Next]_vars
  PROVE  [Promise!Next]_(Promise!promiseVars)
<1> DEFINE recorded == {k \in Key : row[k] = "posted"}
           passed == {e \in Entry : Passed(e)}
<1> USE DEF TypeOK, table, memory
<1>1. Promise!Entry = Entry /\ Promise!Key = Key
  BY DEF Promise!Entry, Promise!Key, Entry, Key
<1>2. UNCHANGED <<posts, row, outcome>> => UNCHANGED Promise!promiseVars
  BY DEF Promise!promiseVars, Passed
<1>3. CASE \/ Publish \/ StampRead \/ StampWrite \/ Crash \/ DrainFails \/ CallFails
           \/ AdvanceFails \/ Start \/ DrainPending \/ Poll \/ MissingAccess
           \/ PoisonedPost \/ Advance \/ UNCHANGED vars
  BY <1>2, <1>3 DEF Publish, StampRead, StampWrite, Crash, DrainFails, CallFails,
     AdvanceFails, Start, DrainPending, Poll, MissingAccess, PoisonedPost, Advance, vars
<1>4. ASSUME pc \in Polling, UNCHANGED <<posts, row>>,
             \/ UNCHANGED outcome
             \/ \E o \in {"handled", "unhandled", "skipped"} :
                  outcome' = [outcome EXCEPT ![entry] = o]
      PROVE  [Promise!Next]_(Promise!promiseVars)
  <2>1. CASE UNCHANGED outcome
    BY <1>2, <1>4, <2>1
  <2>2. CASE \E o \in {"handled", "unhandled", "skipped"} :
               outcome' = [outcome EXCEPT ![entry] = o]
    <3>1. entry \in Entry
      BY <1>4 DEF InHand
    <3>2. passed' = passed \cup {entry}
      BY <2>2, <3>1 DEF Passed
    <3>3. \A d \in Entry : d < entry => d \in passed
      BY <1>4 DEF OrderInv
    <3>4. recorded' = recorded
      BY <1>4
    <3>5. Promise!Pass(entry)
      BY <1>1, <1>4, <3>2, <3>3, <3>4 DEF Promise!Pass
    <3>6. QED
      BY <1>1, <3>1, <3>5 DEF Promise!Next
  <2>3. QED
    BY <1>4, <2>1, <2>2
<1>5. CASE Begin \/ HandlerReturns \/ HandlerThrew
  BY <1>4, <1>5 DEF Begin, HandlerReturns, HandlerThrew, Polling, Handling
<1>6. ASSUME NEW t \in Targets, Intend(t)
      PROVE  [Promise!Next]_(Promise!promiseVars)
  <2>1. recorded' = recorded
    BY <1>6 DEF Intend, Settled
  <2>2. UNCHANGED <<posts, outcome>>
    BY <1>6 DEF Intend
  <2>3. QED
    BY <2>1, <2>2 DEF Promise!promiseVars, Passed
<1>7. CASE Post \/ AnswerLost
  <2>1. Current \in Key /\ Current \notin recorded /\ Current[1] = entry
    BY <1>7 DEF Post, AnswerLost, InHand, Current, Key, Polling, Handling
  <2>2. \A d \in Entry : d < Current[1] => d \in passed
    BY <1>7, <2>1 DEF OrderInv, Post, AnswerLost, Polling, Handling
  <2>3. /\ posts' = [posts EXCEPT ![Current] = @ + 1]
        /\ recorded' = recorded /\ passed' = passed
    BY <1>7 DEF Post, AnswerLost, Passed
  <2>4. Promise!Send(Current)
    BY <1>1, <2>1, <2>2, <2>3 DEF Promise!Send
  <2>5. QED
    BY <1>1, <2>1, <2>4 DEF Promise!Next
<1>8. CASE RecordPosted
  <2>1. Current \in Key /\ posts[Current] > 0
    BY <1>8 DEF RecordPosted, InHand, Current, Key, Polling, Handling
  <2>2. recorded' = recorded \cup {Current}
    BY <1>8, <2>1 DEF RecordPosted
  <2>3. posts' = posts /\ passed' = passed
    BY <1>8 DEF RecordPosted, Passed
  <2>4. QED
    BY <1>1, <2>1, <2>2, <2>3 DEF Promise!Next, Promise!Confirm
<1>9. CASE Abandon
  <2>1. recorded' = recorded
    BY <1>9 DEF Abandon, InHand, Current, Key, Polling, Handling
  <2>2. UNCHANGED <<posts, outcome>>
    BY <1>9 DEF Abandon
  <2>3. QED
    BY <2>1, <2>2 DEF Promise!promiseVars, Passed
<1>10. QED
  BY <1>3, <1>5, <1>6, <1>7, <1>8, <1>9 DEF Next, Process, Failures

\* The consumer, with its cursor, pages, attempts, crashes and rewinds,
\* implements the promise of the feed.
THEOREM ConsumerKeepsPromise == Spec => PromiseSpec
<1>1. TypeOK /\ InHand /\ OrderInv /\ [Next]_vars => [Promise!Next]_(Promise!promiseVars)
  BY PromiseStep
<1>2. QED
  BY PromiseInit, <1>1, TypeCorrect, OrderCorrect, PTL DEF Spec, PromiseSpec, Promise!Spec
=============================================================================
