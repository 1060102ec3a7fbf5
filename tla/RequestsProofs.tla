--------------------------- MODULE RequestsProofs ---------------------------
(***************************************************************************)
(* Proofs about Requests, for any number of interactions, changes, minutes *)
(* and faults, and any limits.                                             *)
(***************************************************************************)
EXTENDS Requests, FiniteSetTheorems, SequenceTheorems, TLAPS

\* The places of a finite set of numbers are its members, one after the other.
LEMMA Ranked ==
  ASSUME NEW N \in Nat, NEW P \in SUBSET (1..N)
  PROVE  /\ Cardinality(P) \in Nat
         /\ \A k \in 1..Cardinality(P) : \E n \in P : Cardinality({m \in P : m <= n}) = k
         /\ \A n \in P : Cardinality({m \in P : m <= n}) \in 1..Cardinality(P)
         /\ \A n, o \in P : Cardinality({m \in P : m <= n}) = Cardinality({m \in P : m <= o}) => n = o
<1> DEFINE To(n) == {m \in P : m <= n}
           rank == [n \in P |-> Cardinality(To(n))]
           c == Cardinality(P)
<1>1. IsFiniteSet(1..N)
  BY FS_Interval
<1>2. IsFiniteSet(P) /\ c \in Nat
  BY <1>1, FS_Subset, FS_CardinalityType
<1>3. ASSUME NEW n \in P
      PROVE  IsFiniteSet(To(n)) /\ Cardinality(To(n)) \in 1..c
  <2>1. IsFiniteSet(To(n)) /\ Cardinality(To(n)) <= c
    BY <1>2, FS_Subset
  <2>2. Cardinality(To(n)) \in Nat
    BY <2>1, FS_CardinalityType
  <2>3. To(n) # {}
    <3>1. n \in To(n)
      OBVIOUS
    <3>2. QED
      BY <3>1
  <2>4. Cardinality(To(n)) # 0
    BY <2>1, <2>3, FS_EmptySet
  <2>5. QED
    BY <1>2, <2>1, <2>2, <2>4
<1>4. ASSUME NEW n \in P, NEW o \in P, n < o
      PROVE  Cardinality(To(n)) < Cardinality(To(o))
  <2>0. n \in Int /\ o \in Int /\ \A m \in P : m \in Int
    OBVIOUS
  <2>1. To(n) \subseteq To(o) \ {o} /\ o \in To(o)
    <3>1. ASSUME NEW m \in P, m <= n
          PROVE  m <= o /\ m # o
      BY <1>4, <2>0, <3>1
    <3>2. o <= o
      BY <2>0
    <3>3. QED
      BY <3>1, <3>2
  <2>2. Cardinality(To(o) \ {o}) = Cardinality(To(o)) - 1 /\ IsFiniteSet(To(o) \ {o})
    BY <1>3, <2>1, FS_RemoveElement
  <2>3. Cardinality(To(n)) <= Cardinality(To(o) \ {o})
    BY <2>1, <2>2, FS_Subset
  <2>4. Cardinality(To(n)) \in Nat /\ Cardinality(To(o)) \in Nat
    BY <1>2, <1>3
  <2>5. QED
    BY <2>2, <2>3, <2>4
<1>5. ASSUME NEW n \in P, NEW o \in P, Cardinality(To(n)) = Cardinality(To(o))
      PROVE  n = o
  <2>1. ~(n < o) /\ ~(o < n)
    <3>1. Cardinality(To(n)) \in Nat /\ Cardinality(To(o)) \in Nat
      BY <1>2, <1>3
    <3>2. QED
      BY <1>4, <1>5, <3>1
  <2>2. n \in Int /\ o \in Int
    OBVIOUS
  <2>3. QED
    BY <2>1, <2>2
<1> DEFINE R == {rank[n] : n \in P}
<1>6. R \subseteq 1..c
  BY <1>3
<1>7. rank \in Bijection(P, R)
  <2>1. rank \in [P -> R]
    OBVIOUS
  <2>2. \A n, o \in P : rank[n] = rank[o] => n = o
    BY <1>5
  <2>3. \A r \in R : \E n \in P : rank[n] = r
    OBVIOUS
  <2>4. QED
    BY <2>1, <2>2, <2>3 DEF Bijection, Injection, Surjection, IsInjective
<1>8. Cardinality(R) = c
  <2>1. ExistsBijection(P, R)
    BY <1>7 DEF ExistsBijection
  <2>2. QED
    BY <1>2, <2>1, FS_Bijection
<1>9. Cardinality(1..c) = c /\ IsFiniteSet(1..c)
  BY <1>2, FS_Interval
<1>10. R = 1..c
  BY <1>6, <1>8, <1>9, FS_Subset
<1>11. \A k \in 1..c : \E n \in P : Cardinality(To(n)) = k
  BY <1>10
<1>12. QED
  BY <1>2, <1>3, <1>5, <1>11

\* Those of a sequence without repetition that are among some.
LEMMA AmongThem ==
  ASSUME NEW some, NEW E, NEW used \in Seq(E), IsInjective(used)
  PROVE  /\ Among(some, used) \in Seq(E)
         /\ IsInjective(Among(some, used))
         /\ ToSet(Among(some, used)) = ToSet(used) \cap some
<1> DEFINE places == {n \in DOMAIN used : used[n] \in some}
           nth(k) == CHOOSE n \in places : Cardinality({m \in places : m <= n}) = k
           c == Cardinality(places)
<1>1. DOMAIN used = 1..Len(used) /\ Len(used) \in Nat
  OBVIOUS
<1>2. places \subseteq 1..Len(used)
  BY <1>1
<1>3. /\ c \in Nat
      /\ \A k \in 1..c : \E n \in places : Cardinality({m \in places : m <= n}) = k
      /\ \A n \in places : Cardinality({m \in places : m <= n}) \in 1..c
      /\ \A n, o \in places : Cardinality({m \in places : m <= n}) = Cardinality({m \in places : m <= o}) => n = o
  BY <1>1, <1>2, Ranked
<1>4. \A k \in 1..c : nth(k) \in places /\ Cardinality({m \in places : m <= nth(k)}) = k
  BY <1>3
<1>5. \A n \in places : nth(Cardinality({m \in places : m <= n})) = n
  BY <1>3, <1>4
<1>6. Among(some, used) = [k \in 1..c |-> used[nth(k)]]
  BY DEF Among
<1> HIDE DEF nth
<1>7. \A k \in 1..c : nth(k) \in DOMAIN used /\ used[nth(k)] \in some /\ used[nth(k)] \in E
  <2>1. \A n \in DOMAIN used : used[n] \in E
    BY <1>1
  <2>2. \A k \in 1..c : nth(k) \in DOMAIN used /\ used[nth(k)] \in some
    BY <1>4
  <2>3. QED
    BY <2>1, <2>2
<1>8. \A k, l \in 1..c : nth(k) = nth(l) => k = l
  BY <1>4
<1>9. Among(some, used) \in Seq(E)
  BY <1>3, <1>6, <1>7
<1>10. IsInjective(Among(some, used))
  BY <1>6, <1>7, <1>8 DEF IsInjective
<1>11. ToSet(Among(some, used)) = ToSet(used) \cap some
  <2>1. ASSUME NEW x \in ToSet(Among(some, used))
        PROVE  x \in ToSet(used) \cap some
    <3>1. PICK k \in 1..c : x = used[nth(k)]
      BY <1>6 DEF ToSet
    <3>2. QED
      BY <1>7, <3>1 DEF ToSet
  <2>2. ASSUME NEW x \in ToSet(used) \cap some
        PROVE  x \in ToSet(Among(some, used))
    <3>1. PICK n \in DOMAIN used : x = used[n] /\ n \in places
      BY <2>2 DEF ToSet
    <3>2. PICK k \in 1..c : nth(k) = n
      BY <1>3, <1>5, <3>1
    <3>3. QED
      BY <1>6, <3>1, <3>2 DEF ToSet
  <2>3. QED
    BY <2>1, <2>2
<1>12. QED
  BY <1>9, <1>10, <1>11

-----------------------------------------------------------------------------
\* What the rows of some minutes come to is a number.
LEMMA MarksAreFinite ==
  ASSUME NEW counts \in [Minutes -> Nat], NEW from, NEW to
  PROVE  IsFiniteSet(Marks(counts, from, to)) /\ Within(counts, from, to) \in Nat
<1> DEFINE K == {k \in Minutes : from <= k /\ k <= to}
           row == [m \in K |-> {m} \X (1..counts[m])]
           rows == {row[m] : m \in K}
<1>1. IsFiniteSet(Minutes)
  BY FS_Interval, RequestsAssumption DEF RequestsAssumption, Minutes
<1>2. IsFiniteSet(K)
  BY <1>1, FS_Subset
<1>3. row \in Surjection(K, rows)
  BY DEF Surjection
<1>4. IsFiniteSet(rows)
  BY <1>2, <1>3, FS_Surjection
<1>5. ASSUME NEW m \in K
      PROVE  IsFiniteSet(row[m])
  <2>0. 1 \in Int /\ counts[m] \in Int
    OBVIOUS
  <2>1. IsFiniteSet({m}) /\ IsFiniteSet(1..counts[m])
    BY <2>0, FS_Singleton, FS_Interval
  <2>2. IsFiniteSet({m} \X (1..counts[m]))
    BY <2>1, FS_Product
  <2>3. QED
    BY <2>2
<1>6. IsFiniteSet(UNION rows)
  BY <1>4, <1>5, FS_UNION
<1>7. UNION rows = Marks(counts, from, to)
  BY DEF Marks
<1>8. QED
  BY <1>6, <1>7, FS_CardinalityType DEF Within

LEMMA InitTypes == Init => TypeOK /\ AnswerInv
<1> SUFFICES ASSUME Init PROVE TypeOK /\ AnswerInv
  OBVIOUS
<1>1. Fresh \in Readings /\ 0 \in Minutes /\ Nothing \in [version: Nat \cup {-1}, until: Nat]
  BY RequestsAssumption DEF RequestsAssumption, Fresh, Readings, NoForm, Steps, Minutes, Nothing
<1>2. windows \in [Subjects -> [Minutes -> Nat]] /\ version \in [Topics -> Nat]
  BY DEF Init
<1>3. order \in Seq(Lists) /\ IsInjective(order)
  BY DEF Init, IsInjective
<1>4. TypeOK
  <2>1. request \in [Interactions -> Readings]
    BY <1>1 DEF Init
  <2>2. held \in [Queries -> [version: Nat \cup {-1}, until: Nat]]
    BY <1>1 DEF Init
  <2>3. outbox \in Seq([topic: {"acm", "ieee"}, version: Nat])
    BY DEF Init
  <2>4. QED
    BY <2>1, <2>2, <2>3, <1>1, <1>2, <1>3 DEF Init, TypeOK
<1>5. AnswerInv
  BY DEF Init, AnswerInv, Way, Fresh, At, Form
<1>6. QED
  BY <1>4, <1>5

\* The readings of an interaction stay readings.
LEMMA GoesOn ==
  ASSUME TypeOK, NEW i \in Interactions, NEW step \in Steps, Goes(i, step)
  PROVE  /\ request' \in [Interactions -> Readings]
         /\ request'[i] = [request[i] EXCEPT !.step = step]
         /\ \A j \in Interactions \ {i} : request'[j] = request[j]
<1>1. request \in [Interactions -> Readings] /\ request[i] \in Readings
  BY DEF TypeOK
<1>2. request' = [request EXCEPT ![i] = [request[i] EXCEPT !.step = step]]
  BY DEF Goes
<1>3. [request[i] EXCEPT !.step = step] \in Readings
  BY <1>1 DEF Readings
<1>4. QED
  BY <1>1, <1>2, <1>3

LEMMA KnowsMore ==
  ASSUME TypeOK, NEW i \in Interactions, NEW step \in Steps, NEW r \in Readings, Knowing(i, step, r)
  PROVE  /\ request' \in [Interactions -> Readings]
         /\ request'[i] = [r EXCEPT !.step = step]
         /\ \A j \in Interactions \ {i} : request'[j] = request[j]
  BY DEF TypeOK, Knowing, Readings

\* The step of one interaction leaves the others where they are.
Others(i) ==
  \A j \in Interactions \ {i} :
    /\ request'[j] = request[j] /\ shown'[j] = shown[j]
    /\ (j \in public' <=> j \in public) /\ (j \in revealed' <=> j \in revealed)

KeepsFit(i) == TypeOK' /\ ~misused' /\ Way(i)' /\ Others(i)

LEMMA OthersStay ==
  ASSUME TypeOK, NEW i \in Interactions, Others(i), faults' = faults \/ faults' = faults + 1,
         NEW j \in Interactions \ {i}, Way(j)
  PROVE  Way(j)'
<1>1. faults > 0 => faults' > 0
  BY DEF TypeOK
<1>2. request'[j] = request[j] /\ shown'[j] = shown[j]
        /\ (j \in public' <=> j \in public) /\ (j \in revealed' <=> j \in revealed)
  BY DEF Others
<1>3. QED
  BY <1>1, <1>2 DEF Way, Form, Ephemeral

LEMMA Answered ==
  ASSUME TypeOK, NEW i \in Interactions, NEW call, NEW seenByAll, Answers(i, call, seenByAll),
         shown[i] \in {"open", "thinking", "lapsed"},
         call \in IF shown[i] = "thinking" THEN {"edit"} ELSE {"defer", "reply", "form", "list"}
  PROVE  /\ shown' \in [Interactions -> {"open", "thinking", "reply", "edit", "form", "list", "lapsed"}]
         /\ misused' = misused /\ version' = version /\ internal' = internal
         /\ public \subseteq public' /\ public' \subseteq Interactions
         /\ (public' # public => shown[i] # "lapsed" /\ seenByAll /\ public' = public \cup {i})
         /\ \A j \in Interactions \ {i} : shown'[j] = shown[j] /\ (j \in public' <=> j \in public)
         /\ shown'[i] = IF shown[i] = "lapsed" THEN "lapsed"
                        ELSE IF call = "defer" THEN "thinking" ELSE call
  BY DEF TypeOK, Answers

LEMMA ArrivesKeeps ==
  ASSUME TypeOK, AnswerInv, NEW i \in Interactions, Arrives(i)
  PROVE  KeepsFit(i)
<1>1. PICK form \in scene.forms :
        At(i, "new") /\ Knowing(i, FirstStep(form), [request[i] EXCEPT !.form = form])
  BY DEF Arrives
<1>2. form \in Forms
  BY RequestsAssumption DEF RequestsAssumption, TypeOK
<1> DEFINE step == FirstStep(form)
<1>3. /\ form.kind = "completion" => step \in {"list", "typing"}
      /\ form.kind = "unknown" => step = "refuse"
      /\ form.kind = "orphan" => step = "done"
      /\ form.kind \notin {"completion", "unknown", "orphan"} => step = "switch"
      /\ step \in {"list", "typing", "refuse", "done", "switch"}
  BY DEF FirstStep
<1>4. request[i] \in Readings
  BY DEF TypeOK
<1>5. [request[i] EXCEPT !.form = form] \in Readings /\ step \in Steps
  BY <1>2, <1>3, <1>4 DEF Readings, Steps
<1> HIDE DEF step
<1>6. /\ request' \in [Interactions -> Readings]
      /\ request'[i] = [[request[i] EXCEPT !.form = form] EXCEPT !.step = step]
      /\ \A j \in Interactions \ {i} : request'[j] = request[j]
  BY <1>1, <1>5, KnowsMore DEF step
<1>7. request'[i].form = form /\ request'[i].step = step /\ request'[i].internal = request[i].internal
  BY <1>4, <1>6 DEF Readings
<1>8. UNCHANGED <<shown, public, version, internal, misused, revealed, database, cache, outbox, now,
                  budget, allowed, overlaps, handled, straddled>>
  BY DEF Arrives, Quietly, platform
<1>9. TypeOK'
  BY <1>6, <1>8 DEF TypeOK, database, cache, budget
<1>10. Others(i)
  BY <1>6, <1>8 DEF Others
<1>11. Way(i)'
  <2>1. Way(i) /\ request[i].step = "new"
    BY <1>1 DEF AnswerInv, At
  <2>2. shown[i] = "open" /\ i \notin public \cup revealed /\ ~request[i].internal
    BY <2>1 DEF Way
  <2>3. form.kind \in Kinds
    BY <1>2 DEF Forms
  <2>4. QED
    BY <1>2, <1>3, <1>7, <1>8, <2>2, <2>3 DEF Way, Form, Kinds
<1>12. QED
  BY <1>8, <1>9, <1>10, <1>11 DEF KeepsFit, AnswerInv

\* A step that says nothing to Discord, from one place of an interaction to
\* another that what it shows fits as well.
LEMMA QuietWay ==
  ASSUME TypeOK, AnswerInv, NEW i \in Interactions, ~At(i, "new"), Quietly,
         faults' = faults \/ faults' = faults + 1,
         request'[i].form = request[i].form, request'[i].step \in Steps \ {"new"},
         request'[i].internal => request[i].internal \/ Form(i).reads \in Unheld,
         LET kind == Form(i).kind   step == request'[i].step IN
           /\ step \in {"typing", "countTyping", "list"} => kind = "completion"
           /\ step \in {"switch", "person", "server", "countPerson", "countServer"} =>
                kind \in {"command", "panel", "opener"}
           /\ step = "acknowledge" => kind \in {"command", "panel"}
           /\ step \in {"run", "fetch", "store", "answer"} => kind \in {"command", "panel", "opener", "completion"}
           /\ step = "fetch" => Form(i).reads # "nothing"
           /\ step = "store" => Form(i).reads \in Queries
           /\ step # "done" =>
                shown[i] \in IF step \in {"run", "fetch", "store", "answer"} /\ kind \in {"command", "panel"}
                            THEN {"thinking"} ELSE {"open", "lapsed"}
           /\ step = "done" /\ shown[i] \in {"open", "thinking"} => kind = "orphan" \/ faults' > 0
  PROVE  ~misused' /\ Way(i)'
<1>1. Way(i) /\ ~misused /\ request[i].step # "new"
  BY DEF AnswerInv, At
<1>2. UNCHANGED <<shown, public, misused, revealed>>
  BY DEF Quietly, platform
<1>3. Form(i) \in Forms /\ request'[i].form = Form(i)
  BY <1>1 DEF Way, Form
<1>4. QED
  BY <1>1, <1>2, <1>3 DEF Way, Form, Ephemeral

\* The windows and the counts stay what they are.
LEMMA MovesKeep ==
  ASSUME TypeOK, AnswerInv, NEW i \in Interactions,
         RefusedByTheServer(i) \/ ReadWindow(i) \/ CountOne(i) \/ Run(i) \/ Fetch(i) \/ Store(i) \/ Fails(i)
  PROVE  /\ ~misused' /\ Way(i)' /\ request' \in [Interactions -> Readings]
         /\ \A j \in Interactions \ {i} : request'[j] = request[j]
<1>0. request[i] \in Readings /\ Way(i)
  BY DEF TypeOK, AnswerInv
<1>1. CASE RefusedByTheServer(i)
  <2>1. PICK step \in {"refuse", "person"} : Goes(i, step)
    BY <1>1 DEF RefusedByTheServer
  <2>2. /\ request' \in [Interactions -> Readings]
        /\ request'[i] = [request[i] EXCEPT !.step = step]
        /\ \A j \in Interactions \ {i} : request'[j] = request[j]
    BY <2>1, GoesOn DEF Steps
  <2>3. request'[i].form = Form(i) /\ request'[i].step = step /\ request'[i].internal = request[i].internal
    BY <1>0, <2>2 DEF Readings, Form
  <2>4. Quietly /\ faults' = faults /\ request[i].step = "switch"
    BY <1>1 DEF RefusedByTheServer, budget, At
  <2>5. Form(i).kind \in {"command", "panel", "opener"} /\ shown[i] \in {"open", "lapsed"}
    BY <1>0, <2>4 DEF Way
  <2>6. QED
    BY <2>1, <2>2, <2>3, <2>4, <2>5, QuietWay DEF Steps, At, Form
<1>2. CASE ReadWindow(i)
  <2>1. PICK step \in Steps, r \in Readings :
          /\ Knowing(i, step, r) /\ r.form = request[i].form /\ r.internal = request[i].internal
          /\ \/ request[i].step = "typing" /\ step \in {"countTyping", "list"}
             \/ request[i].step = "person" /\ step \in {"countPerson", "refuse"}
             \/ request[i].step = "server" /\ step \in {"countServer", "refuse"}
    <3> DEFINE subject == Counted(i)
               used == Used(subject, TierOf(Form(i), subject))
               seen == Within(allowed[subject], 0, MaxTime)
               r == [request[i] EXCEPT !.used = used, !.minute = now, !.seen = seen]
    <3>1. request[i].step \in {"typing", "person", "server"}
      BY <1>2 DEF ReadWindow
    <3>2. subject \in Subjects
      BY <1>0, <3>1 DEF Counted, Subjects, Way, Form, Forms
    <3>3. used \in Nat /\ seen \in Nat
      BY <3>2, MarksAreFinite DEF TypeOK, Used
    <3> HIDE DEF used, seen
    <3>4. r \in Readings /\ r.form = request[i].form /\ r.internal = request[i].internal
      BY <1>0, <3>3 DEF Readings, TypeOK
    <3> HIDE DEF r
    <3>5. \/ Knowing(i, Counting(request[i].step), r)
          \/ Goes(i, IF subject = "typing" THEN "list" ELSE "refuse")
      BY <1>2 DEF ReadWindow, used, seen, r
    <3>6. CASE Knowing(i, Counting(request[i].step), r)
      <4>1. PICK step : step = Counting(request[i].step)
        OBVIOUS
      <4>2. \/ request[i].step = "typing" /\ step = "countTyping"
            \/ request[i].step = "person" /\ step = "countPerson"
            \/ request[i].step = "server" /\ step = "countServer"
        BY <3>1, <4>1 DEF Counting
      <4>3. QED
        BY <3>4, <3>6, <4>1, <4>2 DEF Steps
    <3>7. CASE Goes(i, IF subject = "typing" THEN "list" ELSE "refuse")
      <4>1. Knowing(i, IF subject = "typing" THEN "list" ELSE "refuse", request[i])
        BY <3>7 DEF Goes, Knowing
      <4>2. subject = "typing" <=> request[i].step = "typing"
        BY <1>0, <3>1 DEF Counted, Way, Form, Forms, People
      <4>3. PICK step : step = IF subject = "typing" THEN "list" ELSE "refuse"
        OBVIOUS
      <4>4. \/ request[i].step = "typing" /\ step = "list"
            \/ request[i].step \in {"person", "server"} /\ step = "refuse"
        BY <3>1, <4>2, <4>3
      <4>5. QED
        BY <1>0, <4>1, <4>3, <4>4 DEF Steps
    <3>8. QED
      BY <3>5, <3>6, <3>7
  <2>2. /\ request' \in [Interactions -> Readings]
        /\ request'[i] = [r EXCEPT !.step = step]
        /\ \A j \in Interactions \ {i} : request'[j] = request[j]
    <3>1. step \in Steps /\ Knowing(i, step, r)
      BY <2>1 DEF Steps
    <3>2. QED
      BY <3>1, KnowsMore
  <2>3. request'[i].form = Form(i) /\ request'[i].step = step /\ request'[i].internal = request[i].internal
    BY <2>1, <2>2 DEF Readings, Form
  <2>4. Quietly /\ faults' = faults
    BY <1>2 DEF ReadWindow, budget
  <2>5. Form(i).kind \in {"command", "panel", "opener", "completion"} /\ shown[i] \in {"open", "lapsed"}
          /\ (request[i].step = "typing" <=> Form(i).kind = "completion")
    BY <1>0, <2>1 DEF Way
  <2>6. QED
    BY <2>1, <2>2, <2>3, <2>4, <2>5, QuietWay DEF Steps, At, Form
<1>3. CASE CountOne(i)
  <2> DEFINE step == CASE Counted(i) = "typing" -> "run"
                       [] Counted(i) \in People /\ Form(i).inServer -> "server"
                       [] OTHER -> Acknowledges(Form(i))
  <2>1. Goes(i, step) /\ request[i].step \in {"countTyping", "countPerson", "countServer"}
    BY <1>3 DEF CountOne
  <2>2. Form(i).kind \in {"command", "panel", "opener", "completion"} /\ shown[i] \in {"open", "lapsed"}
          /\ (request[i].step = "countTyping" <=> Form(i).kind = "completion")
          /\ Form(i).person \in People
    BY <1>0, <2>1 DEF Way, Forms
  <2>3. \/ Form(i).kind = "completion" /\ step = "run"
        \/ Form(i).kind = "opener" /\ step \in {"run", "server"}
        \/ Form(i).kind \in {"command", "panel"} /\ step \in {"acknowledge", "server"}
    BY <2>1, <2>2 DEF Counted, Acknowledges, People
  <2> HIDE DEF step
  <2>4. /\ request' \in [Interactions -> Readings]
        /\ request'[i] = [request[i] EXCEPT !.step = step]
        /\ \A j \in Interactions \ {i} : request'[j] = request[j]
    BY <2>1, <2>3, GoesOn DEF Steps
  <2>5. request'[i].form = Form(i) /\ request'[i].step = step /\ request'[i].internal = request[i].internal
    BY <1>0, <2>4 DEF Readings, Form
  <2>6. Quietly /\ faults' = faults
    BY <1>3 DEF CountOne, budget
  <2>7. QED
    BY <2>1, <2>2, <2>3, <2>4, <2>5, <2>6, QuietWay DEF Steps, At, Form
<1>4. CASE Run(i)
  <2>1. PICK step \in {"answer", "fetch"} : Goes(i, step) /\ (step = "fetch" => Form(i).reads # "nothing")
    BY <1>4 DEF Run, Queries, Lists
  <2>2. /\ request' \in [Interactions -> Readings]
        /\ request'[i] = [request[i] EXCEPT !.step = step]
        /\ \A j \in Interactions \ {i} : request'[j] = request[j]
    BY <2>1, GoesOn DEF Steps
  <2>3. request'[i].form = Form(i) /\ request'[i].step = step /\ request'[i].internal = request[i].internal
    BY <1>0, <2>2 DEF Readings, Form
  <2>4. Quietly /\ faults' = faults /\ request[i].step = "run"
    BY <1>4 DEF Run, budget, At
  <2>5. QED
    BY <1>0, <2>1, <2>2, <2>3, <2>4, QuietWay DEF Steps, At, Form, Way
<1>5. CASE Fetch(i)
  <2> DEFINE step == IF Form(i).reads \in Queries THEN "store" ELSE "answer"
             seen == version[Shows(Form(i).reads)]
             told == Form(i).reads = "internal" \/ (Form(i).reads = "event" /\ internal)
             r == [request[i] EXCEPT !.seen = seen, !.internal = told]
  <2>1. Knowing(i, step, r) /\ request[i].step = "fetch"
    BY <1>5 DEF Fetch, At
  <2>2. Form(i).reads \in Queries \cup Unheld
    BY <1>0, <2>1 DEF Way, Form, Forms
  <2>3. Shows(Form(i).reads) \in Topics
    BY <2>2 DEF Shows, Topics, Queries, Lists, Unheld
  <2>4. seen \in Nat
    BY <2>3 DEF TypeOK
  <2>5. told \in BOOLEAN /\ (told => Form(i).reads \in Unheld)
    BY DEF Unheld
  <2> HIDE DEF seen, told
  <2>6. r \in Readings /\ r.form = Form(i) /\ r.internal = told /\ step \in Steps
    BY <1>0, <2>4, <2>5 DEF Readings, Form, Steps
  <2>7. /\ request' \in [Interactions -> Readings]
        /\ request'[i] = [r EXCEPT !.step = step]
        /\ \A j \in Interactions \ {i} : request'[j] = request[j]
    <3> HIDE DEF r, step
    <3>1. QED
      BY <2>1, <2>6, KnowsMore
  <2>8. request'[i].form = Form(i) /\ request'[i].step = step /\ request'[i].internal = told
    BY <2>6, <2>7 DEF Readings
  <2>9. Quietly /\ faults' = faults
    BY <1>5 DEF Fetch, budget
  <2>10. QED
    BY <1>0, <2>1, <2>5, <2>7, <2>8, <2>9, QuietWay DEF Steps, At, Form, Way
<1>6. CASE Store(i)
  <2>1. Goes(i, "answer") /\ request[i].step = "store" /\ Quietly /\ faults' = faults
    BY <1>6 DEF Store, At, budget
  <2>2. /\ request' \in [Interactions -> Readings]
        /\ request'[i] = [request[i] EXCEPT !.step = "answer"]
        /\ \A j \in Interactions \ {i} : request'[j] = request[j]
    BY <2>1, GoesOn DEF Steps
  <2>3. request'[i].form = Form(i) /\ request'[i].step = "answer" /\ request'[i].internal = request[i].internal
    BY <1>0, <2>2 DEF Readings, Form
  <2>4. QED
    BY <1>0, <2>1, <2>2, <2>3, QuietWay DEF Steps, At, Form, Way
<1>7. CASE Fails(i)
  <2>1. PICK step \in Steps, r \in Readings :
          /\ Knowing(i, step, r) /\ r.form = request[i].form /\ r.internal = request[i].internal
          /\ \/ request[i].step \in {"switch", "typing", "person", "server"} /\ step = "done"
             \/ request[i].step = "fetch" /\ Form(i).kind # "completion" /\ step = "answer"
             \/ request[i].step = "fetch" /\ Form(i).kind = "completion" /\ step = "list"
    <3>1. \A step : Goes(i, step) => Knowing(i, step, request[i])
      BY DEF Goes, Knowing
    <3>2. [request[i] EXCEPT !.failed = TRUE] \in Readings
            /\ [request[i] EXCEPT !.failed = TRUE].form = request[i].form
            /\ [request[i] EXCEPT !.failed = TRUE].internal = request[i].internal
      BY <1>0 DEF Readings
    <3>3. \/ request[i].step \in {"switch", "typing", "person", "server"} /\ Goes(i, "done")
          \/ /\ request[i].step = "fetch" /\ Form(i).kind # "completion"
             /\ Knowing(i, "answer", [request[i] EXCEPT !.failed = TRUE])
          \/ request[i].step = "fetch" /\ Form(i).kind = "completion" /\ Goes(i, "list")
      BY <1>7 DEF Fails, At
    <3>4. CASE \/ request[i].step \in {"switch", "typing", "person", "server"} /\ Goes(i, "done")
               \/ request[i].step = "fetch" /\ Form(i).kind = "completion" /\ Goes(i, "list")
      BY <1>0, <3>1, <3>4 DEF Steps
    <3>5. CASE /\ request[i].step = "fetch" /\ Form(i).kind # "completion"
               /\ Knowing(i, "answer", [request[i] EXCEPT !.failed = TRUE])
      BY <3>2, <3>5 DEF Steps
    <3>6. QED
      BY <3>3, <3>4, <3>5
  <2>2. /\ request' \in [Interactions -> Readings]
        /\ request'[i] = [r EXCEPT !.step = step]
        /\ \A j \in Interactions \ {i} : request'[j] = request[j]
    <3>1. step \in Steps /\ Knowing(i, step, r)
      BY <2>1 DEF Steps
    <3>2. QED
      BY <3>1, KnowsMore
  <2>3. request'[i].form = Form(i) /\ request'[i].step = step /\ request'[i].internal = request[i].internal
    BY <2>1, <2>2 DEF Readings, Form
  <2>4. Quietly /\ faults' = faults + 1 /\ faults' > 0
    BY <1>7 DEF Fails, Quietly, platform, history, TypeOK
  <2>5. QED
    BY <1>0, <2>1, <2>2, <2>3, <2>4, QuietWay DEF Steps, At, Form, Way
<1>8. QED
  BY <1>1, <1>2, <1>3, <1>4, <1>5, <1>6, <1>7

\* A step that says something to Discord: it takes it, and what is said fits.
LEMMA SaysKeep ==
  ASSUME TypeOK, AnswerInv, NEW i \in Interactions,
         \/ Refuse(i) \/ Acknowledge(i) \/ AcknowledgePanel(i) \/ AnswerOrShowModal(i)
         \/ ApplyUpdate(i) \/ AnswerAutocomplete(i)
  PROVE  /\ request' \in [Interactions -> Readings]
         /\ shown' \in [Interactions -> {"open", "thinking", "reply", "edit", "form", "list", "lapsed"}]
         /\ public' \subseteq Interactions /\ revealed' \subseteq Interactions
         /\ ~misused' /\ version' = version /\ internal' = internal
         /\ Way(i)' /\ Others(i)
<1> DEFINE says == shown[i]
<1>0. request[i] \in Readings /\ Way(i) /\ ~misused /\ public \subseteq Interactions /\ revealed \subseteq Interactions
  BY DEF TypeOK, AnswerInv
<1>1. ASSUME NEW step \in {"done", "run"}, Goes(i, step)
      PROVE  /\ request' \in [Interactions -> Readings]
             /\ \A j \in Interactions \ {i} : request'[j] = request[j]
             /\ request'[i].form = Form(i) /\ request'[i].step = step
             /\ request'[i].internal = request[i].internal
  <2>1. /\ request' \in [Interactions -> Readings]
        /\ request'[i] = [request[i] EXCEPT !.step = step]
        /\ \A j \in Interactions \ {i} : request'[j] = request[j]
    BY <1>1, GoesOn DEF Steps
  <2>2. QED
    BY <1>0, <2>1 DEF Readings, Form
\* What remains to be seen of each: where it was, what it says, where it goes.
<1>2. ASSUME NEW step \in {"done", "run"}, Goes(i, step), request[i].step \notin {"new", "done"},
             NEW call, NEW seenByAll \in BOOLEAN, Answers(i, call, seenByAll),
             says \in {"open", "thinking", "lapsed"},
             call \in IF says = "thinking" THEN {"edit"} ELSE {"defer", "reply", "form", "list"},
             seenByAll => Form(i).installed /\ ~Ephemeral(Form(i)),
             revealed' = revealed \/ (revealed' = revealed \cup {i} /\ Form(i).kind = "panel"),
             step = "run" => call = "defer" /\ Form(i).kind \in {"command", "panel"} /\ says = "open",
             step = "done" => says = "lapsed" \/ call # "defer"
      PROVE  /\ request' \in [Interactions -> Readings]
             /\ shown' \in [Interactions -> {"open", "thinking", "reply", "edit", "form", "list", "lapsed"}]
             /\ public' \subseteq Interactions /\ revealed' \subseteq Interactions
             /\ ~misused' /\ version' = version /\ internal' = internal
             /\ Way(i)' /\ Others(i)
  <2>1. /\ shown' \in [Interactions -> {"open", "thinking", "reply", "edit", "form", "list", "lapsed"}]
        /\ misused' = misused /\ version' = version /\ internal' = internal
        /\ public \subseteq public' /\ public' \subseteq Interactions
        /\ (public' # public => says # "lapsed" /\ seenByAll /\ public' = public \cup {i})
        /\ \A j \in Interactions \ {i} : shown'[j] = shown[j] /\ (j \in public' <=> j \in public)
        /\ shown'[i] = IF says = "lapsed" THEN "lapsed"
                       ELSE IF call = "defer" THEN "thinking" ELSE call
    BY <1>2, Answered
  <2>2. /\ request' \in [Interactions -> Readings]
        /\ \A j \in Interactions \ {i} : request'[j] = request[j]
        /\ request'[i].form = Form(i) /\ request'[i].step = step
        /\ request'[i].internal = request[i].internal
    BY <1>1, <1>2
  <2>3. Others(i)
    BY <1>2, <2>1, <2>2 DEF Others
  <2>4. Form(i) \in Forms /\ (request[i].internal => Form(i).reads \in Unheld)
          /\ (i \in public => Form(i).installed /\ ~Ephemeral(Form(i)))
          /\ (i \in revealed => Form(i).kind = "panel")
    BY <1>0, <1>2 DEF Way, Form
  <2>5. (i \in public' => Form(i).installed /\ ~Ephemeral(Form(i))) /\ (i \in revealed' => Form(i).kind = "panel")
    BY <1>2, <2>1, <2>4
  <2>6. step = "done" => shown'[i] \notin {"open", "thinking"}
    BY <1>2, <2>1
  <2>7. step = "run" => shown'[i] = "thinking"
    BY <1>2, <2>1
  <2>8. Way(i)'
    BY <1>2, <2>2, <2>4, <2>5, <2>6, <2>7 DEF Way, Form, Ephemeral
  <2>9. QED
    BY <1>0, <1>2, <2>1, <2>2, <2>3, <2>8
<1>3. CASE Refuse(i)
  <2>1. request[i].step = "refuse" /\ Goes(i, "done") /\ revealed' = revealed
    BY <1>3 DEF Refuse, At
  <2>2. says \in {"open", "lapsed"}
    BY <1>0, <2>1 DEF Way
  <2>3. Answers(i, "reply", FALSE)
    BY <1>3, <2>2 DEF Refuse, ApplyReply
  <2>4. QED
    BY <1>2, <2>1, <2>2, <2>3
<1>4. CASE Acknowledge(i) \/ AcknowledgePanel(i)
  <2>1. /\ request[i].step = "acknowledge" /\ revealed' = revealed
        /\ Goes(i, IF says = "lapsed" THEN "done" ELSE "run")
        /\ \/ Answers(i, "defer", ~OnlyThePerson(Form(i)))
           \/ Form(i).kind = "panel" /\ Answers(i, "defer", ~Form(i).private)
    BY <1>4 DEF Acknowledge, AcknowledgePanel, At
  <2>2. says \in {"open", "lapsed"} /\ Form(i).kind \in {"command", "panel"} /\ Form(i) \in Forms
    BY <1>0, <2>1 DEF Way
  <2>3. PICK seenByAll \in BOOLEAN :
          Answers(i, "defer", seenByAll) /\ (seenByAll => Form(i).installed /\ ~Ephemeral(Form(i)))
    <3>1. CASE Answers(i, "defer", ~OnlyThePerson(Form(i)))
      BY <3>1 DEF OnlyThePerson, Ephemeral
    <3>2. CASE Form(i).kind = "panel" /\ Answers(i, "defer", ~Form(i).private)
      <4>1. ~Form(i).private => Form(i).installed /\ Form(i).reads # "internal"
        BY <2>2, <3>2 DEF Forms, Readable
      <4>2. QED
        BY <3>2, <4>1 DEF Ephemeral
    <3>3. QED
      BY <2>1, <3>1, <3>2
  <2>4. CASE says = "lapsed"
    <3>1. Goes(i, "done")
      BY <2>1, <2>4
    <3>2. QED
      BY <1>2, <2>1, <2>2, <2>3, <2>4, <3>1
  <2>5. CASE says = "open"
    <3>1. Goes(i, "run")
      BY <2>1, <2>5
    <3>2. QED
      BY <1>2, <2>1, <2>2, <2>3, <2>5, <3>1
  <2>6. QED
    BY <2>2, <2>4, <2>5
<1>5. CASE AnswerOrShowModal(i)
  <2>1. /\ request[i].step = "answer" /\ Goes(i, "done") /\ Form(i).kind \notin {"panel", "completion"}
        /\ Reveals(i)
        /\ \/ Form(i).kind = "opener" /\ Answers(i, "form", FALSE)
           \/ ApplyReply(i, ~OnlyThePerson(Form(i)))
    BY <1>5 DEF AnswerOrShowModal, At
  <2>2. /\ Form(i).kind \in {"command", "opener"} /\ Form(i) \in Forms
        /\ says \in IF Form(i).kind = "command" THEN {"thinking"} ELSE {"open", "lapsed"}
    BY <1>0, <2>1 DEF Way
  <2>4. \E call \in {"form", "edit", "reply"}, seenByAll \in BOOLEAN :
          /\ Answers(i, call, seenByAll) /\ (seenByAll => Form(i).installed /\ ~Ephemeral(Form(i)))
          /\ call \in IF says = "thinking" THEN {"edit"} ELSE {"reply", "form"}
    <3>1. CASE Form(i).kind = "opener" /\ Answers(i, "form", FALSE)
      BY <2>2, <3>1
    <3>2. CASE ApplyReply(i, ~OnlyThePerson(Form(i)))
      <4>1. CASE says = "thinking"
        BY <3>2, <4>1 DEF ApplyReply
      <4>2. CASE says # "thinking"
        BY <3>2, <4>2 DEF ApplyReply, OnlyThePerson, Ephemeral
      <4>3. QED
        BY <4>1, <4>2
    <3>3. QED
      BY <2>1, <3>1, <3>2
  <2>5. PICK call \in {"form", "edit", "reply"}, seenByAll \in BOOLEAN :
          /\ Answers(i, call, seenByAll) /\ (seenByAll => Form(i).installed /\ ~Ephemeral(Form(i)))
          /\ call \in IF says = "thinking" THEN {"edit"} ELSE {"reply", "form"}
    BY <2>4
  <2>6. i \in public' => Form(i).installed /\ ~Ephemeral(Form(i))
    <3>1. i \in public => Form(i).installed /\ ~Ephemeral(Form(i))
      BY <1>0 DEF Way
    <3>2. public' # public => seenByAll
      BY <2>5 DEF Answers
    <3>3. QED
      BY <2>5, <3>1, <3>2
  <2>7. revealed' = revealed
    <3>1. CASE TellsInternal(i) /\ Form(i).inServer /\ i \in public'
      <4>1. request[i].internal /\ Form(i).installed /\ ~Ephemeral(Form(i))
        BY <2>6, <3>1 DEF TellsInternal
      <4>2. Form(i).reads = "event"
        BY <1>0, <4>1 DEF Way, Ephemeral, Unheld
      <4>3. Form(i).kind = "command"
        BY <2>2, <4>1 DEF Forms, Ephemeral
      <4>4. QED
        BY <3>1, <4>1, <4>2, <4>3 DEF TellsInternal, AnswersTheChannel
    <3>2. CASE ~(TellsInternal(i) /\ Form(i).inServer /\ i \in public')
      BY <2>1, <3>2 DEF Reveals
    <3>3. QED
      BY <3>1, <3>2
  <2>8. says \in {"open", "thinking", "lapsed"} /\ call # "defer"
          /\ call \in IF says = "thinking" THEN {"edit"} ELSE {"defer", "reply", "form", "list"}
    BY <2>2, <2>5
  <2>9. QED
    BY <1>2, <2>1, <2>5, <2>7, <2>8
<1>6. CASE ApplyUpdate(i)
  <2>1. /\ request[i].step = "answer" /\ Goes(i, "done") /\ Form(i).kind = "panel" /\ Reveals(i)
        /\ Answers(i, IF says = "thinking" THEN "edit" ELSE "update", FALSE)
    BY <1>6 DEF ApplyUpdate, At
  <2>2. says = "thinking"
    BY <1>0, <2>1 DEF Way
  <2>3. revealed' = revealed \/ revealed' = revealed \cup {i}
    BY <2>1 DEF Reveals
  <2>4. Answers(i, "edit", FALSE)
    BY <2>1, <2>2
  <2>5. QED
    BY <1>2, <2>1, <2>2, <2>3, <2>4
<1>7. CASE AnswerAutocomplete(i)
  <2>1. /\ request[i].step = "list" \/ (request[i].step = "answer" /\ Form(i).kind = "completion")
        /\ Goes(i, "done") /\ Answers(i, "list", FALSE) /\ revealed' = revealed
    BY <1>7 DEF AnswerAutocomplete, At
  <2>2. says \in {"open", "lapsed"}
    BY <1>0, <2>1 DEF Way
  <2>3. QED
    BY <1>2, <2>1, <2>2
<1>8. QED
  BY <1>3, <1>4, <1>5, <1>6, <1>7

-----------------------------------------------------------------------------
\* The listings held, the one used longest ago first.

LEMMA AppendOne ==
  ASSUME NEW E, NEW used \in Seq(E), IsInjective(used), NEW e \in E, e \notin ToSet(used)
  PROVE  /\ Append(used, e) \in Seq(E) /\ IsInjective(Append(used, e))
         /\ ToSet(Append(used, e)) = ToSet(used) \cup {e}
<1> DEFINE more == Append(used, e)
           n == Len(used)
<1>1. /\ more \in Seq(E) /\ Len(more) = n + 1
      /\ \A k \in 1..n : more[k] = used[k]
      /\ more[n + 1] = e
  BY AppendProperties
<1>2. n \in Nat /\ DOMAIN used = 1..n /\ DOMAIN more = 1..n + 1
  BY <1>1, LenProperties
<1> HIDE DEF more, n
<1>3. \A k \in 1..n + 1 : k \in 1..n \/ k = n + 1
  BY <1>2
<1>4. \A k \in 1..n : used[k] # e /\ used[k] \in ToSet(used)
  BY <1>2 DEF ToSet
<1>5. IsInjective(more)
  <2>1. ASSUME NEW k \in 1..n + 1, NEW l \in 1..n + 1, more[k] = more[l]
        PROVE  k = l
    <3>1. CASE k \in 1..n /\ l \in 1..n
      BY <1>1, <1>2, <2>1, <3>1 DEF IsInjective
    <3>2. CASE k = n + 1 /\ l \in 1..n
      BY <1>1, <1>4, <2>1, <3>2
    <3>3. CASE l = n + 1 /\ k \in 1..n
      BY <1>1, <1>4, <2>1, <3>3
    <3>4. QED
      BY <1>3, <3>1, <3>2, <3>3
  <2>2. QED
    BY <1>2, <2>1 DEF IsInjective
<1>6. ToSet(more) = ToSet(used) \cup {e}
  <2>1. ASSUME NEW x \in ToSet(more)
        PROVE  x \in ToSet(used) \cup {e}
    <3>1. PICK k \in 1..n + 1 : x = more[k]
      BY <1>2 DEF ToSet
    <3>2. QED
      BY <1>1, <1>3, <1>4, <3>1
  <2>2. ASSUME NEW x \in ToSet(used) \cup {e}
        PROVE  x \in ToSet(more)
    <3>1. e = more[n + 1] /\ n + 1 \in 1..n + 1
      BY <1>1, <1>2
    <3>2. CASE x \in ToSet(used)
      <4>1. PICK k \in 1..n : x = used[k]
        BY <1>2, <3>2 DEF ToSet
      <4>2. k \in 1..n + 1 /\ x = more[k]
        BY <1>1, <1>2, <4>1
      <4>3. QED
        BY <1>2, <4>2 DEF ToSet
    <3>3. CASE x = e
      BY <1>2, <3>1, <3>3 DEF ToSet
    <3>4. QED
      BY <2>2, <3>2, <3>3
  <2>3. QED
    BY <2>1, <2>2
<1>7. QED
  BY <1>1, <1>5, <1>6 DEF more

LEMMA RoomForOne ==
  ASSUME NEW E, NEW used \in Seq(E), IsInjective(used)
  PROVE  /\ Room(used) \in Seq(E) /\ IsInjective(Room(used))
         /\ ToSet(Room(used)) \subseteq ToSet(used)
         /\ Len(Room(used)) + 1 <= MaxEntries
<1> DEFINE n == Len(used)
           from == n - MaxEntries + 2
           some == SubSeq(used, from, n)
<1>1. n \in Nat /\ DOMAIN used = 1..n /\ \A k \in 1..n : used[k] \in E
  BY LenProperties
<1>2. MaxEntries \in Nat \ {0}
  BY RequestsAssumption DEF RequestsAssumption
<1>3. CASE n < MaxEntries
  BY <1>1, <1>2, <1>3 DEF Room
<1>4. CASE n >= MaxEntries
  <2>1. from \in Int /\ from >= 2 /\ n \in Int /\ n - from + 1 = MaxEntries - 1
    BY <1>1, <1>2, <1>4
  <2>2. \A k \in from..n : k \in 1..n
    BY <1>1, <2>1
  <2>3. Room(used) = some
    BY <1>4 DEF Room
  <2> HIDE DEF from
  <2>4. /\ some \in Seq(E) /\ Len(some) = IF from <= n THEN n - from + 1 ELSE 0
        /\ \A k \in 1..n - from + 1 : some[k] = used[from + k - 1]
    <3>1. \A k \in from..n : used[k] \in E
      BY <1>1, <2>2
    <3>2. QED
      BY <2>1, <3>1, SubSeqProperties
  <2> HIDE DEF some
  <2>5. Len(some) = MaxEntries - 1
    BY <1>1, <1>2, <2>1, <2>4
  <2>6. DOMAIN some = 1..MaxEntries - 1
    BY <2>4, <2>5, LenProperties
  <2>7. \A k \in 1..MaxEntries - 1 : from + k - 1 \in 1..n /\ some[k] = used[from + k - 1]
    BY <1>1, <1>2, <2>1, <2>4
  <2>8. IsInjective(some)
    <3>1. ASSUME NEW k \in 1..MaxEntries - 1, NEW l \in 1..MaxEntries - 1, some[k] = some[l]
          PROVE  k = l
      <4>1. from + k - 1 = from + l - 1
        BY <1>1, <2>7, <3>1 DEF IsInjective
      <4>2. QED
        BY <1>2, <2>1, <4>1
    <3>2. QED
      BY <2>6, <3>1 DEF IsInjective
  <2>9. ToSet(some) \subseteq ToSet(used)
    BY <1>1, <2>6, <2>7 DEF ToSet
  <2>10. QED
    BY <1>2, <2>3, <2>4, <2>5, <2>8, <2>9
<1>5. QED
  BY <1>1, <1>2, <1>3, <1>4

LEMMA AsManyAs ==
  ASSUME NEW E, NEW used \in Seq(E), IsInjective(used)
  PROVE  Cardinality(ToSet(used)) = Len(used) /\ IsFiniteSet(ToSet(used))
<1>1. Len(used) \in Nat /\ DOMAIN used = 1..Len(used) /\ used \in [1..Len(used) -> E]
  BY LenProperties
<1>2. used \in Bijection(1..Len(used), ToSet(used))
  BY <1>1 DEF ToSet, IsInjective, Bijection, Injection, Surjection
<1>3. IsFiniteSet(1..Len(used)) /\ Cardinality(1..Len(used)) = Len(used)
  BY <1>1, FS_Interval
<1>4. ExistsBijection(1..Len(used), ToSet(used))
  BY <1>2 DEF ExistsBijection
<1>5. QED
  BY <1>3, <1>4, FS_Bijection

\* Of two such sequences that hold the same, none is longer.
LEMMA NoLonger ==
  ASSUME NEW E, NEW used \in Seq(E), NEW again \in Seq(E), IsInjective(used), IsInjective(again),
         ToSet(again) \subseteq ToSet(used)
  PROVE  Len(again) <= Len(used)
<1>1. Cardinality(ToSet(used)) = Len(used) /\ IsFiniteSet(ToSet(used))
  BY AsManyAs
<1>2. Cardinality(ToSet(again)) = Len(again)
  BY AsManyAs
<1>3. QED
  BY <1>1, <1>2, FS_Subset

LEMMA WithoutOne ==
  ASSUME TypeOK, NEW q
  PROVE  /\ Without(q, order) \in Seq(Lists) /\ IsInjective(Without(q, order))
         /\ ToSet(Without(q, order)) = ToSet(order) \ {q}
<1>1. order \in Seq(Lists) /\ IsInjective(order)
  BY DEF TypeOK
<1>2. /\ Among(Queries \ {q}, order) \in Seq(Lists) /\ IsInjective(Among(Queries \ {q}, order))
      /\ ToSet(Among(Queries \ {q}, order)) = ToSet(order) \cap (Queries \ {q})
  BY <1>1, AmongThem
<1>3. ToSet(order) \subseteq Queries
  BY <1>1, LenProperties DEF ToSet, Queries
<1>4. QED
  BY <1>2, <1>3 DEF Without

LEMMA ToTheEnd ==
  ASSUME TypeOK, NEW q \in Lists
  PROVE  /\ ToEnd(q, order) \in Seq(Lists) /\ IsInjective(ToEnd(q, order))
         /\ ToSet(ToEnd(q, order)) = ToSet(order) \cup {q}
<1>1. /\ Without(q, order) \in Seq(Lists) /\ IsInjective(Without(q, order))
      /\ ToSet(Without(q, order)) = ToSet(order) \ {q}
  BY WithoutOne
<1>2. /\ Append(Without(q, order), q) \in Seq(Lists) /\ IsInjective(Append(Without(q, order), q))
      /\ ToSet(Append(Without(q, order), q)) = ToSet(Without(q, order)) \cup {q}
  BY <1>1, AppendOne
<1>3. QED
  BY <1>1, <1>2 DEF ToEnd

\* What a write keeps of the listings, and what it makes of them.
LEMMA KeptOnes ==
  ASSUME TypeOK, NEW q \in Lists
  PROVE  /\ Kept(q) \in Seq(Lists) /\ IsInjective(Kept(q))
         /\ ToSet(Kept(q)) \subseteq ToSet(order) \ {q}
         /\ Append(Kept(q), q) \in Seq(Lists) /\ IsInjective(Append(Kept(q), q))
         /\ ToSet(Append(Kept(q), q)) = ToSet(Kept(q)) \cup {q}
         /\ Len(Append(Kept(q), q)) <= MaxEntries
<1> DEFINE rest == Without(q, order)
           live == Live(rest)
<1>1. rest \in Seq(Lists) /\ IsInjective(rest) /\ ToSet(rest) = ToSet(order) \ {q}
  BY WithoutOne
<1> HIDE DEF rest
<1>2. live \in Seq(Lists) /\ IsInjective(live) /\ ToSet(live) \subseteq ToSet(rest)
  BY <1>1, AmongThem DEF Live
<1> HIDE DEF live
<1>3. /\ Room(live) \in Seq(Lists) /\ IsInjective(Room(live)) /\ ToSet(Room(live)) \subseteq ToSet(live)
      /\ Len(Room(live)) + 1 <= MaxEntries
  BY <1>2, RoomForOne
<1>4. Kept(q) = Room(live)
  BY DEF Kept, live, rest
<1>5. q \notin ToSet(Kept(q)) /\ Kept(q) \in Seq(Lists) /\ IsInjective(Kept(q))
        /\ ToSet(Kept(q)) \subseteq ToSet(order) \ {q}
  BY <1>1, <1>2, <1>3, <1>4
<1>6. /\ Append(Kept(q), q) \in Seq(Lists) /\ IsInjective(Append(Kept(q), q))
      /\ ToSet(Append(Kept(q), q)) = ToSet(Kept(q)) \cup {q}
  BY <1>5, AppendOne
<1>7. Len(Append(Kept(q), q)) = Len(Kept(q)) + 1
  BY <1>5, AppendProperties
<1>8. QED
  BY <1>3, <1>4, <1>5, <1>6, <1>7

-----------------------------------------------------------------------------
\* Each step keeps the types and the way of every interaction.

Windows == windows' \in [Subjects -> [Minutes -> Nat]] /\ allowed' \in [Subjects -> [Minutes -> Nat]]
             /\ overlaps' \in [Subjects -> Nat]
Cached == held' \in [Queries -> [version: Nat \cup {-1}, until: Nat]]
            /\ order' \in Seq(Lists) /\ IsInjective(order')

LEMMA CountingTypes ==
  ASSUME TypeOK, AnswerInv, NEW i \in Interactions, CountOne(i)
  PROVE  Windows
<1> DEFINE subject == Counted(i)
           minute == request[i].minute
<1>1. request[i] \in Readings /\ Way(i) /\ request[i].step \in {"countTyping", "countPerson", "countServer"}
  BY DEF TypeOK, AnswerInv, CountOne
<1>2. subject \in Subjects /\ minute \in Minutes
  BY <1>1 DEF Counted, Subjects, Way, Form, Forms, Readings
<1>3. /\ windows' = [windows EXCEPT ![subject][minute] = windows[subject][minute] + 1]
      /\ allowed' = [allowed EXCEPT ![subject][minute] = @ + 1]
      /\ overlaps' = overlaps \/ overlaps' = [overlaps EXCEPT ![subject] = @ + 1]
  <2>1. \/ overlaps' = [overlaps EXCEPT ![subject] = @ + 1]
        \/ overlaps' = [overlaps EXCEPT ![subject] = @]
    BY DEF CountOne
  <2>2. [overlaps EXCEPT ![subject] = @] = overlaps
    BY <1>2 DEF TypeOK
  <2>3. QED
    BY <2>1, <2>2 DEF CountOne, Stored
<1> HIDE DEF subject, minute
<1>4. ASSUME NEW counts \in [Subjects -> [Minutes -> Nat]]
      PROVE  [counts EXCEPT ![subject][minute] = @ + 1] \in [Subjects -> [Minutes -> Nat]]
  BY <1>2
<1>5. [windows EXCEPT ![subject][minute] = windows[subject][minute] + 1]
        = [windows EXCEPT ![subject][minute] = @ + 1]
  <2>1. windows \in [Subjects -> [Minutes -> Nat]]
    BY DEF TypeOK
  <2>2. QED
    BY <1>2, <2>1
<1>6. windows' \in [Subjects -> [Minutes -> Nat]] /\ allowed' \in [Subjects -> [Minutes -> Nat]]
  BY <1>3, <1>4, <1>5 DEF TypeOK
<1>7. overlaps' \in [Subjects -> Nat]
  <2>1. overlaps' = overlaps \/ overlaps' = [overlaps EXCEPT ![subject] = @ + 1]
    BY <1>3
  <2>2. overlaps \in [Subjects -> Nat]
    BY DEF TypeOK
  <2>3. QED
    BY <1>2, <2>1, <2>2
<1>8. QED
  BY <1>6, <1>7 DEF Windows

LEMMA CacheTypes ==
  ASSUME TypeOK, AnswerInv, NEW i \in Interactions, Run(i) \/ Store(i)
  PROVE  Cached
<1>0. /\ request[i] \in Readings /\ Way(i) /\ Nothing \in [version: Nat \cup {-1}, until: Nat]
      /\ held \in [Queries -> [version: Nat \cup {-1}, until: Nat]]
  BY DEF TypeOK, AnswerInv, Nothing
<1> DEFINE query == Form(i).reads
<1>1. CASE Run(i)
  <2>1. CASE query \in Queries /\ Hit(query)
    <3>1. held' = held /\ order' = IF query \in Lists THEN ToEnd(query, order) ELSE order
      BY <1>1, <2>1 DEF Run
    <3>2. QED
      BY <1>0, <3>1, ToTheEnd DEF TypeOK, Cached
  <2>2. CASE ~(query \in Queries /\ Hit(query))
    <3>1. /\ order' = Without(query, order)
          /\ held' = [q \in Queries |-> IF q = query /\ q # "rsos" THEN Nothing ELSE held[q]]
      BY <1>1, <2>2 DEF Run
    <3>2. QED
      BY <1>0, <3>1, WithoutOne DEF Cached
  <2>3. QED
    BY <2>1, <2>2
<1>2. CASE Store(i)
  <2> DEFINE kept == Kept(query)
             stays(q) == q \notin Lists \/ \E n \in DOMAIN kept : kept[n] = q
  <2>1. /\ held' = [q \in Queries |-> IF q = query THEN [version |-> request[i].seen, until |-> now + Ttl]
                                      ELSE IF stays(q) THEN held[q] ELSE Nothing]
        /\ order' = IF query \in Lists THEN Append(kept, query) ELSE order
    BY <1>2 DEF Store
  <2>2. [version |-> request[i].seen, until |-> now + Ttl] \in [version: Nat \cup {-1}, until: Nat]
    <3>1. request[i].seen \in Nat
      BY <1>0 DEF Readings
    <3>2. now \in Nat
      BY RequestsAssumption DEF TypeOK, Minutes
    <3>3. Ttl \in Nat
      BY RequestsAssumption
    <3>4. QED
      BY <3>1, <3>2, <3>3
  <2>3. held' \in [Queries -> [version: Nat \cup {-1}, until: Nat]]
    BY <1>0, <2>1, <2>2
  <2>4. order' \in Seq(Lists) /\ IsInjective(order')
    BY <2>1, KeptOnes DEF TypeOK
  <2>5. QED
    BY <2>3, <2>4 DEF Cached
<1>3. QED
  BY <1>1, <1>2

LEMMA StepKeeps ==
  ASSUME TypeOK, AnswerInv, NEW i \in Interactions, Step(i)
  PROVE  TypeOK' /\ AnswerInv'
<1>0. \A j \in Interactions : Way(j)
  BY DEF AnswerInv
<1>1. ASSUME ~misused', Way(i)', Others(i), faults' = faults \/ faults' = faults + 1
      PROVE  AnswerInv'
  BY <1>0, <1>1, OthersStay DEF AnswerInv
<1>2. CASE Arrives(i)
  <2>1. TypeOK' /\ ~misused' /\ Way(i)' /\ Others(i)
    BY <1>2, ArrivesKeeps DEF KeepsFit
  <2>2. faults' = faults
    BY <1>2 DEF Arrives, budget
  <2>3. QED
    BY <1>1, <2>1, <2>2
<1>3. CASE RefusedByTheServer(i) \/ ReadWindow(i) \/ CountOne(i) \/ Run(i) \/ Fetch(i) \/ Store(i) \/ Fails(i)
  <2>1. /\ ~misused' /\ Way(i)' /\ request' \in [Interactions -> Readings]
        /\ \A j \in Interactions \ {i} : request'[j] = request[j]
    BY <1>3, MovesKeep
  <2>2. UNCHANGED <<shown, public, version, internal, misused, revealed>>
    BY <1>3 DEF RefusedByTheServer, ReadWindow, CountOne, Run, Fetch, Store, Fails, Quietly, platform, history
  <2>3. Others(i)
    BY <2>1, <2>2 DEF Others
  <2>4. /\ UNCHANGED <<enabled, outbox, now, scene, changes, toggles, handled>>
        /\ faults' = faults \/ faults' = faults + 1
    BY <1>3 DEF RefusedByTheServer, ReadWindow, CountOne, Run, Fetch, Store, Fails, database, budget, history
  <2>5. straddled' \subseteq Interactions \cup Queries
    <3>1. CASE Store(i)
      <4>1. request[i].step = "store"
        BY <3>1 DEF Store, At
      <4>2. Form(i).reads \in Queries
        BY <1>0, <4>1 DEF Way
      <4>3. QED
        BY <3>1, <4>2 DEF Store, TypeOK
    <3>2. CASE ~Store(i)
      BY <1>3, <3>2 DEF RefusedByTheServer, ReadWindow, CountOne, Run, Fetch, Fails, history, TypeOK
    <3>3. QED
      BY <3>1, <3>2
  <2>6. Windows
    <3>1. CASE CountOne(i)
      BY <3>1, CountingTypes
    <3>2. CASE ~CountOne(i)
      <4>1. UNCHANGED <<windows, allowed, overlaps>>
        BY <1>3, <3>2 DEF RefusedByTheServer, ReadWindow, Run, Fetch, Store, Fails, database, history
      <4>2. QED
        BY <4>1 DEF Windows, TypeOK
    <3>3. QED
      BY <3>1, <3>2
  <2>7. Cached
    <3>1. CASE Run(i) \/ Store(i)
      BY <3>1, CacheTypes
    <3>2. CASE ~(Run(i) \/ Store(i))
      <4>1. UNCHANGED <<held, order>>
        BY <1>3, <3>2 DEF RefusedByTheServer, ReadWindow, CountOne, Fetch, Fails, cache
      <4>2. QED
        BY <4>1 DEF Cached, TypeOK
    <3>3. QED
      BY <3>1, <3>2
  <2>8. TypeOK'
    BY <2>1, <2>2, <2>4, <2>5, <2>6, <2>7 DEF TypeOK, Windows, Cached
  <2>9. QED
    BY <1>1, <2>1, <2>3, <2>4, <2>8
<1>4. CASE \/ Refuse(i) \/ Acknowledge(i) \/ AcknowledgePanel(i) \/ AnswerOrShowModal(i)
           \/ ApplyUpdate(i) \/ AnswerAutocomplete(i)
  <2>1. /\ request' \in [Interactions -> Readings]
        /\ shown' \in [Interactions -> {"open", "thinking", "reply", "edit", "form", "list", "lapsed"}]
        /\ public' \subseteq Interactions /\ revealed' \subseteq Interactions
        /\ ~misused' /\ version' = version /\ internal' = internal
        /\ Way(i)' /\ Others(i)
    BY <1>4, SaysKeep
  <2>2. UNCHANGED <<database, cache, outbox, now, budget, allowed, overlaps, handled, straddled>>
    BY <1>4 DEF Refuse, Acknowledge, AcknowledgePanel, AnswerOrShowModal, ApplyUpdate, AnswerAutocomplete
  <2>3. misused' \in BOOLEAN
    BY <1>4 DEF Refuse, Acknowledge, AcknowledgePanel, AnswerOrShowModal, ApplyUpdate, AnswerAutocomplete,
                ApplyReply, Answers
  <2>4. UNCHANGED <<enabled, windows, held, order, outbox, now, scene, changes, toggles, faults, allowed,
                    overlaps, handled, straddled>>
    BY <2>2 DEF database, cache, budget
  <2>5. TypeOK'
    BY <2>1, <2>3, <2>4 DEF TypeOK
  <2>6. QED
    BY <1>1, <2>1, <2>4, <2>5
<1>5. CASE Lapse(i)
  <2>1. /\ shown[i] = "open" /\ shown' = [shown EXCEPT ![i] = "lapsed"] /\ faults' = faults + 1
        /\ UNCHANGED <<request, public, version, internal, database, cache, outbox, now, scene, changes,
                       toggles, history>>
        /\ request[i].step # "new" /\ request[i].step # "done"
    BY <1>5 DEF Lapse, At
  <2>2. TypeOK'
    BY <2>1 DEF TypeOK, database, cache, history
  <2>3. Way(i)'
    <3>1. shown'[i] = "lapsed"
      BY <2>1 DEF TypeOK
    <3>2. Way(i) /\ UNCHANGED <<request, public, revealed>>
      BY <1>0, <2>1 DEF history
    <3>3. ~(request[i].step \in {"run", "fetch", "store", "answer"} /\ Form(i).kind \in {"command", "panel"})
      BY <2>1, <3>2 DEF Way
    <3>4. faults' > 0
      BY <2>1 DEF TypeOK
    <3>5. Form(i)' = Form(i) /\ request'[i] = request[i] /\ (i \in public' <=> i \in public)
            /\ (i \in revealed' <=> i \in revealed)
      BY <3>2 DEF Form
    <3>6. request[i].step # "new" /\ request[i].step # "done"
      BY <2>1
    <3>7. QED
      BY <3>1, <3>2, <3>3, <3>5, <3>6 DEF Way, Form, Ephemeral
  <2>4. Others(i) /\ ~misused'
    BY <2>1 DEF Others, history, TypeOK, AnswerInv
  <2>5. QED
    BY <1>1, <2>1, <2>2, <2>3, <2>4
<1>6. QED
  BY <1>2, <1>3, <1>4, <1>5 DEF Step

LEMMA TheRestKeeps ==
  ASSUME TypeOK, AnswerInv,
         \/ \E outcome \in {"handled", "unhandled"} : Handle(outcome)
         \/ \E topic \in Topics : Changes(topic)
         \/ Toggle \/ Tick \/ Crash
  PROVE  TypeOK' /\ AnswerInv'
<1>1. ASSUME NEW outcome \in {"handled", "unhandled"}, Handle(outcome)
      PROVE  TypeOK' /\ AnswerInv'
  <2> DEFINE entry == Head(outbox)
             dropped == {q \in Queries \ {"courses"} : Concerns(q, entry.topic)}
  <2>1. outbox # <<>> /\ outbox' = Tail(outbox) /\ outbox \in Seq([topic: {"acm", "ieee"}, version: Nat])
    BY <1>1 DEF Handle, TypeOK
  <2>2. /\ entry \in [topic: {"acm", "ieee"}, version: Nat]
        /\ outbox' \in Seq([topic: {"acm", "ieee"}, version: Nat])
    BY <2>1, HeadTailProperties
  <2>3. UNCHANGED <<request, shown, public, misused, revealed, version, internal, database, now, budget,
                    allowed, overlaps>>
    BY <1>1 DEF Handle, Quietly, platform
  <2> HIDE DEF entry
  <2>4. CASE outcome = "handled"
    <3>1. /\ held' = [q \in Queries |-> IF q \in dropped THEN Nothing ELSE held[q]]
          /\ order' = Among(Queries \ dropped, order)
          /\ handled' = [handled EXCEPT ![entry.topic] = entry.version]
          /\ straddled' = straddled \cup {i \in Interactions :
                                            At(i, "store") /\ Concerns(Form(i).reads, entry.topic)}
      BY <1>1, <2>4 DEF Handle, InvalidateRso, entry
    <3>2. Nothing \in [version: Nat \cup {-1}, until: Nat]
      BY DEF Nothing
    <3>3. held' \in [Queries -> [version: Nat \cup {-1}, until: Nat]]
      BY <3>1, <3>2 DEF TypeOK
    <3>4. order' \in Seq(Lists) /\ IsInjective(order')
      BY <3>1, AmongThem DEF TypeOK
    <3>5. handled' \in [Topics -> Nat] /\ straddled' \subseteq Interactions \cup Queries
      BY <2>2, <3>1 DEF TypeOK, Topics
    <3>6. TypeOK'
      BY <2>2, <2>3, <3>3, <3>4, <3>5 DEF TypeOK, database, budget
    <3>7. QED
      BY <2>3, <3>6 DEF AnswerInv, Way, Form, Ephemeral, budget
  <2>5. CASE outcome = "unhandled"
    <3>1. UNCHANGED <<cache, handled, straddled>>
      BY <1>1, <2>5 DEF Handle
    <3>2. TypeOK'
      BY <2>2, <2>3, <3>1 DEF TypeOK, database, budget, cache
    <3>3. QED
      BY <2>3, <3>2 DEF AnswerInv, Way, Form, Ephemeral, budget
  <2>6. QED
    BY <2>4, <2>5
<1>2. ASSUME NEW topic \in Topics, Changes(topic)
      PROVE  TypeOK' /\ AnswerInv'
  <2>1. version' = [version EXCEPT ![topic] = @ + 1] /\ version' \in [Topics -> Nat]
    BY <1>2 DEF Changes, TypeOK
  <2>2. outbox' \in Seq([topic: {"acm", "ieee"}, version: Nat])
    <3>1. CASE topic = "courses"
      BY <1>2, <3>1 DEF Changes, TypeOK
    <3>2. CASE topic # "courses"
      <4>1. [topic |-> topic, version |-> version'[topic]] \in [topic: {"acm", "ieee"}, version: Nat]
        BY <2>1, <3>2 DEF Topics
      <4>2. outbox' = Append(outbox, [topic |-> topic, version |-> version'[topic]])
        BY <1>2, <3>2 DEF Changes
      <4>3. QED
        BY <4>1, <4>2, AppendProperties DEF TypeOK
    <3>3. QED
      BY <3>1, <3>2
  <2>3. UNCHANGED <<request, shown, public, database, cache, now, scene, toggles, faults, history>>
          /\ changes' = changes + 1 /\ internal' \in BOOLEAN
    BY <1>2 DEF Changes, TypeOK
  <2>4. TypeOK'
    BY <2>1, <2>2, <2>3 DEF TypeOK, database, cache, history
  <2>5. QED
    BY <2>3, <2>4 DEF AnswerInv, Way, Form, Ephemeral, history
<1>3. CASE Toggle
  <2>1. TypeOK'
    BY <1>3 DEF Toggle, TypeOK, platform, cache, history
  <2>2. QED
    BY <1>3, <2>1 DEF Toggle, AnswerInv, Way, Form, Ephemeral, platform, history
<1>4. CASE Tick
  <2>1. now' \in Minutes
    BY <1>4, RequestsAssumption DEF Tick, TypeOK, Minutes, RequestsAssumption
  <2>2. TypeOK'
    BY <1>4, <2>1 DEF Tick, TypeOK, platform, database, cache, budget, history
  <2>3. QED
    BY <1>4, <2>2 DEF Tick, AnswerInv, Way, Form, Ephemeral, platform, budget, history
<1>5. CASE Crash
  <2>1. /\ request' = [i \in Interactions |-> IF At(i, "new") THEN Fresh ELSE [request[i] EXCEPT !.step = "done"]]
        /\ shown' = [i \in Interactions |-> IF shown[i] = "open" /\ ~At(i, "new") THEN "lapsed" ELSE shown[i]]
        /\ held' = [q \in Queries |-> Nothing] /\ order' = <<>>
        /\ faults' = faults + 1 /\ straddled' = {}
        /\ UNCHANGED <<public, version, internal, database, outbox, now, scene, changes, toggles, allowed,
                       overlaps, misused, revealed, handled>>
    BY <1>5 DEF Crash
  <2>2. Fresh \in Readings /\ Nothing \in [version: Nat \cup {-1}, until: Nat]
    BY RequestsAssumption DEF RequestsAssumption, Fresh, Readings, NoForm, Steps, Minutes, Nothing
  <2>3. ASSUME NEW i \in Interactions
        PROVE  request'[i] \in Readings /\ Way(i)'
    <3>1. CASE At(i, "new")
      <4>1. request'[i] = Fresh /\ shown'[i] = "open" /\ i \notin public' \cup revealed'
        BY <2>1, <3>1 DEF AnswerInv, Way, At
      <4>2. QED
        BY <2>2, <4>1 DEF Way, Form, Fresh
    <3>2. CASE ~At(i, "new")
      <4>1. request[i] \in Readings /\ Way(i) /\ request'[i] = [request[i] EXCEPT !.step = "done"]
              /\ shown'[i] = IF shown[i] = "open" THEN "lapsed" ELSE shown[i]
        BY <2>1, <3>2 DEF TypeOK, AnswerInv
      <4>2. request'[i] \in Readings /\ request'[i].form = Form(i) /\ request'[i].step = "done"
              /\ request'[i].internal = request[i].internal
        BY <4>1 DEF Readings, Steps, Form
      <4>3. faults' > 0
        BY <2>1 DEF TypeOK
      <4>4. Form(i) \in Forms /\ (request[i].internal => Form(i).reads \in Unheld)
          /\ (i \in public => Form(i).installed /\ ~Ephemeral(Form(i)))
          /\ (i \in revealed => Form(i).kind = "panel")
        BY <3>2, <4>1 DEF Way, Form, At
      <4>5. QED
        BY <2>1, <4>2, <4>3, <4>4 DEF Way, Form, Ephemeral
    <3>3. QED
      BY <3>1, <3>2
  <2>4. request' \in [Interactions -> Readings]
          /\ shown' \in [Interactions -> {"open", "thinking", "reply", "edit", "form", "list", "lapsed"}]
    <3>1. request' = [i \in Interactions |-> request'[i]]
      BY <2>1
    <3>2. QED
      BY <2>1, <2>3, <3>1 DEF TypeOK
  <2>5. order' \in Seq(Lists) /\ IsInjective(order')
    BY <2>1 DEF IsInjective
  <2>6. TypeOK'
    BY <2>1, <2>2, <2>4, <2>5 DEF TypeOK, database
  <2>7. QED
    BY <2>1, <2>3, <2>6 DEF AnswerInv
<1>6. QED
  BY <1>1, <1>2, <1>3, <1>4, <1>5

LEMMA WaysKept == Spec => [](TypeOK /\ AnswerInv)
<1>1. TypeOK /\ AnswerInv /\ [Next]_vars => TypeOK' /\ AnswerInv'
  <2> SUFFICES ASSUME TypeOK, AnswerInv, [Next]_vars
               PROVE  TypeOK' /\ AnswerInv'
    OBVIOUS
  <2>1. CASE \E i \in Interactions : Step(i)
    BY <2>1, StepKeeps
  <2>2. CASE \/ \E outcome \in {"handled", "unhandled"} : Handle(outcome)
             \/ \E topic \in Topics : Changes(topic)
             \/ Toggle \/ Tick \/ Crash
    BY <2>2, TheRestKeeps
  <2>3. CASE UNCHANGED vars
    <3>1. TypeOK'
      BY <2>3 DEF vars, platform, database, cache, budget, history, TypeOK
    <3>2. QED
      BY <2>3, <3>1 DEF vars, platform, database, cache, budget, history, AnswerInv, Way, Form, Ephemeral
  <2>4. QED
    BY <2>1, <2>2, <2>3 DEF Next
<1>2. QED
  BY <1>1, InitTypes, PTL DEF Spec

\* Every variable keeps its range: what the cache holds of listings is a
\* sequence without repetition, whatever is read, written and dropped.
THEOREM TypeCorrect == Spec => []TypeOK
  BY WaysKept, PTL

\* However many interactions are under way and whatever fails, what is said of
\* one is what Discord still takes, a channel reads only what is meant for it,
\* and who asked is told something (commands/index.ts, discord/adapter.ts).
THEOREM AnswersAlwaysFit == Spec => []AnswersFit
<1>1. TypeOK /\ AnswerInv => AnswersFit
  BY DEF TypeOK, AnswerInv, Way, AnswersFit, At
<1>2. QED
  BY <1>1, WaysKept, PTL

-----------------------------------------------------------------------------
\* What the rows of some minutes come to, and one more of them.

LEMMA MarksOf ==
  ASSUME NEW counts, NEW from, NEW to, NEW mark
  PROVE  mark \in Marks(counts, from, to) <=>
           \E m \in Minutes : from <= m /\ m <= to /\ mark \in {m} \X (1..counts[m])
  BY DEF Marks

LEMMA Wider ==
  ASSUME NEW counts \in [Minutes -> Nat], NEW from, NEW to, NEW from2, NEW to2,
         \A m \in Minutes : from <= m /\ m <= to /\ counts[m] # 0 => from2 <= m /\ m <= to2
  PROVE  Within(counts, from, to) <= Within(counts, from2, to2)
<1>1. Marks(counts, from, to) \subseteq Marks(counts, from2, to2)
  <2>1. ASSUME NEW mark \in Marks(counts, from, to)
        PROVE  mark \in Marks(counts, from2, to2)
    <3>1. PICK m \in Minutes : from <= m /\ m <= to /\ mark \in {m} \X (1..counts[m])
      BY MarksOf
    <3>2. counts[m] # 0
      BY <3>1
    <3>3. QED
      BY <3>1, <3>2, MarksOf
  <2>2. QED
    BY <2>1
<1>2. QED
  BY <1>1, MarksAreFinite, FS_Subset DEF Within

LEMMA OneMore ==
  ASSUME NEW counts \in [Minutes -> Nat], NEW m \in Minutes, NEW from, NEW to
  PROVE  Within([counts EXCEPT ![m] = @ + 1], from, to)
           = IF from <= m /\ m <= to THEN Within(counts, from, to) + 1 ELSE Within(counts, from, to)
<1> DEFINE more == [counts EXCEPT ![m] = @ + 1]
           mark == <<m, counts[m] + 1>>
<1>1. /\ more[m] = counts[m] + 1 /\ counts[m] \in Nat /\ \A k \in Minutes \ {m} : more[k] = counts[k]
      /\ more \in [Minutes -> Nat]
  OBVIOUS
<1> HIDE DEF more
<1>2. 1..more[m] = (1..counts[m]) \cup {counts[m] + 1}
  BY <1>1
<1>3. CASE from <= m /\ m <= to
  <2>1. Marks(more, from, to) = Marks(counts, from, to) \cup {mark}
    <3>1. ASSUME NEW x \in Marks(more, from, to)
          PROVE  x \in Marks(counts, from, to) \cup {mark}
      <4>1. PICK k \in Minutes : from <= k /\ k <= to /\ x \in {k} \X (1..more[k])
        BY <3>1, MarksOf
      <4>2. CASE k = m
        <5>1. x \in {m} \X (1..counts[m]) \/ x = mark
          BY <1>2, <4>1, <4>2
        <5>2. QED
          BY <1>3, <5>1, MarksOf
      <4>3. CASE k # m
        <5>1. x \in {k} \X (1..counts[k])
          BY <1>1, <4>1, <4>3
        <5>2. QED
          BY <4>1, <5>1, MarksOf
      <4>4. QED
        BY <4>2, <4>3
    <3>2. ASSUME NEW x \in Marks(counts, from, to)
          PROVE  x \in Marks(more, from, to)
      <4>1. PICK k \in Minutes : from <= k /\ k <= to /\ x \in {k} \X (1..counts[k])
        BY <3>2, MarksOf
      <4>2. x \in {k} \X (1..more[k])
        <5>1. CASE k = m
          BY <1>2, <4>1, <5>1
        <5>2. CASE k # m
          BY <1>1, <4>1, <5>2
        <5>3. QED
          BY <5>1, <5>2
      <4>3. QED
        BY <4>1, <4>2, MarksOf
    <3>3. mark \in Marks(more, from, to)
      <4>1. counts[m] + 1 \in 1..more[m]
        BY <1>1
      <4>2. mark \in {m} \X (1..more[m])
        BY <4>1
      <4>3. QED
        BY <1>3, <4>2, MarksOf
    <3>4. QED
      BY <3>1, <3>2, <3>3
  <2>2. mark \notin Marks(counts, from, to)
    <3>1. SUFFICES ASSUME mark \in Marks(counts, from, to) PROVE FALSE
      OBVIOUS
    <3>2. PICK k \in Minutes : mark \in {k} \X (1..counts[k])
      BY <3>1, MarksOf
    <3>3. k = m /\ counts[m] + 1 \in 1..counts[m]
      BY <3>2
    <3>4. QED
      BY <1>1, <3>3
  <2>3. QED
    BY <1>3, <2>1, <2>2, MarksAreFinite, FS_AddElement DEF Within, more
<1>4. CASE ~(from <= m /\ m <= to)
  <2>1. Marks(more, from, to) = Marks(counts, from, to)
    <3>1. ASSUME NEW x
          PROVE  x \in Marks(more, from, to) <=> x \in Marks(counts, from, to)
      <4>1. \A k \in Minutes : from <= k /\ k <= to => more[k] = counts[k]
        BY <1>1, <1>4
      <4>2. QED
        BY <4>1, MarksOf
    <3>2. QED
      BY <3>1
  <2>2. QED
    BY <1>4, <2>1 DEF Within, more
<1>5. QED
  BY <1>3, <1>4

LEMMA NoMarks ==
  ASSUME NEW counts, NEW from, NEW to, \A m \in Minutes : counts[m] = 0
  PROVE  Within(counts, from, to) = 0
<1>1. ASSUME NEW x \in Marks(counts, from, to)
      PROVE  FALSE
  <2>1. PICK m \in Minutes : x \in {m} \X (1..counts[m])
    BY MarksOf
  <2>2. QED
    BY <2>1
<1>2. QED
  BY <1>1, FS_EmptySet DEF Within

-----------------------------------------------------------------------------
\* The limits.

\* Where the window of a subject starts that ends with a minute.
From(subject, last) == IF subject = "typing" THEN last ELSE last - Span + 1

LEMMA Mosts ==
  ASSUME NEW subject \in Subjects
  PROVE  /\ Most(subject) \in Nat
         /\ \A tier \in {"unlinked", "linked"} : Limits[tier] \in Nat
         /\ subject \in People => \A tier \in {"unlinked", "linked"} : Limits[tier] <= Most(subject)
<1>1. Limits \in [Tiers -> Nat \ {0}]
  BY RequestsAssumption DEF RequestsAssumption
<1> DEFINE a == Limits["unlinked"]
           b == Limits["linked"]
<1>2. a \in Nat /\ b \in Nat /\ Limits["guild"] \in Nat /\ Limits["autocomplete"] \in Nat
  BY <1>1 DEF Tiers
<1>3. Max({a, b}) \in {a, b} /\ Max({a, b}) >= a /\ Max({a, b}) >= b
  <2> HIDE DEF a, b
  <2>1. \E x \in {a, b} : \A y \in {a, b} : x >= y
    BY <1>2
  <2>2. QED
    BY <2>1 DEF Max
<1>4. subject \in People => Most(subject) = Max({a, b})
  BY DEF Most, People
<1>5. Most(subject) \in {Limits["autocomplete"], Limits["guild"], Max({a, b})}
  BY DEF Most
<1>6. QED
  BY <1>2, <1>3, <1>4, <1>5

LEMMA TierFits ==
  ASSUME TypeOK, AnswerInv, NEW i \in Interactions,
         request[i].step \in {"typing", "person", "server", "countTyping", "countPerson", "countServer"}
  PROVE  LET subject == Counted(i)   tier == TierOf(Form(i), subject) IN
           /\ subject \in Subjects /\ Limits[tier] \in Nat /\ Limits[tier] <= Most(subject)
           /\ \A last : Start(tier, last) = From(subject, last)
<1>1. Way(i) /\ Form(i) \in Forms
  BY DEF AnswerInv, Way
<1>2. Form(i).person \in People /\ Form(i).tier \in {"unlinked", "linked"}
  BY <1>1 DEF Forms
<1> DEFINE subject == Counted(i)
           tier == TierOf(Form(i), subject)
<1>3. subject \in People \/ subject = "typing" \/ subject = "server"
  BY <1>2 DEF Counted
<1>4. Limits["guild"] \in Nat /\ Limits["autocomplete"] \in Nat
  BY RequestsAssumption DEF RequestsAssumption, Tiers
<1> HIDE DEF subject
<1>5. subject \in Subjects
  BY <1>3 DEF Subjects
<1>6. CASE subject = "typing" \/ subject = "server"
  <2>1. tier = IF subject = "typing" THEN "autocomplete" ELSE "guild"
    BY <1>6 DEF TierOf
  <2>2. Most(subject) = IF subject = "typing" THEN Limits["autocomplete"] ELSE Limits["guild"]
    BY <1>6 DEF Most
  <2>3. Limits[tier] \in Nat /\ Limits[tier] <= Most(subject)
    BY <1>4, <1>6, <2>1, <2>2
  <2>4. \A last : Start(tier, last) = From(subject, last)
    BY <1>6, <2>1 DEF Start, From
  <2>5. QED
    BY <1>5, <2>3, <2>4 DEF subject
<1>7. CASE subject \in People
  <2>1. tier = Form(i).tier /\ subject # "typing" /\ subject # "server"
    BY <1>7 DEF TierOf, People
  <2>2. Limits[tier] \in Nat /\ Limits[tier] <= Most(subject)
    BY <1>2, <1>5, <1>7, <2>1, Mosts
  <2>3. \A last : Start(tier, last) = From(subject, last)
    BY <1>2, <2>1 DEF Start, From
  <2>4. QED
    BY <1>5, <2>2, <2>3 DEF subject
<1>8. QED
  BY <1>3, <1>6, <1>7

\* What of the counts one interaction tells, as the others see it.
LEMMA CountsStay ==
  ASSUME NEW j \in Interactions, CountInv(j), TypeOK, AnswerInv, TypeOK', now <= now',
         request'[j] = request[j],
         request[j].step \in {"countTyping", "countPerson", "countServer"} =>
           \/ allowed'[Counted(j)] = allowed[Counted(j)]
           \/ Total(Counted(j)) < Within(allowed'[Counted(j)], 0, MaxTime)
  PROVE  CountInv(j)'
<1> DEFINE subject == Counted(j)
           tier == TierOf(Form(j), subject)
           read == request[j]
<1>1. SUFFICES ASSUME read.step \in {"countTyping", "countPerson", "countServer"}
               PROVE  CountInv(j)'
  BY DEF CountInv
<1>2. Counted(j)' = Counted(j) /\ Form(j)' = Form(j) /\ subject \in Subjects
  BY <1>1, TierFits DEF Counted, Form
<1>3. /\ read.minute <= now /\ read.seen <= Total(subject)
      /\ read.seen = Total(subject) =>
           /\ read.used = Within(allowed[subject], Start(tier, read.minute), read.minute)
           /\ read.used < Limits[tier]
           /\ \A m \in Minutes : m > read.minute => allowed[subject][m] = 0
  BY <1>1 DEF CountInv
<1>4. read.minute \in Int /\ read.seen \in Int /\ now \in Int /\ now' \in Int
  <2>1. read \in Readings /\ now \in Minutes
    BY DEF TypeOK
  <2>2. now' \in Minutes
    BY DEF TypeOK
  <2>3. QED
    BY <2>1, <2>2 DEF Readings, Minutes
<1> DEFINE total == Within(allowed'[subject], 0, MaxTime)
<1>5. Total(subject) \in Int /\ total \in Int
  <2>1. allowed[subject] \in [Minutes -> Nat]
    BY <1>2 DEF TypeOK
  <2>2. allowed'[subject] \in [Minutes -> Nat]
    BY <1>2 DEF TypeOK
  <2>3. Within(allowed[subject], 0, MaxTime) \in Nat /\ total \in Nat
    BY <2>1, <2>2, MarksAreFinite
  <2>4. QED
    BY <2>3 DEF Total
<1>6. Total(subject)' = total
  BY <1>2 DEF Total
<1>7. CountInv(j)' <=>
        /\ read.minute <= now' /\ read.seen <= total
        /\ read.seen = total =>
             /\ read.used = Within(allowed'[subject], Start(tier, read.minute), read.minute)
             /\ read.used < Limits[tier]
             /\ \A m \in Minutes : m > read.minute => allowed'[subject][m] = 0
  BY <1>1, <1>2, <1>6 DEF CountInv
<1>8. CASE allowed'[subject] = allowed[subject]
  <2>1. total = Total(subject)
    BY <1>8 DEF Total
  <2>2. read.minute <= now' /\ read.seen <= total
    BY <1>3, <1>4, <2>1
  <2>3. QED
    BY <1>3, <1>7, <1>8, <2>1, <2>2
<1>9. CASE Total(subject) < total
  <2>1. read.seen < total /\ read.minute <= now' /\ read.seen # total /\ read.seen <= total
    BY <1>3, <1>4, <1>5, <1>9
  <2>2. QED
    BY <1>7, <2>1
<1>10. QED
  BY <1>1, <1>8, <1>9

LEMMA InitLimits == Init => LimitInv
<1> SUFFICES ASSUME Init PROVE LimitInv
  OBVIOUS
<1>1. windows = [s \in Subjects |-> [m \in Minutes |-> 0]] /\ allowed = windows
        /\ overlaps = [s \in Subjects |-> 0]
  BY DEF Init
<1>2. \A s \in Subjects, m \in Minutes : allowed[s][m] = 0
  BY <1>1
<1>3. \A s \in Subjects : \A from, to : Within(allowed[s], from, to) = 0
  BY <1>2, NoMarks
<1>4. \A s \in Subjects : Most(s) \in Nat /\ overlaps[s] = 0
  BY <1>1, Mosts
<1>5. LimitsHold
  <2>1. \A s \in Subjects : 0 <= Most(s) + overlaps[s]
    BY <1>4
  <2>2. QED
    BY <1>1, <1>3, <2>1 DEF LimitsHold
<1>6. \A i \in Interactions : CountInv(i)
  BY DEF Init, Fresh, CountInv
<1>7. QED
  BY <1>2, <1>5, <1>6 DEF LimitInv

\* Where nothing is counted, the interactions that are counting stay as they are.
LEMMA NothingCounted ==
  ASSUME TypeOK, AnswerInv, TypeOK', LimitInv, now <= now', UNCHANGED <<windows, allowed, overlaps>>,
         \A i \in Interactions : \/ request'[i] = request[i]
                                 \/ request'[i].step \notin {"countTyping", "countPerson", "countServer"}
  PROVE  LimitInv'
<1>1. LimitsHold'
  BY DEF LimitInv, LimitsHold
<1>2. now \in Int /\ now' \in Int
  <2>1. now \in Minutes
    BY DEF TypeOK
  <2>2. now' \in Minutes
    BY DEF TypeOK
  <2>3. QED
    BY <2>1, <2>2 DEF Minutes
<1>3. \A m \in Minutes : m \in Int
  BY DEF Minutes
<1>4. \A s \in Subjects, m \in Minutes : m > now' => allowed'[s][m] = 0
  <2>1. \A m \in Minutes : m > now' => m > now
    BY <1>2, <1>3
  <2>2. QED
    BY <2>1 DEF LimitInv
<1>5. ASSUME NEW i \in Interactions
      PROVE  CountInv(i)'
  <2>1. CASE request'[i] = request[i]
    BY <2>1, CountsStay DEF LimitInv
  <2>2. CASE request'[i].step \notin {"countTyping", "countPerson", "countServer"}
    BY <2>2 DEF CountInv
  <2>3. QED
    BY <1>5, <2>1, <2>2
<1>6. QED
  BY <1>1, <1>4, <1>5 DEF LimitInv

LEMMA ReadingKeeps ==
  ASSUME TypeOK, AnswerInv, TypeOK', LimitInv, NEW i \in Interactions, ReadWindow(i)
  PROVE  LimitInv'
<1> DEFINE subject == Counted(i)
           tier == TierOf(Form(i), subject)
           used == Used(subject, tier)
           read == request[i]
           seen == Within(allowed[subject], 0, MaxTime)
<1>1. /\ read.step \in {"typing", "person", "server"}
      /\ IF used < Limits[tier]
         THEN Knowing(i, Counting(read.step), [read EXCEPT !.used = used, !.minute = now, !.seen = seen])
         ELSE Goes(i, IF subject = "typing" THEN "list" ELSE "refuse")
      /\ UNCHANGED <<windows, allowed, overlaps, now>>
  BY DEF ReadWindow, database
<1>2. read \in Readings /\ now \in Minutes /\ request \in [Interactions -> Readings]
  BY DEF TypeOK
<1>3. now \in Int /\ now <= now'
  BY <1>1, <1>2 DEF Minutes
<1>4. CASE ~(used < Limits[tier])
  <2>1. Goes(i, IF subject = "typing" THEN "list" ELSE "refuse")
    BY <1>1, <1>4
  <2>2. PICK step \in {"list", "refuse"} : Goes(i, step)
    BY <2>1
  <2>3. request'[i].step = step /\ \A j \in Interactions \ {i} : request'[j] = request[j]
    <3>1. step \in Steps
      BY DEF Steps
    <3>2. /\ request'[i] = [request[i] EXCEPT !.step = step]
          /\ \A j \in Interactions \ {i} : request'[j] = request[j]
      BY <2>2, <3>1, GoesOn
    <3>3. QED
      BY <1>2, <3>2 DEF Readings
  <2>4. \A j \in Interactions : \/ request'[j] = request[j]
                                \/ request'[j].step \notin {"countTyping", "countPerson", "countServer"}
    BY <2>3
  <2>5. QED
    BY <1>1, <1>3, <2>4, NothingCounted
<1>5. CASE used < Limits[tier]
  <2> DEFINE step == Counting(read.step)
  <2>1. Knowing(i, step, [read EXCEPT !.used = used, !.minute = now, !.seen = seen])
    BY <1>1, <1>5
  <2>2. subject \in Subjects /\ Limits[tier] \in Nat /\ allowed[subject] \in [Minutes -> Nat] /\ windows = allowed
    BY <1>1, TierFits DEF TypeOK, LimitInv, LimitsHold
  <2>3. used \in Nat /\ seen \in Nat /\ used = Within(allowed[subject], Earliest(tier), now)
    BY <2>2, MarksAreFinite DEF Used
  <2>4. step \in {"countTyping", "countPerson", "countServer"} /\ step \in Steps
    BY DEF Counting, Steps
  <2> HIDE DEF used, seen, step
  <2>5. [read EXCEPT !.used = used, !.minute = now, !.seen = seen] \in Readings
    BY <1>2, <2>3 DEF Readings
  <2>6. /\ request'[i] = [[read EXCEPT !.used = used, !.minute = now, !.seen = seen] EXCEPT !.step = step]
        /\ \A j \in Interactions \ {i} : request'[j] = request[j]
    <3> DEFINE r == [read EXCEPT !.used = used, !.minute = now, !.seen = seen]
    <3>1. r \in Readings /\ Knowing(i, step, r)
      BY <2>1, <2>5
    <3> HIDE DEF r
    <3>2. request'[i] = [r EXCEPT !.step = step] /\ \A j \in Interactions \ {i} : request'[j] = request[j]
      BY <2>4, <3>1, KnowsMore
    <3>3. QED
      BY <3>2 DEF r
  <2>7. /\ request'[i].form = Form(i) /\ request'[i].step = step /\ request'[i].used = used
        /\ request'[i].minute = now /\ request'[i].seen = seen
    BY <1>2, <2>6 DEF Readings, Form
  <2>8. Counted(i)' = subject /\ Form(i)' = Form(i)
    <3>1. /\ read.step = "typing" => step = "countTyping"
          /\ read.step = "person" => step = "countPerson"
          /\ read.step = "server" => step = "countServer"
      BY DEF step, Counting
    <3>2. QED
      BY <1>1, <2>7, <3>1 DEF Counted, Form
  <2>9. CountInv(i)'
    <3>1. Total(subject) = seen /\ Total(Counted(i))' = seen
      BY <1>1, <2>8 DEF Total, seen
    <3>2. Earliest(tier) = Start(tier, now)
      BY DEF Earliest, Start
    <3>3. \A m \in Minutes : m > now => allowed[subject][m] = 0
      BY <2>2 DEF LimitInv
    <3>4. seen <= seen /\ now <= now'
      BY <1>3, <2>3
    <3>5. request'[i].used = Within(allowed'[subject], Start(tier, now), now)
      BY <1>1, <2>3, <2>7, <3>2
    <3>6. QED
      BY <1>1, <1>5, <2>7, <2>8, <3>1, <3>3, <3>4, <3>5 DEF CountInv
  <2>10. ASSUME NEW j \in Interactions \ {i}
         PROVE  CountInv(j)'
    BY <1>1, <1>3, <2>6, CountsStay DEF LimitInv
  <2>11. LimitsHold' /\ \A s \in Subjects, m \in Minutes : m > now' => allowed'[s][m] = 0
    BY <1>1 DEF LimitInv, LimitsHold
  <2>12. QED
    BY <2>9, <2>10, <2>11 DEF LimitInv
<1>6. QED
  BY <1>4, <1>5

LEMMA CountingKeeps ==
  ASSUME TypeOK, AnswerInv, TypeOK', LimitInv, NEW i \in Interactions, CountOne(i)
  PROVE  LimitInv'
<1> DEFINE subject == Counted(i)
           tier == TierOf(Form(i), subject)
           read == request[i]
           minute == read.minute
           more == [allowed[subject] EXCEPT ![minute] = @ + 1]
           before == Within(allowed[subject], 0, MaxTime)
<1>1. /\ read.step \in {"countTyping", "countPerson", "countServer"}
      /\ windows' = [windows EXCEPT ![subject][minute] = windows[subject][minute] + 1]
      /\ allowed' = [allowed EXCEPT ![subject][minute] = @ + 1]
      /\ overlaps' = [overlaps EXCEPT ![subject] = IF before > read.seen THEN @ + 1 ELSE @]
      /\ \E step \in {"run", "server", "acknowledge"} : Goes(i, step)
      /\ now' = now
  BY DEF CountOne, Stored, Acknowledges
<1>2. subject \in Subjects /\ Limits[tier] \in Nat /\ Limits[tier] <= Most(subject)
        /\ \A last : Start(tier, last) = From(subject, last)
  BY <1>1, TierFits
<1>3. Most(subject) \in Nat
  BY <1>2, Mosts
<1>4. read \in Readings /\ now \in Minutes
  BY DEF TypeOK
<1>5. minute \in Minutes /\ read.used \in Nat /\ read.seen \in Nat
  BY <1>4 DEF Readings
<1>6. windows \in [Subjects -> [Minutes -> Nat]] /\ allowed \in [Subjects -> [Minutes -> Nat]]
        /\ overlaps \in [Subjects -> Nat] /\ windows = allowed
  BY DEF TypeOK, LimitInv, LimitsHold
<1>7. CountInv(i) /\ LimitsHold
  BY DEF LimitInv
<1>8. /\ minute <= now /\ read.seen <= before
      /\ read.seen = before =>
           /\ read.used = Within(allowed[subject], From(subject, minute), minute)
           /\ read.used < Limits[tier]
           /\ \A m \in Minutes : m > minute => allowed[subject][m] = 0
  BY <1>1, <1>2, <1>7 DEF CountInv, Total
<1>9. PICK step \in {"run", "server", "acknowledge"} : Goes(i, step)
  BY <1>1
<1>10. request'[i].step = step /\ \A j \in Interactions \ {i} : request'[j] = request[j]
  <2>1. step \in Steps
    BY DEF Steps
  <2>2. /\ request'[i] = [request[i] EXCEPT !.step = step]
        /\ \A j \in Interactions \ {i} : request'[j] = request[j]
    BY <1>9, <2>1, GoesOn
  <2>3. QED
    BY <1>4, <2>2 DEF Readings
<1>11. \A m \in Minutes : m \in Int
  BY DEF Minutes
<1> HIDE DEF subject, tier, read, minute
<1>12. allowed' = [allowed EXCEPT ![subject] = more]
  <2>1. allowed' = [allowed EXCEPT ![subject][minute] = @ + 1]
    BY <1>1
  <2>2. QED
    BY <1>2, <1>6, <2>1
<1>13. allowed[subject] \in [Minutes -> Nat] /\ allowed'[subject] = more /\ windows' = allowed'
       /\ \A s \in Subjects \ {subject} : allowed'[s] = allowed[s]
  <2>1. windows' = [windows EXCEPT ![subject][minute] = windows[subject][minute] + 1]
    BY <1>1
  <2>2. windows' = [windows EXCEPT ![subject] = more]
    BY <1>2, <1>6, <2>1
  <2>3. QED
    BY <1>2, <1>6, <1>12, <2>2
<1>14. \A from, to : Within(allowed'[subject], from, to)
                       = IF from <= minute /\ minute <= to THEN Within(allowed[subject], from, to) + 1
                         ELSE Within(allowed[subject], from, to)
  BY <1>5, <1>13, OneMore
<1>15. \A from, to : Within(allowed[subject], from, to) \in Nat
  BY <1>13, MarksAreFinite
<1> HIDE DEF more, before
<1>16. LimitsHold'
  <2>1. ASSUME NEW s \in Subjects \ {subject}, NEW last \in Minutes
        PROVE  Within(allowed'[s], From(s, last), last) <= Most(s) + overlaps'[s]
    <3>1. allowed'[s] = allowed[s] /\ overlaps'[s] = overlaps[s]
      BY <1>1, <1>6, <1>13
    <3>2. QED
      BY <1>7, <3>1 DEF LimitsHold, From
  <2>2. ASSUME NEW last \in Minutes
        PROVE  Within(allowed'[subject], From(subject, last), last) <= Most(subject) + overlaps'[subject]
    <3> DEFINE from == From(subject, last)
               was == Within(allowed[subject], from, last)
               is == Within(allowed'[subject], from, last)
    <3>1. was <= Most(subject) + overlaps[subject] /\ was \in Nat /\ overlaps[subject] \in Nat
      BY <1>2, <1>6, <1>7, <1>15 DEF LimitsHold, From
    <3>2. overlaps'[subject] = IF before > read.seen THEN overlaps[subject] + 1 ELSE overlaps[subject]
      BY <1>1, <1>2, <1>6
    <3>3. is = IF from <= minute /\ minute <= last THEN was + 1 ELSE was
      BY <1>14
    <3>4. CASE before > read.seen \/ ~(from <= minute /\ minute <= last)
      <4> HIDE DEF from, was, is
      <4>1. QED
        BY <1>3, <3>1, <3>2, <3>3, <3>4 DEF is, from
    <3>5. CASE ~(before > read.seen) /\ from <= minute /\ minute <= last
      <4>1. before \in Nat
        BY <1>15 DEF before
      <4>2. read.seen = before
        BY <1>5, <1>8, <3>5, <4>1
      <4>3. \A m \in Minutes : from <= m /\ m <= last /\ allowed[subject][m] # 0 =>
                                 From(subject, minute) <= m /\ m <= minute
        <5>1. Span \in Int
          BY RequestsAssumption DEF RequestsAssumption
        <5>2. \A m \in Minutes : allowed[subject][m] # 0 => m <= minute
          BY <1>5, <1>8, <1>11, <4>2
        <5>3. \A m \in Minutes : from <= m /\ m <= minute => From(subject, minute) <= m
          <6>1. CASE subject = "typing"
            BY <1>5, <1>11, <3>5, <6>1 DEF From
          <6>2. CASE subject # "typing"
            BY <1>5, <1>11, <3>5, <5>1, <6>2 DEF From
          <6>3. QED
            BY <6>1, <6>2
        <5>4. QED
          BY <5>2, <5>3
      <4>4. was <= Within(allowed[subject], From(subject, minute), minute)
        BY <1>13, <4>3, Wider
      <4>5. was <= read.used /\ read.used < Limits[tier]
        BY <1>8, <4>2, <4>4
      <4>6. is = was + 1
        BY <3>3, <3>5
      <4> HIDE DEF is, was
      <4>7. is <= Most(subject)
        BY <1>2, <1>3, <1>5, <3>1, <4>5, <4>6
      <4>8. overlaps'[subject] \in Nat
        BY <1>2 DEF TypeOK
      <4>9. is <= Most(subject) + overlaps'[subject]
        BY <1>3, <3>1, <4>6, <4>7, <4>8
      <4>10. QED
        BY <4>9 DEF is
    <3>6. QED
      BY <3>4, <3>5
  <2>3. \A s \in Subjects, last \in Minutes :
          Within(allowed'[s], From(s, last), last) <= Most(s) + overlaps'[s]
    BY <2>1, <2>2
  <2>4. QED
    BY <1>13, <2>3 DEF LimitsHold, From, Most
<1>17. ASSUME NEW s \in Subjects, NEW m \in Minutes, m > now'
       PROVE  allowed'[s][m] = 0
  <2>1. m # minute /\ m > now
    BY <1>1, <1>4, <1>5, <1>8, <1>11, <1>17
  <2>2. allowed[s][m] = 0
    BY <2>1 DEF LimitInv
  <2>3. CASE s = subject
    BY <1>13, <2>1, <2>2, <2>3 DEF more
  <2>4. CASE s # subject
    BY <1>13, <2>2, <2>4
  <2>5. QED
    BY <2>3, <2>4
<1>18. ASSUME NEW j \in Interactions
       PROVE  CountInv(j)'
  <2>1. CASE j = i
    BY <1>10, <2>1 DEF CountInv
  <2>2. CASE j # i
    <3>1. request'[j] = request[j] /\ CountInv(j) /\ now <= now'
      BY <1>1, <1>4, <1>10, <1>11, <2>2 DEF LimitInv
    <3>2. request[j].step \in {"countTyping", "countPerson", "countServer"} => Counted(j) \in Subjects
      BY TierFits
    <3>3. ASSUME Counted(j) = subject
          PROVE  Total(Counted(j)) < Within(allowed'[Counted(j)], 0, MaxTime)
      <4>1. 0 <= minute /\ minute <= MaxTime
        BY <1>5 DEF Minutes
      <4>2. Within(allowed'[subject], 0, MaxTime) = Within(allowed[subject], 0, MaxTime) + 1
        BY <1>14, <4>1
      <4>3. QED
        BY <1>15, <3>3, <4>2 DEF Total
    <3>4. request[j].step \in {"countTyping", "countPerson", "countServer"} =>
             \/ allowed'[Counted(j)] = allowed[Counted(j)]
             \/ Total(Counted(j)) < Within(allowed'[Counted(j)], 0, MaxTime)
      BY <1>13, <3>2, <3>3
    <3>5. QED
      BY <3>1, <3>4, CountsStay
  <2>3. QED
    BY <2>1, <2>2
<1>19. QED
  BY <1>16, <1>17, <1>18 DEF LimitInv

\* Where a step brings an interaction: it counts only what it has read the window
\* of, and writes down only what it has fetched.
LEMMA WhereTo ==
  ASSUME TypeOK, AnswerInv, NEW i \in Interactions, Step(i)
  PROVE  /\ \A j \in Interactions \ {i} : request'[j] = request[j]
         /\ \/ request'[i] = request[i]
            \/ /\ request'[i].step \in {"countTyping", "countPerson", "countServer"} => ReadWindow(i)
               /\ request'[i].step = "store" => Fetch(i)
<1>1. ASSUME NEW step \in Steps, Goes(i, step)
      PROVE  request'[i].step = step /\ \A j \in Interactions \ {i} : request'[j] = request[j]
  <2>1. /\ request'[i] = [request[i] EXCEPT !.step = step]
        /\ \A j \in Interactions \ {i} : request'[j] = request[j]
    BY <1>1, GoesOn
  <2>2. request'[i].step = step
    BY <2>1 DEF TypeOK, Readings
  <2>3. QED
    BY <2>1, <2>2
<1>2. ASSUME NEW step \in Steps, NEW r \in Readings, Knowing(i, step, r)
      PROVE  request'[i].step = step /\ \A j \in Interactions \ {i} : request'[j] = request[j]
  <2>1. /\ request'[i] = [r EXCEPT !.step = step]
        /\ \A j \in Interactions \ {i} : request'[j] = request[j]
    BY <1>2, KnowsMore
  <2>2. request'[i].step = step
    BY <1>2, <2>1 DEF Readings
  <2>3. QED
    BY <2>1, <2>2
<1>3. request[i] \in Readings
  BY DEF TypeOK
<1>4. CASE Arrives(i)
  <2>1. PICK form \in scene.forms : Knowing(i, FirstStep(form), [request[i] EXCEPT !.form = form])
    BY <1>4 DEF Arrives
  <2>2. form \in Forms
    BY RequestsAssumption DEF RequestsAssumption, TypeOK
  <2>3. /\ FirstStep(form) \in {"list", "typing", "refuse", "done", "switch"}
        /\ FirstStep(form) \in Steps /\ [request[i] EXCEPT !.form = form] \in Readings
    BY <1>3, <2>2 DEF FirstStep, Steps, Readings
  <2>4. QED
    BY <1>2, <2>1, <2>3
<1>5. CASE ReadWindow(i)
  <2>1. \A j \in Interactions \ {i} : request'[j] = request[j]
    BY <1>5, MovesKeep
  <2>2. request'[i].step # "store"
    <3> DEFINE subject == Counted(i)
               used == Used(subject, TierOf(Form(i), subject))
               seen == Within(allowed[subject], 0, MaxTime)
               r == [request[i] EXCEPT !.used = used, !.minute = now, !.seen = seen]
    <3>1. Knowing(i, Counting(request[i].step), r) \/ Goes(i, "list") \/ Goes(i, "refuse")
      BY <1>5 DEF ReadWindow
    <3>2. "list" \in Steps /\ "refuse" \in Steps
      BY DEF Steps
    <3>3. CASE Knowing(i, Counting(request[i].step), r)
      <4>1. request'[i] = [r EXCEPT !.step = Counting(request[i].step)]
        BY <3>3 DEF Knowing, TypeOK
      <4>2. request'[i].step = Counting(request[i].step)
        BY <1>3, <4>1 DEF Readings
      <4>3. QED
        BY <4>2 DEF Counting
    <3>4. QED
      BY <1>1, <3>1, <3>2, <3>3
  <2>3. QED
    BY <1>5, <2>1, <2>2
<1>6. CASE Fetch(i)
  <2>1. \A j \in Interactions \ {i} : request'[j] = request[j]
    BY <1>6, MovesKeep
  <2>2. request'[i].step \in {"store", "answer"}
    <3> DEFINE seen == version[Shows(Form(i).reads)]
               inner == Form(i).reads = "internal" \/ (Form(i).reads = "event" /\ internal)
               r == [request[i] EXCEPT !.seen = seen, !.internal = inner]
    <3>1. PICK step \in {"store", "answer"} : Knowing(i, step, r)
      BY <1>6 DEF Fetch
    <3>2. request'[i] = [r EXCEPT !.step = step]
      BY <3>1 DEF Knowing, TypeOK
    <3>3. QED
      BY <1>3, <3>2 DEF Readings
  <2>3. QED
    BY <1>6, <2>1, <2>2
<1>7. CASE Lapse(i)
  BY <1>7 DEF Lapse, database, history
<1>8. CASE Fails(i)
  <2>1. CASE Goes(i, "done") \/ Goes(i, "list")
    <3>1. "done" \in Steps /\ "list" \in Steps
      BY DEF Steps
    <3>2. QED
      BY <1>1, <2>1, <3>1
  <2>2. CASE Knowing(i, "answer", [request[i] EXCEPT !.failed = TRUE])
    <3>1. "answer" \in Steps /\ [request[i] EXCEPT !.failed = TRUE] \in Readings
      BY <1>3 DEF Steps, Readings
    <3>2. QED
      BY <1>2, <2>2, <3>1
  <2>3. QED
    BY <1>8, <2>1, <2>2 DEF Fails
<1>9. CASE \/ RefusedByTheServer(i) \/ Refuse(i) \/ CountOne(i) \/ Acknowledge(i) \/ AcknowledgePanel(i)
           \/ Run(i) \/ Store(i) \/ AnswerOrShowModal(i) \/ ApplyUpdate(i) \/ AnswerAutocomplete(i)
  <2>1. PICK step \in {"refuse", "person", "server", "acknowledge", "done", "run", "answer", "fetch"} :
          Goes(i, step)
    BY <1>9 DEF RefusedByTheServer, Refuse, CountOne, Acknowledges, Acknowledge, AcknowledgePanel, Run, Store,
                AnswerOrShowModal, ApplyUpdate, AnswerAutocomplete
  <2>2. step \in Steps
    BY DEF Steps
  <2>3. QED
    BY <1>1, <2>1, <2>2
<1>10. QED
  BY <1>4, <1>5, <1>6, <1>7, <1>8, <1>9 DEF Step

LEMMA CountsNothing ==
  ASSUME TypeOK, AnswerInv, NEW i \in Interactions, Step(i), ~ReadWindow(i), ~CountOne(i)
  PROVE  /\ UNCHANGED <<windows, allowed, overlaps, now>>
         /\ \A j \in Interactions : \/ request'[j] = request[j]
                                    \/ request'[j].step \notin {"countTyping", "countPerson", "countServer"}
<1>1. UNCHANGED <<windows, allowed, overlaps, now>>
  BY DEF Step, Arrives, RefusedByTheServer, Refuse, Acknowledge, AcknowledgePanel, Run, Fetch, Store,
         AnswerOrShowModal, ApplyUpdate, AnswerAutocomplete, Lapse, Fails, database, history
<1>2. QED
  BY <1>1, WhereTo

LEMMA LimitsKept == Spec => []LimitInv
<1>1. TypeOK /\ AnswerInv /\ (TypeOK /\ AnswerInv)' /\ LimitInv /\ [Next]_vars => LimitInv'
  <2> SUFFICES ASSUME TypeOK, AnswerInv, TypeOK', LimitInv, [Next]_vars
               PROVE  LimitInv'
    OBVIOUS
  <2>1. now \in Int /\ now' \in Int
    <3>1. now \in Minutes
      BY DEF TypeOK
    <3>2. now' \in Minutes
      BY DEF TypeOK
    <3>3. QED
      BY <3>1, <3>2 DEF Minutes
  <2>2. ASSUME NEW i \in Interactions, Step(i)
        PROVE  LimitInv'
    <3>1. CASE ReadWindow(i)
      BY <3>1, ReadingKeeps
    <3>2. CASE CountOne(i)
      BY <3>2, CountingKeeps
    <3>3. CASE ~ReadWindow(i) /\ ~CountOne(i)
      <4>1. /\ UNCHANGED <<windows, allowed, overlaps, now>>
            /\ \A j \in Interactions : \/ request'[j] = request[j]
                                       \/ request'[j].step \notin {"countTyping", "countPerson", "countServer"}
        BY <2>2, <3>3, CountsNothing
      <4>2. now <= now'
        BY <2>1, <4>1
      <4>3. QED
        BY <4>1, <4>2, NothingCounted
    <3>4. QED
      BY <3>1, <3>2, <3>3
  <2>3. CASE UNCHANGED <<request, windows, allowed, overlaps>> /\ now <= now'
    BY <2>3, NothingCounted
  <2>4. ASSUME \/ \E outcome \in {"handled", "unhandled"} : Handle(outcome)
               \/ \E topic \in Topics : Changes(topic)
               \/ Toggle \/ Tick \/ UNCHANGED vars
        PROVE  UNCHANGED <<request, windows, allowed, overlaps>> /\ (now' = now \/ now' = now + 1)
    BY <2>4 DEF Handle, Changes, Toggle, Tick, vars, database, history
  <2>5. CASE Crash
    <3>1. /\ UNCHANGED <<windows, allowed, overlaps, now>>
          /\ request' = [i \in Interactions |-> IF At(i, "new") THEN Fresh ELSE [request[i] EXCEPT !.step = "done"]]
      BY <2>5 DEF Crash, database
    <3>2. ASSUME NEW i \in Interactions
          PROVE  request'[i].step \notin {"countTyping", "countPerson", "countServer"}
      <4>1. CASE At(i, "new")
        BY <3>1, <4>1 DEF Fresh
      <4>2. CASE ~At(i, "new")
        <5>1. request'[i] = [request[i] EXCEPT !.step = "done"] /\ request[i] \in Readings
          BY <3>1, <4>2 DEF TypeOK
        <5>2. request'[i].step = "done"
          BY <5>1 DEF Readings
        <5>3. QED
          BY <5>2
      <4>3. QED
        BY <4>1, <4>2
    <3>3. now <= now'
      BY <2>1, <3>1
    <3>4. QED
      BY <3>1, <3>2, <3>3, NothingCounted
  <2>6. now' = now \/ now' = now + 1 => now <= now'
    BY <2>1
  <2>7. QED
    BY <2>2, <2>3, <2>4, <2>5, <2>6 DEF Next
<1>2. QED
  BY <1>1, InitLimits, WaysKept, PTL DEF Spec

\* However many are counted at once, a window lets no more through than its limit
\* and those that were counted by another between its read and its write; and the
\* rows count what was let through (ratelimit/windows.ts:152-195).
THEOREM LimitsAlwaysHold == Spec => []LimitsHold
<1>1. LimitInv => LimitsHold
  BY DEF LimitInv
<1>2. QED
  BY <1>1, LimitsKept, PTL

-----------------------------------------------------------------------------
\* The cache.

LEMMA InitCache == Init => CacheInv
<1> SUFFICES ASSUME Init PROVE CacheInv
  OBVIOUS
<1>1. Ttl \in Nat /\ MaxEntries \in Nat
  BY RequestsAssumption DEF RequestsAssumption
<1>2. held = [q \in Queries |-> Nothing] /\ order = <<>> /\ now = 0 /\ outbox = <<>>
        /\ version = [t \in Topics |-> 0] /\ handled = version
        /\ request = [i \in Interactions |-> Fresh]
  BY DEF Init
<1>3. Len(order) = 0 /\ ToSet(order) = {} /\ Len(outbox) = 0
  BY <1>2 DEF ToSet
<1>4. CacheTells
  <2>1. \A q \in Queries : held[q] = Nothing /\ held[q].until <= now + Ttl
    BY <1>1, <1>2 DEF Nothing
  <2>2. Len(order) <= MaxEntries
    BY <1>1, <1>3
  <2>3. ToSet(order) = {q \in Lists : held[q] # Nothing}
    BY <1>3, <2>1 DEF Queries
  <2>4. QED
    BY <2>1, <2>2, <2>3 DEF CacheTells
<1>5. \A t \in Topics : handled[t] <= version[t]
  BY <1>2
<1>6. \A i \in Interactions : ~At(i, "store")
  BY <1>2 DEF At, Fresh
<1>7. \A n \in 1..Len(outbox) : outbox[n].version <= version[outbox[n].topic]
  BY <1>3
<1>8. QED
  BY <1>4, <1>5, <1>6, <1>7 DEF CacheInv

\* What the bot and VIA hold of what changes, as one interaction sees it.
Fits(i) == At(i, "store") => request[i].seen >= handled[Shows(Form(i).reads)] \/ i \in straddled

\* A step that writes nothing down and drops nothing.
LEMMA NothingWritten ==
  ASSUME TypeOK, AnswerInv, CacheInv, now' = now \/ now' = now + 1,
         UNCHANGED <<held, order, version, handled, outbox, straddled>>,
         \A i \in Interactions : request'[i] = request[i] \/ Fits(i)'
  PROVE  CacheInv'
<1>1. CacheTells'
  <2>1. Ttl \in Nat /\ now \in Int
    BY RequestsAssumption DEF RequestsAssumption, TypeOK, Minutes
  <2>2. \A q \in Queries : held[q].until \in Int
    BY DEF TypeOK
  <2>3. \A q \in Queries : held[q].until <= now + Ttl
    BY DEF CacheInv, CacheTells
  <2>4. \A q \in Queries : held[q].until <= now' + Ttl
    BY <2>1, <2>2, <2>3
  <2>5. QED
    BY <2>4 DEF CacheInv, CacheTells
<1>2. ASSUME NEW i \in Interactions
      PROVE  Fits(i)'
  <2>1. Fits(i)
    BY DEF CacheInv, Fits
  <2>2. CASE request'[i] = request[i]
    BY <2>1, <2>2 DEF Fits, At, Form
  <2>3. QED
    BY <1>2, <2>2
<1>3. QED
  BY <1>1, <1>2 DEF CacheInv, Fits

LEMMA ReadIsAsNew ==
  ASSUME TypeOK, AnswerInv, CacheInv, NEW i \in Interactions, Fetch(i)
  PROVE  Fits(i)'
<1> DEFINE query == Form(i).reads
           seen == version[Shows(query)]
           inner == query = "internal" \/ (query = "event" /\ internal)
           r == [request[i] EXCEPT !.seen = seen, !.internal = inner]
<1>1. /\ request[i] \in Readings /\ request[i].step = "fetch"
      /\ UNCHANGED <<version, handled, straddled>>
  BY DEF TypeOK, Fetch, At, Quietly, platform
<1>2. PICK step \in {"store", "answer"} : Knowing(i, step, r)
  BY DEF Fetch
<1>3. request'[i] = [r EXCEPT !.step = step]
  BY <1>2 DEF Knowing, TypeOK
<1>4. request'[i].seen = seen /\ request'[i].form = Form(i)
  BY <1>1, <1>3 DEF Readings, Form
<1>5. Way(i) /\ Form(i) \in Forms /\ query # "nothing"
  BY <1>1 DEF AnswerInv, Way
<1>6. Shows(query) \in Topics
  BY <1>5 DEF Forms, Shows, Topics, Queries, Lists, Unheld
<1>7. seen >= handled[Shows(query)]
  <2>1. handled[Shows(query)] \in Nat /\ version[Shows(query)] \in Nat
    BY <1>6 DEF TypeOK
  <2>2. handled[Shows(query)] <= version[Shows(query)]
    BY <1>6 DEF CacheInv
  <2>3. QED
    BY <2>1, <2>2
<1>8. QED
  BY <1>1, <1>4, <1>7 DEF Fits, Form

LEMMA RunKeeps ==
  ASSUME TypeOK, AnswerInv, CacheInv, NEW i \in Interactions, Run(i)
  PROVE  CacheTells'
<1> DEFINE query == Form(i).reads
<1>1. UNCHANGED <<version, handled, outbox, straddled, now>>
  BY DEF Run, Quietly, platform
<1>2. /\ order \in Seq(Lists) /\ IsInjective(order) /\ Len(order) <= MaxEntries
      /\ ToSet(order) = {q \in Lists : held[q] # Nothing}
      /\ \A q \in Queries : held[q].until <= now + Ttl
      /\ \A q \in Queries \ {"courses"} :
           held[q] # Nothing => held[q].version >= handled[Shows(q)] \/ q \in straddled
  BY DEF TypeOK, CacheInv, CacheTells
<1>3. MaxEntries \in Nat /\ Ttl \in Nat /\ now \in Nat /\ Len(order) \in Nat
  BY <1>2, RequestsAssumption, LenProperties DEF RequestsAssumption, TypeOK, Minutes
<1>4. CASE query \in Queries /\ Hit(query)
  <2>1. held' = held /\ order' = IF query \in Lists THEN ToEnd(query, order) ELSE order
    BY <1>4 DEF Run
  <2>2. held[query] # Nothing
    <3>1. held[query].until > now
      BY <1>4 DEF Hit
    <3>2. QED
      BY <1>3, <3>1 DEF Nothing
  <2>3. CASE query \in Lists
    <3>1. order' \in Seq(Lists) /\ IsInjective(order') /\ ToSet(order') = ToSet(order) \cup {query}
      BY <2>1, <2>3, ToTheEnd
    <3>2. ToSet(order') = ToSet(order)
      BY <1>2, <2>2, <2>3, <3>1
    <3>3. Len(order') <= Len(order) /\ Len(order') \in Nat
      BY <1>2, <3>1, <3>2, NoLonger, LenProperties
    <3>4. Len(order') <= MaxEntries
      BY <1>2, <1>3, <3>3
    <3>5. QED
      BY <1>1, <1>2, <2>1, <3>2, <3>4 DEF CacheTells
  <2>4. CASE query \notin Lists
    BY <1>1, <1>2, <2>1, <2>4 DEF CacheTells
  <2>5. QED
    BY <2>3, <2>4
<1>5. CASE ~(query \in Queries /\ Hit(query))
  <2>1. /\ order' = Without(query, order)
        /\ held' = [q \in Queries |-> IF q = query /\ q # "rsos" THEN Nothing ELSE held[q]]
    BY <1>5 DEF Run
  <2>2. order' \in Seq(Lists) /\ IsInjective(order') /\ ToSet(order') = ToSet(order) \ {query}
    BY <2>1, WithoutOne
  <2>3. Len(order') <= Len(order) /\ Len(order') \in Nat
    BY <1>2, <2>2, NoLonger, LenProperties
  <2>4. Len(order') <= MaxEntries
    BY <1>2, <1>3, <2>3
  <2>5. \A q \in Queries : held'[q] = held[q] \/ held'[q] = Nothing
    BY <2>1
  <2>6. Nothing.until <= now + Ttl
    BY <1>3 DEF Nothing
  <2>7. ToSet(order') = {q \in Lists : held'[q] # Nothing}
    <3>1. ASSUME NEW q \in Lists
          PROVE  held'[q] = IF q = query THEN Nothing ELSE held[q]
      BY <2>1 DEF Lists, Queries
    <3>2. QED
      BY <1>2, <2>2, <3>1
  <2>8. QED
    BY <1>1, <1>2, <2>4, <2>5, <2>6, <2>7 DEF CacheTells
<1>6. QED
  BY <1>4, <1>5

LEMMA StoreKeeps ==
  ASSUME TypeOK, AnswerInv, CacheInv, NEW i \in Interactions, Store(i)
  PROVE  CacheTells' /\ \A j \in Interactions \ {i} : j \in straddled' <=> j \in straddled
<1> DEFINE query == Form(i).reads
           kept == Kept(query)
           stays(q) == q \notin Lists \/ \E n \in DOMAIN kept : kept[n] = q
           new == [version |-> request[i].seen, until |-> now + Ttl]
<1>1. /\ At(i, "store")
      /\ held' = [q \in Queries |-> IF q = query THEN new ELSE IF stays(q) THEN held[q] ELSE Nothing]
      /\ order' = IF query \in Lists THEN Append(kept, query) ELSE order
      /\ straddled' = (IF i \in straddled THEN straddled \cup {query} ELSE straddled \ {query}) \ {i}
      /\ UNCHANGED <<version, handled, outbox, now>>
  BY DEF Store, Quietly, platform
<1>2. /\ order \in Seq(Lists) /\ IsInjective(order) /\ Len(order) <= MaxEntries
      /\ ToSet(order) = {q \in Lists : held[q] # Nothing}
      /\ \A q \in Queries : held[q].until <= now + Ttl
      /\ \A q \in Queries \ {"courses"} :
           held[q] # Nothing => held[q].version >= handled[Shows(q)] \/ q \in straddled
      /\ request[i].seen >= handled[Shows(query)] \/ i \in straddled
  BY <1>1 DEF TypeOK, CacheInv, CacheTells
<1>3. MaxEntries \in Nat /\ Ttl \in Nat /\ now \in Nat
  BY RequestsAssumption DEF RequestsAssumption, TypeOK, Minutes
<1>4. query \in Queries
  BY <1>1 DEF AnswerInv, Way, At
<1>5. request[i].seen \in Nat
  BY DEF TypeOK, Readings
<1>6. new # Nothing /\ new.version = request[i].seen /\ new.until = now + Ttl
  <2>1. new.version # Nothing.version
    BY <1>5 DEF Nothing
  <2>2. QED
    BY <2>1
<1>7. i \notin Queries /\ \A j \in Interactions : j # query
  BY <1>4, RequestsAssumption DEF RequestsAssumption
<1>8. \A j \in Interactions \ {i} : j \in straddled' <=> j \in straddled
  BY <1>1, <1>7
<1>9. \A q \in Queries \ {query} : q \in straddled' <=> q \in straddled
  BY <1>1, <1>7
<1>10. query \in straddled' <=> i \in straddled
  BY <1>1, <1>4, <1>7
<1>11. ASSUME query \in Lists
       PROVE  /\ ToSet(kept) \subseteq ToSet(order) \ {query}
              /\ ToSet(Append(kept, query)) = ToSet(kept) \cup {query}
              /\ Len(Append(kept, query)) <= MaxEntries
  BY <1>11, KeptOnes
<1>12. \A q \in Lists : stays(q) <=> q \in ToSet(kept)
  BY DEF ToSet
<1> HIDE DEF stays, new, kept
<1>13. held'[query] = new
  BY <1>1, <1>4
<1>14. \A q \in Queries \ {query} : held'[q] = held[q] \/ held'[q] = Nothing
  BY <1>1
<1>15. \A q \in Queries : held'[q].until <= now' + Ttl
  <2>1. Nothing.until = 0 /\ 0 <= now + Ttl /\ now + Ttl <= now + Ttl
    BY <1>3 DEF Nothing
  <2>2. ASSUME NEW q \in Queries
        PROVE  held'[q].until <= now + Ttl
    <3>1. held'[q] = new \/ held'[q] = held[q] \/ held'[q] = Nothing
      BY <1>13, <1>14
    <3>2. QED
      BY <1>2, <1>6, <2>1, <3>1
  <2>3. QED
    BY <1>1, <2>2
<1>16. ASSUME NEW q \in Queries \ {"courses"}, held'[q] # Nothing
       PROVE  held'[q].version >= handled'[Shows(q)] \/ q \in straddled'
  <2>1. CASE q = query
    BY <1>1, <1>2, <1>6, <1>10, <1>13, <2>1
  <2>2. CASE q # query
    <3>1. held'[q] = held[q]
      BY <1>14, <1>16, <2>2
    <3>2. QED
      BY <1>1, <1>2, <1>9, <1>16, <2>2, <3>1
  <2>3. QED
    BY <2>1, <2>2
<1>17. Len(order') <= MaxEntries
  BY <1>1, <1>2, <1>11
<1>18. ToSet(order') = {q \in Lists : held'[q] # Nothing}
  <2>1. CASE query \in Lists
    <3>1. ASSUME NEW q \in Lists
          PROVE  held'[q] # Nothing <=> q \in ToSet(kept) \cup {query}
      <4>1. q \in Queries
        BY DEF Queries
      <4>2. CASE q = query
        BY <1>6, <1>13, <4>2
      <4>3. CASE q # query
        <5>1. held'[q] = IF q \in ToSet(kept) THEN held[q] ELSE Nothing
          BY <1>1, <1>12, <4>1, <4>3
        <5>2. q \in ToSet(kept) => held[q] # Nothing
          BY <1>2, <1>11, <2>1
        <5>3. QED
          BY <4>3, <5>1, <5>2
      <4>4. QED
        BY <4>2, <4>3
    <3>2. ToSet(order') = ToSet(kept) \cup {query} /\ ToSet(kept) \subseteq Lists
      BY <1>1, <1>2, <1>11, <2>1
    <3>3. QED
      BY <2>1, <3>1, <3>2
  <2>2. CASE query \notin Lists
    <3>1. order' = order /\ kept = order
      BY <1>1, <2>2 DEF kept, Kept
    <3>2. ASSUME NEW q \in Lists
          PROVE  held'[q] # Nothing <=> held[q] # Nothing
      <4>1. q \in Queries /\ q # query
        BY <2>2 DEF Queries
      <4>2. held'[q] = IF q \in ToSet(order) THEN held[q] ELSE Nothing
        BY <1>1, <1>12, <3>1, <4>1
      <4>3. QED
        BY <1>2, <4>2
    <3>3. QED
      BY <1>2, <3>1, <3>2
  <2>3. QED
    BY <2>1, <2>2
<1>19. CacheTells'
  BY <1>15, <1>16, <1>17, <1>18 DEF CacheTells
<1>20. QED
  BY <1>8, <1>19

LEMMA HandleKeeps ==
  ASSUME TypeOK, AnswerInv, CacheInv, NEW outcome \in {"handled", "unhandled"}, Handle(outcome)
  PROVE  CacheInv'
<1> DEFINE entry == Head(outbox)
           topic == entry.topic
           dropped == {q \in Queries \ {"courses"} : Concerns(q, topic)}
           Entries == [topic: {"acm", "ieee"}, version: Nat]
<1>1. /\ outbox # <<>> /\ outbox' = Tail(outbox) /\ outbox \in Seq(Entries)
      /\ UNCHANGED <<version, request, now>>
  BY DEF Handle, TypeOK, Quietly, platform
<1>2. /\ Len(outbox) \in Nat \ {0} /\ entry = outbox[1] /\ entry \in Entries
      /\ Len(outbox') = Len(outbox) - 1 /\ \A n \in 1..Len(outbox') : outbox'[n] = outbox[n + 1]
  <2>1. Len(outbox) \in Nat /\ Len(outbox) # 0
    BY <1>1, LenProperties, EmptySeq
  <2>2. /\ Head(outbox) \in Entries
        /\ Len(Tail(outbox)) = Len(outbox) - 1
        /\ \A n \in 1..Len(Tail(outbox)) : Tail(outbox)[n] = outbox[n + 1]
    BY <1>1, HeadTailProperties
  <2>3. Head(outbox) = outbox[1]
    BY <1>1
  <2>4. QED
    BY <1>1, <2>1, <2>2, <2>3
<1>3. \A n \in 1..Len(outbox) : outbox[n].version <= version[outbox[n].topic]
  BY DEF CacheInv
<1>4. \A n \in 1..Len(outbox') : outbox'[n].version <= version'[outbox'[n].topic]
  <2>1. \A n \in 1..Len(outbox') : n + 1 \in 1..Len(outbox)
    BY <1>2
  <2>2. QED
    BY <1>1, <1>2, <1>3, <2>1
<1>5. entry.version <= version[topic] /\ topic \in {"acm", "ieee"} /\ entry.version \in Nat
  <2>1. 1 \in 1..Len(outbox)
    BY <1>2
  <2>2. QED
    BY <1>2, <1>3, <2>1
<1> HIDE DEF topic, entry
<1>6. CASE outcome = "unhandled"
  <2>1. UNCHANGED <<held, order, handled, straddled>>
    BY <1>6 DEF Handle, cache
  <2>2. CacheTells' /\ \A i \in Interactions : Fits(i)'
    BY <1>1, <2>1 DEF CacheInv, CacheTells, Fits, At, Form
  <2>3. QED
    BY <1>1, <1>4, <2>1, <2>2 DEF CacheInv, Fits
<1>7. CASE outcome = "handled"
  <2>1. /\ held' = [q \in Queries |-> IF q \in dropped THEN Nothing ELSE held[q]]
        /\ order' = Among(Queries \ dropped, order)
        /\ handled' = [handled EXCEPT ![topic] = entry.version]
        /\ straddled' = straddled \cup {i \in Interactions : At(i, "store") /\ Concerns(Form(i).reads, topic)}
    BY <1>7 DEF Handle, InvalidateRso, topic, entry
  <2>2. \A q \in Queries : ~Concerns(q, topic) => Shows(q) # topic
    BY <1>5 DEF Concerns, Shows, Queries, Lists, Unheld
  <2>3. \A q \in Queries : Shows(q) \in Topics
    BY DEF Shows, Topics, Queries, Lists, Unheld
  <2>4. \A t \in Topics \ {topic} : handled'[t] = handled[t]
    BY <2>1 DEF TypeOK
  <2>5. /\ \A q \in Queries : held[q].until <= now + Ttl
        /\ \A q \in Queries \ {"courses"} :
             held[q] # Nothing => held[q].version >= handled[Shows(q)] \/ q \in straddled
        /\ order \in Seq(Lists) /\ IsInjective(order) /\ Len(order) <= MaxEntries
        /\ ToSet(order) = {q \in Lists : held[q] # Nothing}
    BY DEF CacheInv, CacheTells, TypeOK
  <2>6. MaxEntries \in Nat /\ Ttl \in Nat /\ now \in Nat
    BY RequestsAssumption DEF RequestsAssumption, TypeOK, Minutes
  <2>7. \A q \in Queries : held'[q] = IF q \in dropped THEN Nothing ELSE held[q]
    BY <2>1
  <2>8. \A q \in Queries : held'[q].until <= now' + Ttl
    <3>1. Nothing.until <= now + Ttl
      BY <2>6 DEF Nothing
    <3>2. QED
      BY <1>1, <2>5, <2>7, <3>1
  <2>9. ASSUME NEW q \in Queries \ {"courses"}, held'[q] # Nothing
        PROVE  held'[q].version >= handled'[Shows(q)] \/ q \in straddled'
    <3>1. q \notin dropped /\ held'[q] = held[q]
      BY <2>7, <2>9
    <3>2. handled'[Shows(q)] = handled[Shows(q)]
      BY <2>2, <2>3, <2>4, <3>1
    <3>3. QED
      BY <2>1, <2>5, <2>9, <3>1, <3>2
  <2>10. order' \in Seq(Lists) /\ IsInjective(order') /\ ToSet(order') = ToSet(order) \cap (Queries \ dropped)
    BY <2>1, <2>5, AmongThem
  <2>11. Len(order') <= MaxEntries
    <3>1. Len(order') <= Len(order)
      BY <2>5, <2>10, NoLonger
    <3>2. Len(order') \in Nat /\ Len(order) \in Nat
      BY <2>5, <2>10, LenProperties
    <3>3. QED
      BY <2>5, <2>6, <3>1, <3>2
  <2>12. ToSet(order') = {q \in Lists : held'[q] # Nothing}
    <3>1. Lists \subseteq Queries
      BY DEF Queries
    <3>2. QED
      BY <2>5, <2>7, <2>10, <3>1
  <2>13. CacheTells'
    BY <2>8, <2>9, <2>11, <2>12 DEF CacheTells
  <2>14. \A t \in Topics : handled'[t] <= version'[t]
    <3>1. ASSUME NEW t \in Topics
          PROVE  handled'[t] <= version'[t]
      <4>1. CASE t = topic
        BY <1>1, <1>5, <2>1, <4>1 DEF TypeOK
      <4>2. CASE t # topic
        BY <1>1, <2>4, <4>2 DEF CacheInv
      <4>3. QED
        BY <4>1, <4>2
    <3>2. QED
      BY <3>1
  <2>15. ASSUME NEW i \in Interactions, At(i, "store")
         PROVE  request[i].seen >= handled'[Shows(Form(i).reads)] \/ i \in straddled'
    <3>1. CASE Concerns(Form(i).reads, topic)
      BY <2>1, <2>15, <3>1
    <3>2. CASE ~Concerns(Form(i).reads, topic)
      <4>1. Form(i).reads \in Queries
        BY <2>15 DEF AnswerInv, Way, At
      <4>2. handled'[Shows(Form(i).reads)] = handled[Shows(Form(i).reads)]
        BY <2>2, <2>3, <2>4, <3>2, <4>1
      <4>3. request[i].seen >= handled[Shows(Form(i).reads)] \/ i \in straddled
        BY <2>15 DEF CacheInv
      <4>4. QED
        BY <2>1, <4>2, <4>3
    <3>3. QED
      BY <3>1, <3>2
  <2>16. \A i \in Interactions : Fits(i)'
    BY <1>1, <2>15 DEF Fits, At, Form
  <2>17. QED
    BY <1>4, <2>13, <2>14, <2>16 DEF CacheInv, Fits
<1>8. QED
  BY <1>6, <1>7

LEMMA ChangeKeeps ==
  ASSUME TypeOK, AnswerInv, CacheInv, NEW topic \in Topics, Changes(topic)
  PROVE  CacheInv'
<1> DEFINE Entries == [topic: {"acm", "ieee"}, version: Nat]
<1>1. /\ version' = [version EXCEPT ![topic] = @ + 1]
      /\ outbox' = IF topic = "courses" THEN outbox
                   ELSE Append(outbox, [topic |-> topic, version |-> version'[topic]])
      /\ UNCHANGED <<request, held, order, now, handled, straddled>>
  BY DEF Changes, cache, history
<1>2. version \in [Topics -> Nat] /\ handled \in [Topics -> Nat] /\ outbox \in Seq(Entries)
  BY DEF TypeOK
<1>3. \A t \in Topics : version[t] \in Nat /\ version'[t] \in Nat /\ version[t] <= version'[t]
  BY <1>1, <1>2
<1>4. \A t \in Topics : handled[t] <= version'[t]
  <2>1. \A t \in Topics : handled[t] \in Nat /\ handled[t] <= version[t]
    BY <1>2 DEF CacheInv
  <2>2. QED
    BY <1>3, <2>1
<1>5. \A n \in 1..Len(outbox) : outbox[n].version <= version'[outbox[n].topic]
  <2>1. ASSUME NEW n \in 1..Len(outbox)
        PROVE  outbox[n].version <= version'[outbox[n].topic]
    <3>1. outbox[n] \in Entries
      BY <1>2, ElementOfSeq
    <3>2. outbox[n].topic \in Topics /\ outbox[n].version \in Nat
      BY <3>1 DEF Topics
    <3>3. outbox[n].version <= version[outbox[n].topic]
      BY DEF CacheInv
    <3>4. QED
      BY <1>3, <3>2, <3>3
  <2>2. QED
    BY <2>1
<1>6. \A n \in 1..Len(outbox') : outbox'[n].version <= version'[outbox'[n].topic]
  <2>1. CASE topic = "courses"
    BY <1>1, <1>5, <2>1
  <2>2. CASE topic # "courses"
    <3> DEFINE entry == [topic |-> topic, version |-> version'[topic]]
    <3>1. entry \in Entries /\ outbox' = Append(outbox, entry)
      BY <1>1, <1>3, <2>2 DEF Topics
    <3>2. entry.version = version'[entry.topic]
      OBVIOUS
    <3> HIDE DEF entry
    <3>3. /\ Len(outbox) \in Nat /\ Len(outbox') = Len(outbox) + 1
          /\ outbox'[Len(outbox) + 1] = entry
          /\ \A n \in 1..Len(outbox) : outbox'[n] = outbox[n]
      BY <1>2, <3>1, AppendProperties, LenProperties
    <3>4. entry.version <= version'[entry.topic]
      BY <3>1, <3>2
    <3>5. ASSUME NEW n \in 1..Len(outbox')
          PROVE  outbox'[n].version <= version'[outbox'[n].topic]
      <4>1. n \in 1..Len(outbox) \/ n = Len(outbox) + 1
        BY <3>3
      <4>2. QED
        BY <1>5, <3>3, <3>4, <4>1
    <3>6. QED
      BY <3>5
  <2>3. QED
    BY <2>1, <2>2
<1>7. CacheTells' /\ \A i \in Interactions : Fits(i)'
  BY <1>1 DEF CacheInv, CacheTells, Fits, At, Form
<1>8. QED
  BY <1>1, <1>4, <1>6, <1>7 DEF CacheInv, Fits

LEMMA CacheStays ==
  ASSUME NEW i \in Interactions, Step(i), ~(Run(i) \/ Store(i))
  PROVE  UNCHANGED <<held, order, version, handled, outbox, straddled, now>>
<1>1. CASE \/ Arrives(i) \/ RefusedByTheServer(i) \/ Refuse(i) \/ ReadWindow(i) \/ CountOne(i) \/ Fetch(i)
           \/ Lapse(i) \/ Fails(i)
  BY <1>1 DEF Arrives, RefusedByTheServer, Refuse, ReadWindow, CountOne, Fetch, Lapse, Fails, Quietly,
              ApplyReply, Answers, platform, cache, history
<1>2. CASE \/ Acknowledge(i) \/ AcknowledgePanel(i) \/ AnswerOrShowModal(i) \/ ApplyUpdate(i)
           \/ AnswerAutocomplete(i)
  BY <1>2 DEF Acknowledge, AcknowledgePanel, AnswerOrShowModal, ApplyUpdate, AnswerAutocomplete,
              ApplyReply, Answers, cache
<1>3. QED
  BY <1>1, <1>2 DEF Step

LEMMA CrashKeeps ==
  ASSUME TypeOK, AnswerInv, CacheInv, Crash
  PROVE  CacheInv'
<1>1. /\ request' = [i \in Interactions |-> IF At(i, "new") THEN Fresh ELSE [request[i] EXCEPT !.step = "done"]]
      /\ held' = [q \in Queries |-> Nothing] /\ order' = <<>> /\ straddled' = {}
      /\ UNCHANGED <<version, handled, outbox, now>>
  BY DEF Crash
<1>2. ASSUME NEW i \in Interactions
      PROVE  Fits(i)'
  <2>1. CASE At(i, "new")
    BY <1>1, <2>1 DEF Fits, At, Fresh
  <2>2. CASE ~At(i, "new")
    <3>1. request'[i] = [request[i] EXCEPT !.step = "done"] /\ request[i] \in Readings
      BY <1>1, <2>2 DEF TypeOK
    <3>2. request'[i].step = "done"
      BY <3>1 DEF Readings
    <3>3. QED
      BY <3>2 DEF Fits, At
  <2>3. QED
    BY <2>1, <2>2
<1>3. CacheTells'
  <2>1. Ttl \in Nat /\ MaxEntries \in Nat /\ now \in Nat
    BY RequestsAssumption DEF RequestsAssumption, TypeOK, Minutes
  <2>2. Len(order') = 0 /\ ToSet(order') = {}
    BY <1>1 DEF ToSet
  <2>3. \A q \in Queries : held'[q] = Nothing
    BY <1>1
  <2>4. \A q \in Queries : held'[q].until <= now' + Ttl
    <3>1. Nothing.until <= now + Ttl
      BY <2>1 DEF Nothing
    <3>2. QED
      BY <1>1, <2>3, <3>1
  <2>5. ToSet(order') = {q \in Lists : held'[q] # Nothing}
    BY <2>2, <2>3 DEF Queries
  <2>6. Len(order') <= MaxEntries
    BY <2>1, <2>2
  <2>7. QED
    BY <2>3, <2>4, <2>5, <2>6 DEF CacheTells
<1>4. QED
  BY <1>1, <1>2, <1>3 DEF CacheInv, Fits

LEMMA CacheKept == Spec => []CacheInv
<1>1. TypeOK /\ AnswerInv /\ CacheInv /\ [Next]_vars => CacheInv'
  <2> SUFFICES ASSUME TypeOK, AnswerInv, CacheInv, [Next]_vars
               PROVE  CacheInv'
    OBVIOUS
  <2>1. ASSUME NEW i \in Interactions, Step(i)
        PROVE  CacheInv'
    <3>1. /\ \A j \in Interactions \ {i} : request'[j] = request[j]
          /\ request'[i] = request[i] \/ (request'[i].step = "store" => Fetch(i))
      BY <2>1, WhereTo
    <3>2. CASE Run(i) \/ Store(i)
      <4>1. /\ UNCHANGED <<version, handled, outbox>>
            /\ \A j \in Interactions \ {i} : j \in straddled' <=> j \in straddled
            /\ CacheTells'
        <5>1. CASE Run(i)
          BY <5>1, RunKeeps DEF Run, Quietly, platform
        <5>2. CASE Store(i)
          BY <5>2, StoreKeeps DEF Store, Quietly, platform
        <5>3. QED
          BY <3>2, <5>1, <5>2
      <4>2. request'[i].step # "store"
        <5>1. PICK step \in {"answer", "fetch"} : Goes(i, step)
          BY <3>2 DEF Run, Store
        <5>2. step \in Steps
          BY DEF Steps
        <5>3. request'[i] = [request[i] EXCEPT !.step = step]
          BY <5>1, <5>2, GoesOn
        <5>4. QED
          BY <5>3 DEF TypeOK, Readings
      <4>3. \A j \in Interactions : Fits(j)'
        <5>1. Fits(i)'
          BY <4>2 DEF Fits, At
        <5>2. ASSUME NEW j \in Interactions \ {i}
              PROVE  Fits(j)'
          <6>1. Fits(j)
            BY DEF CacheInv, Fits
          <6>2. QED
            BY <3>1, <4>1, <6>1 DEF Fits, At, Form
        <5>3. QED
          BY <5>1, <5>2
      <4>4. QED
        BY <4>1, <4>3 DEF CacheInv, Fits
    <3>3. CASE ~(Run(i) \/ Store(i))
      <4>1. UNCHANGED <<held, order, version, handled, outbox, straddled, now>>
        BY <2>1, <3>3, CacheStays
      <4>2. request'[i] = request[i] \/ Fits(i)'
        <5>1. CASE Fetch(i)
          BY <5>1, ReadIsAsNew
        <5>2. CASE ~Fetch(i)
          BY <3>1, <5>2 DEF Fits, At
        <5>3. QED
          BY <5>1, <5>2
      <4>3. QED
        BY <3>1, <4>1, <4>2, NothingWritten
    <3>4. QED
      BY <3>2, <3>3
  <2>2. ASSUME NEW outcome \in {"handled", "unhandled"}, Handle(outcome)
        PROVE  CacheInv'
    BY <2>2, HandleKeeps
  <2>3. ASSUME NEW topic \in Topics, Changes(topic)
        PROVE  CacheInv'
    BY <2>3, ChangeKeeps
  <2>4. CASE Toggle \/ Tick \/ UNCHANGED vars
    <3>1. /\ UNCHANGED <<request, held, order, version, handled, outbox, straddled>>
          /\ now' = now \/ now' = now + 1
      BY <2>4 DEF Toggle, Tick, vars, platform, cache, history
    <3>2. QED
      BY <3>1, NothingWritten
  <2>5. CASE Crash
    BY <2>5, CrashKeeps
  <2>6. QED
    BY <2>1, <2>2, <2>3, <2>4, <2>5 DEF Next
<1>2. QED
  BY <1>1, InitCache, WaysKept, PTL DEF Spec

\* However the reads, the writes and the drops of the cache fall, what is held of an
\* organization is no older than what the consumer has handled, but for a read that
\* was under way then; none is held past its minute, and there are never more
\* listings than there may be (via/cache.ts:182-215).
THEOREM CacheAlwaysTells == Spec => []CacheTells
<1>1. CacheInv => CacheTells
  BY DEF CacheInv
<1>2. QED
  BY <1>1, CacheKept, PTL
=============================================================================
