-------------------------- MODULE AnnouncementsProofs --------------------------
(***************************************************************************)
(* Proofs about Announcements, for any evenings, meetings, answers of VIA, *)
(* polls, votes, buttons, deletions and faults: first the polls and repeats *)
(* of MeetingPolls within the whole of it, then the announcements themselves. *)
(***************************************************************************)
EXTENDS Announcements, FiniteSetTheorems, SequenceTheorems, WellFoundedInduction, TLAPS

\* What is needed of the constants throughout.
LEMMA PollsAreNumbers == Polls \subseteq Nat /\ 0 \notin Polls /\ MostVotes \in Nat
  BY MeetingPollsAssumption DEF MeetingPollsAssumption

\* Numbers, the first poll of a pass among them, have a least one.
LEMMA Least ==
  ASSUME NEW T, T \subseteq Nat, T # {}
  PROVE  \E x \in T : \A y \in T : x <= y
<1> DEFINE R == OpToRel(<, Nat)
<1>1. IsWellFoundedOn(R, Nat)
  BY NatLessThanWellFounded
<1>2. \A x, y \in T : y < x => <<y, x>> \in R
  BY DEF OpToRel
<1> HIDE DEF R
<1>3. PICK x \in T : \A y \in T : ~(<<y, x>> \in R)
  BY <1>1, WFMin
<1>4. \A y \in T : ~(y < x)
  BY <1>2, <1>3
<1>5. QED
  BY <1>4

\* And bounded ones a greatest, as the votes of a poll have.
LEMMA Greatest ==
  ASSUME NEW T, NEW b \in Nat, T \subseteq 0..b, T # {}
  PROVE  \E x \in T : \A y \in T : y <= x
<1>1. {b - x : x \in T} \subseteq Nat /\ {b - x : x \in T} # {}
  <2>1. \A x \in T : x \in 0..b /\ b - x \in Nat
    OBVIOUS
  <2>2. PICK x \in T : TRUE
    OBVIOUS
  <2>3. b - x \in {b - y : y \in T}
    OBVIOUS
  <2>4. QED
    BY <2>1, <2>3
<1>2. PICK d \in {b - x : x \in T} : \A e \in {b - x : x \in T} : d <= e
  BY <1>1, Least
<1>3. PICK x \in T : d = b - x
  BY <1>2
<1>4. \A y \in T : b - x <= b - y
  BY <1>2, <1>3
<1>5. \A y \in T : y <= x
  BY <1>4
<1>6. QED
  BY <1>5

-----------------------------------------------------------------------------
(* What a count comes to.                                                   *)

Evening == [at : Evenings, score : Nat]

\* What a button carries of an evening is one.
LEMMA ButtonIsEvening ==
  ASSUME NEW c \in Evening
  PROVE  ProposalOf(c) \in Evening
<1>1. c.at \in Evenings /\ c.score \in Nat
  BY DEF Evening
<1>2. (c.score + 1) \div 2 \in Nat
  BY <1>1
<1>3. QED
  BY <1>1, <1>2 DEF Evening, ProposalOf, Rounded

\* The evenings a result of one may carry: its own, or an earlier one of the poll
\* that reads alike.
MayStandFor(offer, i) == {i} \cup {j \in 1..(i - 1) : Words[offer[j].at] = Words[offer[i].at]}

\* An evening found by its words is one of those.
LEMMA FirstEvening ==
  ASSUME NEW offer \in Seq(Evening), NEW i \in DOMAIN offer
  PROVE  \E j \in DOMAIN offer : EveningOf(offer, i) = offer[j] /\ j \in MayStandFor(offer, i)
<1> DEFINE Same == {j \in DOMAIN offer : Words[offer[j].at] = Words[offer[i].at]}
<1>1. Same \subseteq Nat /\ Same # {} /\ DOMAIN offer \subseteq Nat
  OBVIOUS
<1>2. PICK j \in Same : \A k \in Same : j <= k
  BY <1>1, Least
<1>3. /\ Words[offer[j].at] = Words[offer[i].at]
      /\ \A k \in 1..(j - 1) : Words[offer[k].at] # Words[offer[i].at]
  BY <1>1, <1>2
<1>4. PICK h \in DOMAIN offer : /\ EveningOf(offer, i) = offer[h]
                                /\ Words[offer[h].at] = Words[offer[i].at]
                                /\ \A k \in 1..(h - 1) : Words[offer[k].at] # Words[offer[i].at]
  BY <1>3 DEF EveningOf
<1>5. h \in Nat /\ i \in Nat /\ 1 <= h /\ 1 <= i /\ ~(i \in 1..(h - 1))
  BY <1>4
<1>6. h = i \/ h \in 1..(i - 1)
  BY <1>5
<1>7. QED
  BY <1>4, <1>6 DEF MayStandFor

\* Without a winner nobody has voted.
LEMMA WinnerIsThere ==
  ASSUME NEW n \in Nat, NEW counts \in [1..n -> 0..MostVotes], Winner(counts) = {}
  PROVE  \A i \in 1..n : counts[i] = 0
<1>1. SUFFICES ASSUME NEW h \in 1..n, counts[h] # 0 PROVE FALSE
  OBVIOUS
<1> DEFINE Values == {counts[i] : i \in 1..n}
<1>2. PICK v \in Values : \A w \in Values : w <= v
  <2>1. Values \subseteq 0..MostVotes /\ Values # {}
    OBVIOUS
  <2>2. QED
    BY <2>1, PollsAreNumbers, Greatest
<1> DEFINE Firsts == {i \in 1..n : counts[i] = v}
<1>3. PICK i \in Firsts : \A j \in Firsts : i <= j
  <2>1. Firsts \subseteq Nat /\ Firsts # {}
    BY <1>2
  <2>2. QED
    BY <2>1, Least
<1>4. counts[i] = v /\ i \in 1..n /\ \A j \in 1..n : counts[j] <= counts[i]
  BY <1>2, <1>3
<1>5. counts[i] > 0
  BY <1>1, <1>4
<1>6. \A j \in 1..n : j < i => counts[j] < counts[i]
  <2>1. \A j \in 1..n : j < i => counts[j] # v
    BY <1>3
  <2>2. QED
    BY <2>1, <1>4
<1>7. i \in Winner(counts)
  BY <1>4, <1>5, <1>6 DEF Winner
<1>8. QED
  BY <1>7

Verdict == [votes : Nat, button : Evening]
CountTold(offer, counts, result) ==
  /\ \A i \in DOMAIN counts : counts[i] <= result.votes
  /\ \E i \in DOMAIN counts :
       /\ counts[i] = result.votes
       /\ \E j \in MayStandFor(offer, i) \cap DOMAIN counts : result.button = ProposalOf(offer[j])

\* A result of the counts tells them.
LEMMA ResultTells ==
  ASSUME NEW offer \in Seq(Evening), offer # <<>>,
         NEW counts \in [1..Len(offer) -> 0..MostVotes]
  PROVE  ResultOf(offer, counts) \in Verdict /\ CountTold(offer, counts, ResultOf(offer, counts))
<1> DEFINE result == ResultOf(offer, counts)
<1>1. \A i \in DOMAIN offer : ProposalOf(offer[i]) \in Evening
  BY ButtonIsEvening
<1>2. Len(offer) \in Nat /\ 1 \in DOMAIN offer /\ DOMAIN offer = 1..Len(offer) /\ DOMAIN counts = DOMAIN offer
  OBVIOUS
<1>3. CASE Winner(counts) = {}
  <2>1. \A i \in 1..Len(offer) : counts[i] = 0
    BY <1>2, <1>3, WinnerIsThere
  <2>2. result.votes = 0 /\ result.button = ProposalOf(offer[1]) /\ result = [votes |-> 0, button |-> ProposalOf(offer[1])]
    BY <1>3 DEF ResultOf
  <2>3. result \in Verdict
    BY <1>1, <1>2, <2>2 DEF Verdict
  <2>4. 1 \in MayStandFor(offer, 1) \cap DOMAIN counts
    BY <1>2 DEF MayStandFor
  <2>5. QED
    BY <1>2, <2>1, <2>2, <2>3, <2>4 DEF CountTold
<1>4. CASE Winner(counts) # {}
  <2> DEFINE i == CHOOSE i \in Winner(counts) : TRUE
  <2>1. i \in Winner(counts)
    BY <1>4
  <2> HIDE DEF i
  <2>2. i \in DOMAIN offer /\ counts[i] \in Nat /\ \A j \in DOMAIN counts : counts[j] <= counts[i]
    BY <1>2, <2>1 DEF Winner
  <2>3. PICK j \in DOMAIN offer : EveningOf(offer, i) = offer[j] /\ j \in MayStandFor(offer, i)
    BY <2>2, FirstEvening
  <2>4. result = [votes |-> counts[i], button |-> ProposalOf(offer[j])]
    BY <1>4, <2>3 DEF ResultOf, i
  <2>5. result \in Verdict
    BY <1>1, <2>2, <2>4 DEF Verdict
  <2>6. QED
    BY <1>2, <2>2, <2>3, <2>4, <2>5 DEF CountTold
<1>5. QED
  BY <1>3, <1>4

-----------------------------------------------------------------------------
(* The polls and their pass.                                                *)

Ballot == [state : {"none", "open", "ended", "final", "gone"}, offer : Seq(Evening),
           votes : Seq(0..MostVotes), past : BOOLEAN]
Pass == [step : {"idle", "read", "post", "record"}, due : SUBSET Polls, counts : Seq(0..MostVotes)]

PollTypes ==
  /\ offered \in Offers
  /\ poll \in [Polls -> Ballot]
  /\ \A m \in Polls : /\ Len(poll[m].votes) = Len(poll[m].offer)
                      /\ poll[m].state # "none" => poll[m].offer # <<>>
  /\ results \in [Polls -> Seq(Verdict)]
  /\ reachable \in BOOLEAN
  /\ row \in [Polls -> {"none", "open", "closed"}]
  /\ opening \in Polls \cup {0}
  /\ pass \in Pass /\ (pass.step # "idle" => pass.due # {})
  /\ faults \in Nat
  /\ unsaved \subseteq Polls /\ IsFiniteSet(unsaved)

\* A poll that is written off, or about to be.
Closing(m) == row[m] = "closed" \/ (pass.step = "record" /\ AtPoll = m)

\* What ResultsTell and FailuresCost rest on.  The one result that a poll may have
\* beyond the faults is spent once the poll is being written off; the counts in
\* hand are final, and no vote comes after them; and a poll not written down is
\* being written down, or that failed.
ResultsCount(m) ==
  /\ results[m] # <<>> => poll[m].state \in {"final", "gone"}
  /\ \A i \in DOMAIN results[m] : CountTold(poll[m].offer, poll[m].votes, results[m][i])
ResultsPaid(m) == Len(results[m]) <= faults + (IF Closing(m) THEN 1 ELSE 0)
ClosedRightly(m) == Closing(m) => results[m] # <<>> \/ poll[m].state = "gone" \/ ~reachable
WrittenDown(m) ==
  /\ row[m] # "none" => poll[m].state # "none"
  /\ poll[m].state # "none" /\ row[m] = "none" => opening = m \/ m \in unsaved
PassHolds ==
  /\ \A m \in pass.due : row[m] = "open"
  /\ pass.step = "post" => /\ poll[AtPoll].state \in {"final", "gone"}
                          /\ pass.counts = poll[AtPoll].votes
PollsInv ==
  /\ PassHolds
  /\ opening # 0 => row[opening] = "none" /\ poll[opening].state # "none"
  /\ Cardinality(unsaved) <= faults
  /\ \A m \in Polls : ResultsCount(m) /\ ResultsPaid(m) /\ ClosedRightly(m) /\ WrittenDown(m)

\* Before the first poll.
LEMMA PollsStart == Init => PollTypes /\ PollsInv
<1> SUFFICES ASSUME Init PROVE PollTypes /\ PollsInv
  OBVIOUS
<1>1. PollsInit
  BY DEF Init
<1>2. NoPoll \in Ballot /\ NoPass \in Pass /\ <<>> \in Seq(Verdict)
  BY DEF NoPoll, NoPass, Ballot, Pass
<1>3. IsFiniteSet(unsaved) /\ Cardinality(unsaved) = 0 /\ unsaved = {}
  BY <1>1, FS_EmptySet DEF PollsInit
<1>4. PollTypes
  <2>1. offered \in Offers /\ reachable \in BOOLEAN /\ opening \in Polls \cup {0} /\ faults \in Nat
    BY <1>1, MeetingPollsAssumption DEF PollsInit, MeetingPollsAssumption
  <2>2. /\ poll \in [Polls -> Ballot] /\ results \in [Polls -> Seq(Verdict)]
        /\ row \in [Polls -> {"none", "open", "closed"}]
    BY <1>1, <1>2 DEF PollsInit
  <2>3. \A m \in Polls : /\ Len(poll[m].votes) = Len(poll[m].offer)
                         /\ poll[m].state = "none"
    BY <1>1 DEF PollsInit, NoPoll
  <2>4. pass \in Pass /\ pass.step = "idle"
    BY <1>1, <1>2 DEF PollsInit, NoPass
  <2>5. QED
    BY <1>3, <2>1, <2>2, <2>3, <2>4 DEF PollTypes
<1>5. \A m \in Polls : ~Closing(m)
  BY <1>1 DEF PollsInit, NoPass, Closing
<1>6. PollsInv
  <2>1. PassHolds /\ opening = 0 /\ Cardinality(unsaved) <= faults
    BY <1>1, <1>3 DEF PollsInit, NoPass, PassHolds
  <2>2. \A m \in Polls : results[m] = <<>> /\ poll[m].state = "none" /\ row[m] = "none" /\ faults = 0
    BY <1>1 DEF PollsInit, NoPoll
  <2>3. QED
    BY <1>5, <2>1, <2>2 DEF PollsInv, ResultsCount, ResultsPaid, ClosedRightly, WrittenDown
<1>7. QED
  BY <1>4, <1>6

\* The poll at the head of a pass is one of it.
LEMMA AtPollIsDue ==
  ASSUME PollTypes, pass.step # "idle"
  PROVE  AtPoll \in pass.due /\ AtPoll \in Polls
<1>1. pass.due \subseteq Nat /\ pass.due # {} /\ pass.due \subseteq Polls
  BY PollsAreNumbers DEF PollTypes, Pass
<1>2. \E m \in pass.due : \A n \in pass.due : m <= n
  BY <1>1, Least
<1>3. QED
  BY <1>1, <1>2 DEF AtPoll

\* The pass goes on with fewer polls, and writes none of them off yet.
LEMMA NextPollIs ==
  ASSUME PollTypes, pass.step # "idle"
  PROVE  /\ NextPoll \in Pass
         /\ NextPoll.step \in {"idle", "read"}
         /\ NextPoll.due = pass.due \ {AtPoll}
         /\ NextPoll.step # "idle" => NextPoll.due # {}
<1>1. AtPoll \in pass.due /\ pass.due \in SUBSET Polls
  BY AtPollIsDue DEF PollTypes, Pass
<1>2. NoPass \in Pass /\ NoPass.step = "idle" /\ NoPass.due = {}
  BY DEF NoPass, Pass
<1>3. \A rest \in SUBSET Polls :
        LET later == [NoPass EXCEPT !.step = "read", !.due = rest]
        IN  later \in Pass /\ later.step = "read" /\ later.due = rest
  BY <1>2 DEF Pass
<1>4. CASE pass.due = {AtPoll}
  BY <1>1, <1>2, <1>4 DEF NextPoll
<1>5. CASE pass.due # {AtPoll}
  <2>1. NextPoll = [NoPass EXCEPT !.step = "read", !.due = pass.due \ {AtPoll}]
    BY <1>5 DEF NextPoll
  <2>2. pass.due \ {AtPoll} \in SUBSET Polls /\ pass.due \ {AtPoll} # {}
    BY <1>1, <1>5
  <2>3. QED
    BY <1>3, <2>1, <2>2
<1>6. QED
  BY <1>4, <1>5

\* What VIA answers is made of evenings.
LEMMA CandidatesAreEvenings ==
  ASSUME PollTypes
  PROVE  Candidates \in Seq(Evening)
<1>1. offered \in Offers
  BY DEF PollTypes
<1>2. offered.picks \in Seq(Evening) /\ offered.options \in Seq(Evening)
  BY <1>1, MeetingPollsAssumption DEF MeetingPollsAssumption, Evening
<1>3. QED
  BY <1>2 DEF Candidates

\* The first of some are some.
LEMMA FirstOfIsSome ==
  ASSUME NEW list \in Seq(Evening), list # <<>>, NEW n \in Nat \ {0}
  PROVE  FirstOf(list, n) \in Seq(Evening) /\ FirstOf(list, n) # <<>>
<1> DEFINE k == IF n < Len(list) THEN n ELSE Len(list)
<1>1. k \in Nat /\ 1 <= k /\ k <= Len(list)
  OBVIOUS
<1>2. FirstOf(list, n) = SubSeq(list, 1, k)
  BY DEF FirstOf
<1>3. QED
  BY <1>1, <1>2

-----------------------------------------------------------------------------
(* The steps of the polls.                                                  *)

\* The poll in hand is told from those of the pass alone.
LEMMA SamePass == ASSUME pass'.due = pass.due PROVE AtPoll' = AtPoll
  BY DEF AtPoll

\* Where no message and no row changes: the pass may go on or end, if a poll that
\* was being written off costs a fault, and so may the writing down of a poll.
LEMMA JobMoves ==
  ASSUME PollTypes, PollsInv, UNCHANGED <<tally, row>>, offered' \in Offers,
         faults' \in {faults, faults + 1},
         \/ pass' = pass
         \/ /\ pass' \in Pass /\ pass'.step \in {"idle", "read"}
            /\ pass'.step # "idle" => pass'.due # {}
            /\ \A m \in pass'.due : row[m] = "open"
            /\ pass.step = "record" => faults' = faults + 1,
         \/ UNCHANGED <<opening, unsaved>>
         \/ /\ opening # 0 /\ opening' = 0 /\ unsaved' = unsaved \cup {opening}
            /\ faults' = faults + 1
  PROVE  PollTypes' /\ PollsInv'
<1>1. UNCHANGED <<poll, results, reachable, row>> /\ faults \in Nat
  BY DEF tally, PollTypes
<1>2. unsaved' \subseteq Polls /\ IsFiniteSet(unsaved') /\ Cardinality(unsaved') <= faults'
  <2>1. opening \in Polls \cup {0} /\ unsaved \subseteq Polls /\ IsFiniteSet(unsaved) /\ Cardinality(unsaved) <= faults
    BY DEF PollTypes, PollsInv
  <2>2. /\ IsFiniteSet(unsaved \cup {opening})
        /\ Cardinality(unsaved) \in Nat
        /\ Cardinality(unsaved \cup {opening}) \in {Cardinality(unsaved), Cardinality(unsaved) + 1}
    BY <2>1, FS_AddElement, FS_CardinalityType
  <2>3. CASE UNCHANGED <<opening, unsaved>>
    BY <1>1, <2>1, <2>2, <2>3
  <2>4. CASE opening # 0 /\ unsaved' = unsaved \cup {opening} /\ faults' = faults + 1
    BY <1>1, <2>1, <2>2, <2>4
  <2>5. QED
    BY <2>3, <2>4
<1>3. PollTypes'
  <2>1. pass' \in Pass /\ (pass'.step # "idle" => pass'.due # {}) /\ opening' \in Polls \cup {0} /\ faults' \in Nat
    BY <1>1 DEF PollTypes
  <2>2. QED
    BY <1>1, <1>2, <2>1 DEF PollTypes
<1>4. PassHolds'
  <2>1. CASE pass' = pass
    BY <1>1, <2>1, SamePass DEF PollsInv, PassHolds
  <2>2. CASE pass'.step \in {"idle", "read"} /\ \A m \in pass'.due : row[m] = "open"
    BY <1>1, <2>2 DEF PassHolds
  <2>3. QED
    BY <2>1, <2>2
<1>5. \A m \in Polls : Closing(m)' => Closing(m)
  <2>1. CASE pass' = pass
    BY <1>1, <2>1, SamePass DEF Closing
  <2>2. CASE pass'.step \in {"idle", "read"}
    BY <1>1, <2>2 DEF Closing
  <2>3. QED
    BY <2>1, <2>2
<1>6. \A m \in Polls : Closing(m) /\ ~Closing(m)' => faults' = faults + 1
  <2>1. CASE pass' = pass
    BY <1>1, <2>1, SamePass DEF Closing
  <2>2. CASE pass.step = "record" => faults' = faults + 1
    BY <1>1, <2>2 DEF Closing
  <2>3. QED
    BY <2>1, <2>2
<1>7. ASSUME NEW m \in Polls
      PROVE  ResultsCount(m)' /\ ResultsPaid(m)' /\ ClosedRightly(m)' /\ WrittenDown(m)'
  <2>1. ResultsCount(m) /\ ResultsPaid(m) /\ ClosedRightly(m) /\ WrittenDown(m) /\ Len(results[m]) \in Nat
    BY DEF PollsInv, PollTypes
  <2>2. ResultsCount(m)' /\ ClosedRightly(m)' /\ WrittenDown(m)'
    BY <1>1, <1>5, <2>1 DEF ResultsCount, ClosedRightly, WrittenDown
  <2>3. ResultsPaid(m)'
    BY <1>1, <1>5, <1>6, <2>1 DEF ResultsPaid
  <2>4. QED
    BY <2>2, <2>3
<1>8. opening' # 0 => row'[opening'] = "none" /\ poll'[opening'].state # "none"
  BY <1>1 DEF PollsInv
<1>9. QED
  BY <1>2, <1>3, <1>4, <1>7, <1>8 DEF PollsInv

\* Where one message changes that was posted: its counts may change until they are
\* final, and what is final or gone stays so.
LEMMA MessageMoves ==
  ASSUME PollTypes, PollsInv, UNCHANGED <<offered, results, reachable, pollJob, faults, unsaved>>,
         NEW m \in Polls, NEW b \in Ballot, poll' = [poll EXCEPT ![m] = b],
         poll[m].state # "none", b.state # "none", b.offer = poll[m].offer,
         Len(b.votes) = Len(poll[m].votes),
         poll[m].state \in {"final", "gone"} => b.state \in {"final", "gone"} /\ b.votes = poll[m].votes,
         poll[m].state = "gone" => b.state = "gone"
  PROVE  PollTypes' /\ PollsInv'
<1>1. UNCHANGED <<offered, results, reachable, row, opening, pass, faults, unsaved>> /\ AtPoll' = AtPoll
  BY SamePass DEF pollJob
<1>2. /\ poll'[m] = b /\ \A n \in Polls : n # m => poll'[n] = poll[n]
      /\ poll' \in [Polls -> Ballot]
  BY DEF PollTypes
<1>3. PollTypes'
  <2>1. \A n \in Polls : /\ Len(poll'[n].votes) = Len(poll'[n].offer)
                         /\ poll'[n].state # "none" => poll'[n].offer # <<>>
    BY <1>2 DEF PollTypes
  <2>2. QED
    BY <1>1, <1>2, <2>1 DEF PollTypes
<1>4. PassHolds'
  <2>1. CASE pass.step # "post"
    BY <1>1, <2>1 DEF PollsInv, PassHolds
  <2>2. CASE pass.step = "post"
    <3>1. AtPoll \in Polls
      BY <2>2, AtPollIsDue
    <3>2. QED
      BY <1>1, <1>2, <2>2, <3>1 DEF PollsInv, PassHolds
  <2>3. QED
    BY <2>1, <2>2
<1>5. \A n \in Polls : Closing(n)' = Closing(n)
  BY <1>1 DEF Closing
<1>6. ASSUME NEW n \in Polls
      PROVE  ResultsCount(n)' /\ ResultsPaid(n)' /\ ClosedRightly(n)' /\ WrittenDown(n)'
  <2>1. ResultsCount(n) /\ ResultsPaid(n) /\ ClosedRightly(n) /\ WrittenDown(n)
    BY DEF PollsInv
  <2>2. CASE n # m
    BY <1>1, <1>2, <1>5, <2>1, <2>2 DEF ResultsCount, ResultsPaid, ClosedRightly, WrittenDown
  <2>3. CASE n = m
    <3>1. ResultsCount(n)'
      <4>1. CASE results[m] = <<>>
        BY <1>1, <2>3, <4>1 DEF ResultsCount
      <4>2. CASE results[m] # <<>>
        BY <1>1, <1>2, <2>1, <2>3, <4>2 DEF ResultsCount
      <4>3. QED
        BY <4>1, <4>2
    <3>2. ResultsPaid(n)' /\ ClosedRightly(n)' /\ WrittenDown(n)'
      BY <1>1, <1>2, <1>5, <2>1, <2>3 DEF ResultsPaid, ClosedRightly, WrittenDown
    <3>3. QED
      BY <3>1, <3>2
  <2>4. QED
    BY <2>2, <2>3
<1>7. QED
  BY <1>1, <1>3, <1>4, <1>6 DEF PollsInv

\* The members answer, and Discord ends, counts and deletes.
LEMMA OthersAnswer ==
  ASSUME PollTypes, PollsInv, NEW m \in Polls, Votes(m) \/ Ends(m) \/ Finalizes(m) \/ Deletes(m)
  PROVE  PollTypes' /\ PollsInv'
<1>1. poll[m] \in Ballot /\ MostVotes \in Nat
  BY PollsAreNumbers DEF PollTypes
<1>2. CASE Votes(m)
  <2>1. PICK i \in DOMAIN poll[m].votes : /\ poll[m].votes[i] < MostVotes
                                         /\ poll' = [poll EXCEPT ![m].votes[i] = @ + 1]
    BY <1>2 DEF Votes
  <2> DEFINE counts == [poll[m].votes EXCEPT ![i] = @ + 1]
             b == [poll[m] EXCEPT !.votes = counts]
  <2>2. counts \in Seq(0..MostVotes) /\ Len(counts) = Len(poll[m].votes)
    <3>1. poll[m].votes \in Seq(0..MostVotes)
      BY <1>1 DEF Ballot
    <3>2. poll[m].votes[i] + 1 \in 0..MostVotes
      BY <1>1, <2>1, <3>1
    <3>3. QED
      BY <3>1, <3>2
  <2>3. poll' = [poll EXCEPT ![m] = b]
    BY <2>1
  <2> HIDE DEF counts
  <2>4. b \in Ballot /\ b.votes = counts /\ b.offer = poll[m].offer /\ b.state = poll[m].state
    BY <1>1, <2>2 DEF Ballot
  <2>5. poll[m].state \in {"open", "ended"} /\ UNCHANGED <<offered, results, reachable, pollJob, faults, unsaved>>
    BY <1>2 DEF Votes
  <2> HIDE DEF b
  <2>6. QED
    BY <2>2, <2>3, <2>4, <2>5, MessageMoves
<1>3. CASE Ends(m)
  <2> DEFINE b == [poll[m] EXCEPT !.past = TRUE, !.state = IF @ = "open" THEN "ended" ELSE @]
  <2>1. poll' = [poll EXCEPT ![m] = b] /\ poll[m].state # "none"
    BY <1>3 DEF Ends
  <2>2. /\ b \in Ballot /\ b.votes = poll[m].votes /\ b.offer = poll[m].offer
        /\ b.state = IF poll[m].state = "open" THEN "ended" ELSE poll[m].state
    BY <1>1 DEF Ballot
  <2>3. UNCHANGED <<offered, results, reachable, pollJob, faults, unsaved>>
    BY <1>3 DEF Ends, spent
  <2> HIDE DEF b
  <2>4. QED
    BY <2>1, <2>2, <2>3, MessageMoves
<1>4. CASE Finalizes(m)
  <2> DEFINE b == [poll[m] EXCEPT !.state = "final"]
  <2>1. poll' = [poll EXCEPT ![m] = b] /\ poll[m].state = "ended"
    BY <1>4 DEF Finalizes
  <2>2. b \in Ballot /\ b.votes = poll[m].votes /\ b.offer = poll[m].offer /\ b.state = "final"
    BY <1>1 DEF Ballot
  <2>3. UNCHANGED <<offered, results, reachable, pollJob, faults, unsaved>>
    BY <1>4 DEF Finalizes, spent
  <2> HIDE DEF b
  <2>4. QED
    BY <2>1, <2>2, <2>3, MessageMoves
<1>5. CASE Deletes(m)
  <2> DEFINE b == [poll[m] EXCEPT !.state = "gone"]
  <2>1. poll' = [poll EXCEPT ![m] = b] /\ poll[m].state \in {"open", "ended", "final"}
    BY <1>5 DEF Deletes
  <2>2. b \in Ballot /\ b.votes = poll[m].votes /\ b.offer = poll[m].offer /\ b.state = "gone"
    BY <1>1 DEF Ballot
  <2>3. UNCHANGED <<offered, results, reachable, pollJob, faults, unsaved>>
    BY <1>5 DEF Deletes, spent
  <2> HIDE DEF b
  <2>4. QED
    BY <2>1, <2>2, <2>3, MessageMoves
<1>6. QED
  BY <1>2, <1>3, <1>4, <1>5

\* The channel is closed to the bot: what is written off then was not heard.
LEMMA ChannelCloses ==
  ASSUME PollTypes, PollsInv, Closes
  PROVE  PollTypes' /\ PollsInv'
<1>1. UNCHANGED <<offered, poll, results, row, opening, pass, faults, unsaved>> /\ reachable' = FALSE /\ AtPoll' = AtPoll
  BY SamePass DEF Closes, pollJob, spent
<1>2. PollTypes' /\ PassHolds'
  BY <1>1 DEF PollTypes, PollsInv, PassHolds
<1>3. \A m \in Polls : Closing(m)' = Closing(m)
  BY <1>1 DEF Closing
<1>4. \A m \in Polls : ResultsCount(m)' /\ ResultsPaid(m)' /\ ClosedRightly(m)' /\ WrittenDown(m)'
  BY <1>1, <1>3 DEF PollsInv, ResultsCount, ResultsPaid, ClosedRightly, WrittenDown
<1>5. QED
  BY <1>1, <1>2, <1>4 DEF PollsInv

\* A poll is posted: no row knows of it, and no result can.
LEMMA PollIsPosted ==
  ASSUME PollTypes, PollsInv, NEW m \in Polls, PostPoll(m)
  PROVE  PollTypes' /\ PollsInv'
<1> DEFINE offer == FirstOf(Candidates, Polled)
           b == [state |-> "open", offer |-> offer, votes |-> [i \in DOMAIN offer |-> 0], past |-> FALSE]
<1>1. /\ UNCHANGED <<offered, results, reachable, row, pass, faults, unsaved>> /\ AtPoll' = AtPoll
      /\ opening = 0 /\ opening' = m /\ poll[m].state = "none" /\ Candidates # <<>>
      /\ poll' = [poll EXCEPT ![m] = b]
  BY SamePass DEF PostPoll, spent
<1>2. offer \in Seq(Evening) /\ offer # <<>>
  BY <1>1, CandidatesAreEvenings, FirstOfIsSome, MeetingPollsAssumption DEF MeetingPollsAssumption
<1> HIDE DEF offer
<1>3. /\ b \in Ballot /\ b.offer # <<>> /\ b.state = "open" /\ Len(b.votes) = Len(b.offer)
  <2>1. [i \in DOMAIN offer |-> 0] \in Seq(0..MostVotes) /\ Len([i \in DOMAIN offer |-> 0]) = Len(offer)
    BY <1>2, PollsAreNumbers
  <2>2. QED
    BY <1>2, <2>1 DEF Ballot
<1> HIDE DEF b
<1>4. /\ poll'[m] = b /\ \A n \in Polls : n # m => poll'[n] = poll[n]
      /\ poll' \in [Polls -> Ballot]
  BY <1>1, <1>3 DEF PollTypes
<1>5. PollTypes'
  <2>1. \A n \in Polls : /\ Len(poll'[n].votes) = Len(poll'[n].offer)
                         /\ poll'[n].state # "none" => poll'[n].offer # <<>>
    BY <1>3, <1>4 DEF PollTypes
  <2>2. QED
    BY <1>1, <1>4, <2>1 DEF PollTypes
<1>6. row[m] = "none" /\ results[m] = <<>> /\ 0 \notin Polls
  BY <1>1, PollsAreNumbers DEF PollsInv, WrittenDown, ResultsCount
<1>7. PassHolds'
  <2>1. CASE pass.step # "post"
    BY <1>1, <2>1 DEF PollsInv, PassHolds
  <2>2. CASE pass.step = "post"
    <3>1. AtPoll \in Polls /\ AtPoll # m
      BY <1>6, <2>2, AtPollIsDue DEF PollsInv, PassHolds
    <3>2. QED
      BY <1>1, <1>4, <2>2, <3>1 DEF PollsInv, PassHolds
  <2>3. QED
    BY <2>1, <2>2
<1>8. \A n \in Polls : Closing(n)' = Closing(n)
  BY <1>1 DEF Closing
<1>9. ~Closing(m)
  BY <1>6, AtPollIsDue DEF PollsInv, PassHolds, Closing
<1>10. ASSUME NEW n \in Polls
       PROVE  ResultsCount(n)' /\ ResultsPaid(n)' /\ ClosedRightly(n)' /\ WrittenDown(n)'
  <2>1. ResultsCount(n) /\ ResultsPaid(n) /\ ClosedRightly(n) /\ WrittenDown(n)
    BY DEF PollsInv
  <2>2. CASE n # m
    BY <1>1, <1>4, <1>6, <1>8, <2>1, <2>2 DEF ResultsCount, ResultsPaid, ClosedRightly, WrittenDown
  <2>3. CASE n = m
    BY <1>1, <1>3, <1>4, <1>6, <1>8, <1>9, <2>1, <2>3 DEF ResultsCount, ResultsPaid, ClosedRightly, WrittenDown
  <2>4. QED
    BY <2>2, <2>3
<1>11. QED
  BY <1>1, <1>3, <1>4, <1>5, <1>6, <1>7, <1>10 DEF PollsInv

\* The poll that was posted is written down.
LEMMA PollIsSaved ==
  ASSUME PollTypes, PollsInv, SavePoll
  PROVE  PollTypes' /\ PollsInv'
<1>1. /\ UNCHANGED <<offered, poll, results, reachable, pass, faults, unsaved>> /\ AtPoll' = AtPoll
      /\ opening \in Polls /\ opening # 0 /\ opening' = 0 /\ row' = [row EXCEPT ![opening] = "open"]
  BY SamePass DEF SavePoll, PollTypes, tally, spent
<1>2. /\ row'[opening] = "open" /\ \A n \in Polls : n # opening => row'[n] = row[n]
      /\ row' \in [Polls -> {"none", "open", "closed"}]
      /\ row[opening] = "none"
  BY <1>1 DEF PollTypes, PollsInv
<1>3. PollTypes'
  BY <1>1, <1>2 DEF PollTypes
<1>4. PassHolds'
  <2>1. \A n \in pass.due : n \in Polls /\ row[n] = "open"
    BY DEF PollsInv, PassHolds, PollTypes, Pass
  <2>2. QED
    BY <1>1, <1>2, <2>1 DEF PollsInv, PassHolds
<1>5. \A n \in Polls : Closing(n)' = Closing(n)
  BY <1>1, <1>2 DEF Closing
<1>6. ASSUME NEW n \in Polls
      PROVE  ResultsCount(n)' /\ ResultsPaid(n)' /\ ClosedRightly(n)' /\ WrittenDown(n)'
  <2>1. ResultsCount(n) /\ ResultsPaid(n) /\ ClosedRightly(n) /\ WrittenDown(n)
    BY DEF PollsInv
  <2>2. ResultsCount(n)' /\ ResultsPaid(n)' /\ ClosedRightly(n)'
    BY <1>1, <1>5, <2>1 DEF ResultsCount, ResultsPaid, ClosedRightly
  <2>3. WrittenDown(n)'
    <3>1. CASE n = opening
      <4>1. poll[n].state # "none"
        BY <1>1, <3>1 DEF PollsInv
      <4>2. QED
        BY <1>1, <1>2, <3>1, <4>1 DEF WrittenDown
    <3>2. CASE n # opening
      BY <1>1, <1>2, <2>1, <3>2 DEF WrittenDown
    <3>3. QED
      BY <3>1, <3>2
  <2>4. QED
    BY <2>2, <2>3
<1>7. QED
  BY <1>1, <1>3, <1>4, <1>6 DEF PollsInv

\* A pass starts, passes over a poll or is broken off, or the bot stops.
LEMMA PassGoesOn ==
  ASSUME PollTypes, PollsInv, StartPass \/ PollFault \/ PollsStop
  PROVE  PollTypes' /\ PollsInv'
<1>1. NoPass \in Pass /\ NoPass.step = "idle" /\ NoPass.due = {}
  BY DEF NoPass, Pass
<1>2. faults \in Nat /\ offered \in Offers
  BY DEF PollTypes
<1>3. CASE StartPass
  <2>1. /\ pass.step = "idle" /\ Due # {} /\ pass' = [NoPass EXCEPT !.step = "read", !.due = Due]
        /\ UNCHANGED <<offered, tally, row, opening, faults, unsaved>>
    BY <1>3 DEF StartPass, spent
  <2>2. Due \in SUBSET Polls /\ \A m \in Due : row[m] = "open"
    BY DEF Due
  <2>3. pass' \in Pass /\ pass'.step = "read" /\ pass'.due = Due
    BY <1>1, <2>1, <2>2 DEF Pass
  <2>4. QED
    BY <1>2, <2>1, <2>2, <2>3, JobMoves
<1>4. CASE PollFault \/ PollsStop
  <2>1. /\ UNCHANGED <<offered, tally, row>> /\ faults' = faults + 1
        /\ pass' = pass \/ (pass.step = "read" /\ pass' = NextPoll) \/ pass' = NoPass
        /\ \/ UNCHANGED <<opening, unsaved>>
           \/ opening # 0 /\ opening' = 0 /\ unsaved' = unsaved \cup {opening}
    BY <1>4 DEF PollFault, PollsStop, Strikes, NotSaved
  <2>2. CASE pass' = NextPoll /\ pass.step = "read"
    <3>1. /\ pass' \in Pass /\ pass'.step \in {"idle", "read"} /\ pass'.due \subseteq pass.due
          /\ pass'.step # "idle" => pass'.due # {}
      BY <2>2, NextPollIs
    <3>2. \A m \in pass'.due : row[m] = "open"
      BY <3>1 DEF PollsInv, PassHolds
    <3>3. QED
      BY <1>2, <2>1, <3>1, <3>2, JobMoves
  <2>3. CASE pass' = NoPass
    BY <1>1, <1>2, <2>1, <2>3, JobMoves
  <2>4. CASE pass' = pass
    BY <1>2, <2>1, <2>4, JobMoves
  <2>5. QED
    BY <2>1, <2>2, <2>3, <2>4
<1>5. QED
  BY <1>3, <1>4

\* Where the poll in hand comes to be written off, with or without a result.
LEMMA PollIsRead ==
  ASSUME PollTypes, PollsInv, ReadPoll
  PROVE  PollTypes' /\ PollsInv'
<1>1. /\ UNCHANGED <<offered, poll, results, reachable, row, opening, faults, unsaved>>
      /\ pass.step = "read" /\ pass \in Pass /\ pass.due # {}
  BY DEF ReadPoll, tally, spent, PollTypes
<1>2. AtPoll \in pass.due /\ AtPoll \in Polls /\ poll[AtPoll] \in Ballot
  BY <1>1, AtPollIsDue DEF PollTypes
<1>3. CASE ~reachable \/ poll[AtPoll].state = "gone"
  <2>1. pass' = [pass EXCEPT !.step = "record"]
    BY <1>3 DEF ReadPoll, Settles
  <2>2. pass' \in Pass /\ pass'.step = "record" /\ pass'.due = pass.due
    BY <1>1, <2>1 DEF Pass
  <2>3. AtPoll' = AtPoll
    BY <2>2, SamePass
  <2>4. PollTypes'
    BY <1>1, <2>2 DEF PollTypes
  <2>5. PassHolds'
    BY <1>1, <2>2 DEF PollsInv, PassHolds
  <2>6. \A m \in Polls : Closing(m)' <=> (Closing(m) \/ m = AtPoll)
    BY <1>1, <2>2, <2>3 DEF Closing
  <2>7. \A m \in Polls : ResultsCount(m)' /\ ResultsPaid(m)' /\ ClosedRightly(m)' /\ WrittenDown(m)'
    <3>1. \A m \in Polls : Len(results[m]) \in Nat /\ faults \in Nat
      BY DEF PollTypes
    <3>2. \A m \in Polls : ClosedRightly(m)'
      BY <1>1, <1>3, <2>6 DEF PollsInv, ClosedRightly
    <3>3. ASSUME NEW m \in Polls PROVE ResultsPaid(m)'
      <4>1. Closing(m) => Closing(m)'
        BY <2>6
      <4>2. ResultsPaid(m)
        BY DEF PollsInv
      <4>3. QED
        BY <1>1, <3>1, <4>1, <4>2 DEF ResultsPaid
    <3>4. QED
      BY <1>1, <3>2, <3>3 DEF PollsInv, ResultsCount, WrittenDown
  <2>8. QED
    BY <1>1, <2>4, <2>5, <2>7 DEF PollsInv
<1>4. CASE reachable /\ poll[AtPoll].state = "final"
  <2>1. pass' = [pass EXCEPT !.step = "post", !.counts = poll[AtPoll].votes]
    BY <1>4 DEF ReadPoll, Settles
  <2>2. pass' \in Pass /\ pass'.step = "post" /\ pass'.due = pass.due /\ pass'.counts = poll[AtPoll].votes
    BY <1>1, <1>2, <2>1 DEF Pass, Ballot
  <2>3. AtPoll' = AtPoll
    BY <2>2, SamePass
  <2>4. PollTypes'
    BY <1>1, <2>2 DEF PollTypes
  <2>5. PassHolds'
    BY <1>1, <1>4, <2>2, <2>3 DEF PollsInv, PassHolds
  <2>6. \A m \in Polls : Closing(m)' = Closing(m)
    BY <1>1, <2>2 DEF Closing
  <2>7. \A m \in Polls : ResultsCount(m)' /\ ResultsPaid(m)' /\ ClosedRightly(m)' /\ WrittenDown(m)'
    BY <1>1, <2>6 DEF PollsInv, ResultsCount, ResultsPaid, ClosedRightly, WrittenDown
  <2>8. QED
    BY <1>1, <2>4, <2>5, <2>7 DEF PollsInv
<1>5. CASE reachable /\ poll[AtPoll].state \notin {"final", "gone"}
  <2>1. pass' = NextPoll
    BY <1>5 DEF ReadPoll, Settles
  <2>2. /\ pass' \in Pass /\ pass'.step \in {"idle", "read"} /\ pass'.due \subseteq pass.due
        /\ pass'.step # "idle" => pass'.due # {}
    BY <1>1, <2>1, NextPollIs
  <2>3. \A m \in pass'.due : row[m] = "open"
    BY <2>2 DEF PollsInv, PassHolds
  <2>4. UNCHANGED tally /\ faults \in Nat /\ offered \in Offers
    BY DEF ReadPoll, PollTypes
  <2>5. QED
    BY <1>1, <2>2, <2>3, <2>4, JobMoves
<1>6. QED
  BY <1>3, <1>4, <1>5

\* The result is posted: the one that comes of no fault, and of the final counts.
LEMMA ResultIsPosted ==
  ASSUME PollTypes, PollsInv, PostResult
  PROVE  PollTypes' /\ PollsInv'
<1> DEFINE result == ResultOf(poll[AtPoll].offer, pass.counts)
<1>1. /\ UNCHANGED <<offered, poll, reachable, row, opening, faults, unsaved>>
      /\ pass.step = "post" /\ pass \in Pass /\ pass.due # {} /\ pass' = [pass EXCEPT !.step = "record"]
  BY DEF PostResult, spent, PollTypes
<1>2. AtPoll \in pass.due /\ AtPoll \in Polls /\ poll[AtPoll] \in Ballot /\ row[AtPoll] = "open"
  BY <1>1, AtPollIsDue DEF PollTypes, PollsInv, PassHolds
<1>3. pass' \in Pass /\ pass'.step = "record" /\ pass'.due = pass.due /\ AtPoll' = AtPoll
  <2>1. pass' \in Pass /\ pass'.step = "record" /\ pass'.due = pass.due
    BY <1>1 DEF Pass
  <2>2. QED
    BY <2>1, SamePass
<1>4. poll[AtPoll].state \in {"final", "gone"} /\ pass.counts = poll[AtPoll].votes
  BY <1>1 DEF PollsInv, PassHolds
<1>5. result \in Verdict /\ CountTold(poll[AtPoll].offer, poll[AtPoll].votes, result)
  <2>1. poll[AtPoll].offer \in Seq(Evening) /\ poll[AtPoll].offer # <<>>
    BY <1>2, <1>4 DEF PollTypes, Ballot
  <2>2. poll[AtPoll].votes \in [1..Len(poll[AtPoll].offer) -> 0..MostVotes]
    <3>1. poll[AtPoll].votes \in Seq(0..MostVotes) /\ Len(poll[AtPoll].votes) = Len(poll[AtPoll].offer)
      BY <1>2 DEF PollTypes, Ballot
    <3>2. poll[AtPoll].votes \in [1..Len(poll[AtPoll].votes) -> 0..MostVotes]
      BY <3>1, LenProperties
    <3>3. QED
      BY <3>1, <3>2
  <2>3. QED
    BY <1>4, <2>1, <2>2, ResultTells
<1> HIDE DEF result
<1>6. results' = IF reachable THEN [results EXCEPT ![AtPoll] = Append(@, result)] ELSE results
  BY DEF PostResult, result
<1>7. /\ results' \in [Polls -> Seq(Verdict)] /\ results[AtPoll] \in Seq(Verdict)
      /\ \A m \in Polls : m # AtPoll => results'[m] = results[m]
      /\ results'[AtPoll] = IF reachable THEN Append(results[AtPoll], result) ELSE results[AtPoll]
  BY <1>2, <1>5, <1>6 DEF PollTypes
<1>8. PollTypes'
  BY <1>1, <1>3, <1>7 DEF PollTypes
<1>9. PassHolds'
  BY <1>1, <1>3 DEF PollsInv, PassHolds
<1>10. \A m \in Polls : Closing(m)' <=> (Closing(m) \/ m = AtPoll)
  BY <1>1, <1>3 DEF Closing
<1>11. ASSUME NEW m \in Polls
       PROVE  ResultsCount(m)' /\ ResultsPaid(m)' /\ ClosedRightly(m)' /\ WrittenDown(m)'
  <2>1. ResultsCount(m) /\ ResultsPaid(m) /\ ClosedRightly(m) /\ WrittenDown(m) /\ faults \in Nat
    BY DEF PollsInv, PollTypes
  <2>2. CASE m # AtPoll
    <3>1. results'[m] = results[m] /\ (Closing(m)' <=> Closing(m))
      BY <1>7, <1>10, <2>2
    <3>2. QED
      BY <1>1, <2>1, <3>1 DEF ResultsCount, ResultsPaid, ClosedRightly, WrittenDown
  <2>3. CASE m = AtPoll
    <3>1. ~Closing(m) /\ Closing(m)'
      BY <1>1, <1>2, <1>10, <2>3 DEF Closing
    <3>2. results[m] \in Seq(Verdict) /\ Len(results[m]) <= faults
      BY <1>7, <2>1, <2>3, <3>1 DEF ResultsPaid
    <3>3. results'[m] = IF reachable THEN Append(results[m], result) ELSE results[m]
      BY <1>7, <2>3
    <3>4. ResultsPaid(m)'
      BY <1>1, <2>1, <3>1, <3>2, <3>3 DEF ResultsPaid
    <3>5. \A i \in DOMAIN results'[m] : CountTold(poll[m].offer, poll[m].votes, results'[m][i])
      <4>1. \A i \in DOMAIN results[m] : CountTold(poll[m].offer, poll[m].votes, results[m][i])
        BY <2>1 DEF ResultsCount
      <4>2. ASSUME NEW i \in DOMAIN results'[m]
            PROVE  (i \in DOMAIN results[m] /\ results'[m][i] = results[m][i]) \/ results'[m][i] = result
        BY <3>2, <3>3
      <4>3. QED
        BY <1>5, <2>3, <4>1, <4>2
    <3>6. ResultsCount(m)'
      BY <1>1, <1>4, <2>3, <3>5 DEF ResultsCount
    <3>7. ClosedRightly(m)'
      <4>1. reachable => results'[m] # <<>>
        BY <3>2, <3>3
      <4>2. QED
        BY <1>1, <4>1 DEF ClosedRightly
    <3>8. WrittenDown(m)'
      BY <1>1, <2>1 DEF WrittenDown
    <3>9. QED
      BY <3>4, <3>6, <3>7, <3>8
  <2>4. QED
    BY <2>2, <2>3
<1>12. QED
  BY <1>1, <1>8, <1>9, <1>11 DEF PollsInv

\* A poll is written off, as it was about to be.
LEMMA PollIsClosed ==
  ASSUME PollTypes, PollsInv, RecordClosed
  PROVE  PollTypes' /\ PollsInv'
<1>1. /\ UNCHANGED <<offered, poll, results, reachable, opening, faults, unsaved>>
      /\ pass.step = "record" /\ pass' = NextPoll /\ row' = [row EXCEPT ![AtPoll] = "closed"]
  BY DEF RecordClosed, tally, spent
<1>2. AtPoll \in pass.due /\ AtPoll \in Polls /\ row[AtPoll] = "open" /\ pass.due \subseteq Polls
  BY <1>1, AtPollIsDue DEF PollTypes, Pass, PollsInv, PassHolds
<1>3. /\ pass' \in Pass /\ pass'.step \in {"idle", "read"} /\ pass'.due = pass.due \ {AtPoll}
      /\ pass'.step # "idle" => pass'.due # {}
  BY <1>1, NextPollIs
<1>4. /\ row'[AtPoll] = "closed" /\ \A m \in Polls : m # AtPoll => row'[m] = row[m]
      /\ row' \in [Polls -> {"none", "open", "closed"}]
  BY <1>1, <1>2 DEF PollTypes
<1>5. PollTypes'
  BY <1>1, <1>3, <1>4 DEF PollTypes
<1>6. PassHolds'
  BY <1>1, <1>2, <1>3, <1>4 DEF PollsInv, PassHolds
<1>7. \A m \in Polls : Closing(m)' = Closing(m)
  BY <1>1, <1>2, <1>3, <1>4 DEF Closing
<1>8. ASSUME NEW m \in Polls
      PROVE  ResultsCount(m)' /\ ResultsPaid(m)' /\ ClosedRightly(m)' /\ WrittenDown(m)'
  <2>1. ResultsCount(m) /\ ResultsPaid(m) /\ ClosedRightly(m) /\ WrittenDown(m)
    BY DEF PollsInv
  <2>2. WrittenDown(m)'
    BY <1>1, <1>2, <1>4, <2>1 DEF WrittenDown
  <2>3. QED
    BY <1>1, <1>7, <2>1, <2>2 DEF ResultsCount, ResultsPaid, ClosedRightly
<1>9. opening' # 0 => row'[opening'] = "none" /\ poll'[opening'].state # "none"
  <2>1. opening # 0 => opening \in Polls /\ row[opening] = "none" /\ poll[opening].state # "none"
    BY DEF PollsInv, PollTypes
  <2>2. QED
    BY <1>1, <1>2, <1>4, <2>1
<1>10. QED
  BY <1>1, <1>5, <1>6, <1>8, <1>9 DEF PollsInv

-----------------------------------------------------------------------------
(* The repeats and the requests that create them.                           *)

Calls == [step : {"none", "first", "waiting", "second", "created"}, of : checked \cup {NoCall.of}]

Told == [created : Nat, lost : Nat, wrong : Nat, nothing : Nat]
OtherThan(t) == t.lost + t.wrong + t.nothing

\* What RepeatsAreChecked and AnswersAreTrue rest on: what is named, and what is
\* asked of VIA, was checked before; and a request that VIA has still to answer
\* is of a form that has created nothing yet.
CreationInv ==
  /\ series \in Seq(checked) /\ names \subseteq checked
  /\ call \in Calls /\ (call.step # "none" => call.of \in checked)
  /\ told \in Told /\ forms \in Nat
  /\ call.step \in {"first", "waiting", "second"} => Len(series) < forms
  /\ AnswersAreTrue

\* What VIA still recommends at its score is among what was checked.
LEMMA StillIsChecked ==
  ASSUME NEW p \in Proposals, Still(p), Accepts(p)
  PROVE  p \in checked'
<1>1. PICK i \in DOMAIN Candidates : Candidates[i].at = p.at /\ Rounded(Candidates[i].score) = p.score
  BY DEF Still, Matching
<1>2. PICK c : p = ProposalOf(c)
  BY DEF Proposals
<1>3. p = ProposalOf(Candidates[i])
  BY <1>1, <1>2 DEF ProposalOf
<1>4. Candidates[i] \in Range(Candidates)
  BY DEF Range
<1>5. QED
  BY <1>3, <1>4 DEF Accepts

\* Before the first repeat.
LEMMA CreationStarts == Init => CreationInv
<1> SUFFICES ASSUME Init PROVE CreationInv
  OBVIOUS
<1>1. /\ series = <<>> /\ names = {} /\ checked = {} /\ call = NoCall /\ forms = 0
      /\ told = [created |-> 0, lost |-> 0, wrong |-> 0, nothing |-> 0]
  BY DEF Init, PollsInit
<1>2. NoCall \in [step : {"none", "first", "waiting", "second", "created"}, of : {NoCall.of}] /\ NoCall.step = "none"
  BY DEF NoCall
<1>3. QED
  BY <1>1, <1>2 DEF CreationInv, Calls, Told, AnswersAreTrue

\* Where no repeat and no request changes, more may be checked and named.
LEMMA CreationStands ==
  ASSUME CreationInv, UNCHANGED <<series, creation>>, checked \subseteq checked', names' \subseteq checked'
  PROVE  CreationInv'
<1>1. UNCHANGED <<series, call, forms, told>>
  BY DEF creation
<1>2. series' \in Seq(checked') /\ call' \in Calls'
  BY <1>1 DEF CreationInv, Calls
<1>3. AnswersAreTrue'
  BY <1>1 DEF CreationInv, AnswersAreTrue
<1>4. QED
  BY <1>1, <1>2, <1>3 DEF CreationInv

LEMMA Counted ==
  ASSUME NEW t \in Told
  PROVE  /\ t.created \in Nat /\ OtherThan(t) \in Nat
         /\ t.created + t.lost + t.wrong + t.nothing = t.created + OtherThan(t)
<1>1. t.created \in Nat /\ t.lost \in Nat /\ t.wrong \in Nat /\ t.nothing \in Nat
  BY DEF Told
<1>2. ASSUME NEW a \in Nat, NEW b \in Nat, NEW c \in Nat, NEW d \in Nat
      PROVE  b + c + d \in Nat /\ a + b + c + d = a + (b + c + d)
  OBVIOUS
<1>3. /\ t.lost + t.wrong + t.nothing \in Nat
      /\ t.created + t.lost + t.wrong + t.nothing = t.created + (t.lost + t.wrong + t.nothing)
  BY <1>1, <1>2
<1>4. QED
  BY <1>1, <1>3 DEF OtherThan

LEMMA OneMoreTold ==
  ASSUME NEW t \in Told, NEW w \in {"created", "lost", "wrong", "nothing"}, NEW u, u = [t EXCEPT ![w] = @ + 1]
  PROVE  /\ u \in Told
         /\ IF w = "created" THEN u.created = t.created + 1 /\ OtherThan(u) = OtherThan(t)
                             ELSE u.created = t.created /\ OtherThan(u) = OtherThan(t) + 1
<1>1. t.created \in Nat /\ t.lost \in Nat /\ t.wrong \in Nat /\ t.nothing \in Nat
  BY DEF Told
<1>2. /\ u \in Told
      /\ u.created = IF w = "created" THEN t.created + 1 ELSE t.created
      /\ u.lost = IF w = "lost" THEN t.lost + 1 ELSE t.lost
      /\ u.wrong = IF w = "wrong" THEN t.wrong + 1 ELSE t.wrong
      /\ u.nothing = IF w = "nothing" THEN t.nothing + 1 ELSE t.nothing
  BY <1>1 DEF Told
<1>3. \A a, b, c \in Nat : (a + 1) + b + c = a + b + c + 1 /\ a + (b + 1) + c = a + b + c + 1 /\ a + b + (c + 1) = a + b + c + 1
  OBVIOUS
<1>4. CASE w = "created"
  BY <1>2, <1>4, Zenon DEF OtherThan
<1>5. CASE w = "lost"
  BY <1>1, <1>2, <1>3, <1>5 DEF OtherThan
<1>6. CASE w = "wrong"
  BY <1>1, <1>2, <1>3, <1>6 DEF OtherThan
<1>7. CASE w = "nothing"
  BY <1>1, <1>2, <1>3, <1>7 DEF OtherThan
<1>8. QED
  BY <1>4, <1>5, <1>6, <1>7

\* A form is sent back and VIA answers its request, or does not, or the bot stops.
LEMMA CreationMoves ==
  ASSUME CreationInv,
         \/ \E p \in Proposals : Submits(p)
         \/ Creates \/ Refuses \/ Busy \/ Retries \/ Tells \/ Loses \/ PollsStop
  PROVE  CreationInv'
<1> DEFINE Untold == IF call.step = "created" THEN 1 ELSE 0
<1>1. /\ series \in Seq(checked) /\ Len(series) \in Nat /\ names \subseteq checked
      /\ call \in Calls /\ (call.step # "none" => call.of \in checked)
      /\ told \in Told /\ told.created \in Nat /\ OtherThan(told) \in Nat /\ forms \in Nat
      /\ call.step \in {"first", "waiting", "second"} => Len(series) < forms
      /\ Len(series) <= forms
      /\ told.created <= Len(series) - Untold /\ Len(series) - Untold <= told.created + OtherThan(told)
  <2>1. told \in Told /\ series \in Seq(checked) /\ Len(series) \in Nat
    BY DEF CreationInv
  <2>2. /\ told.created \in Nat /\ OtherThan(told) \in Nat
        /\ told.created + told.lost + told.wrong + told.nothing = told.created + OtherThan(told)
    BY <2>1, Counted
  <2>3. /\ Len(series) <= forms
        /\ told.created <= Len(series) - Untold /\ Len(series) - Untold <= told.created + OtherThan(told)
    BY <2>1, <2>2 DEF CreationInv, AnswersAreTrue
  <2>4. QED
    BY <2>1, <2>2, <2>3 DEF CreationInv
<1>2. NoCall \in Calls /\ NoCall.step = "none"
  BY DEF NoCall, Calls
<1>3. \A s \in {"first", "waiting", "second", "created"} :
        LET later == [call EXCEPT !.step = s]
        IN  later \in Calls /\ later.step = s /\ later.of = call.of
  BY <1>1 DEF Calls
<1>4. SUFFICES /\ UNCHANGED <<names, checked>>
               /\ series' \in Seq(checked) /\ call' \in Calls /\ (call'.step # "none" => call'.of \in checked)
               /\ told' \in Told /\ forms' \in Nat
               /\ call'.step \in {"first", "waiting", "second"} => Len(series') < forms'
               /\ Len(series') <= forms'
               /\ LET untold == IF call'.step = "created" THEN 1 ELSE 0
                  IN  told'.created <= Len(series') - untold /\ Len(series') - untold <= told'.created + OtherThan(told')
  <2>1. ASSUME told' \in Told, series' \in Seq(checked)
        PROVE  /\ Len(series') \in Nat /\ told'.created \in Nat
               /\ told'.created + told'.lost + told'.wrong + told'.nothing = told'.created + OtherThan(told')
               /\ told'.created + OtherThan(told') \in Nat
    <3>1. Len(series') \in Nat
      BY <2>1
    <3>2. QED
      BY <2>1, <3>1, Counted
  <2>2. QED
    BY <1>1, <1>4, <2>1 DEF CreationInv, Calls, AnswersAreTrue
<1>5. ASSUME NEW p \in Proposals, Submits(p)
      PROVE  /\ UNCHANGED <<series, names, told, checked>> /\ forms' = forms + 1 /\ p \in checked
             /\ call.step = "none" /\ call' \in Calls /\ call'.step = "first" /\ call'.of = p
  BY <1>1, <1>5 DEF Submits, board, spent, Calls
<1>6. CASE \E p \in Proposals : Submits(p)
  BY <1>1, <1>5, <1>6
<1>7. CASE Creates
  <2>1. /\ UNCHANGED <<names, told, forms, checked>> /\ call.step \in {"first", "second"}
        /\ call' = [call EXCEPT !.step = "created"] /\ series' = Append(series, call.of)
    BY <1>7 DEF Creates, Sent, board
  <2>2. series' \in Seq(checked) /\ Len(series') = Len(series) + 1
    BY <1>1, <2>1
  <2>3. QED
    BY <1>1, <1>3, <2>1, <2>2
<1>8. CASE Refuses \/ Busy \/ Retries
  <2>1. /\ UNCHANGED <<names, told, forms, checked, series>>
        /\ \/ call.step \in {"first", "second"} /\ call' = NoCall
           \/ call.step = "first" /\ call' = [call EXCEPT !.step = "waiting"]
           \/ call.step = "waiting" /\ call' = [call EXCEPT !.step = "second"]
    BY <1>8 DEF Refuses, Busy, Retries, Sent, board
  <2>2. call' \in Calls /\ (call'.step # "none" => call'.of \in checked)
    BY <1>1, <1>2, <1>3, <2>1
  <2>3. /\ call.step # "created" /\ call'.step # "created"
        /\ call'.step \in {"first", "waiting", "second"} => Len(series) < forms
    BY <1>1, <1>2, <1>3, <2>1
  <2>4. QED
    BY <1>1, <2>1, <2>2, <2>3
<1>9. CASE Tells \/ Loses \/ PollsStop
  <2>1. ASSUME NEW w \in {"lost", "wrong", "nothing"}, told' = [told EXCEPT ![w] = @ + 1]
        PROVE  told' \in Told /\ told'.created = told.created /\ OtherThan(told') = OtherThan(told) + 1
    <3>1. w \in {"created", "lost", "wrong", "nothing"} /\ w # "created" /\ told \in Told
      BY <1>1
    <3>2. QED
      BY <2>1, <3>1, OneMoreTold
  <2>2. told' = [told EXCEPT !.created = @ + 1] =>
          told' \in Told /\ told'.created = told.created + 1 /\ OtherThan(told') = OtherThan(told)
    BY <1>1, OneMoreTold
  <2>3. UNCHANGED <<names, forms, checked, series>> /\ call' = NoCall
    BY <1>9 DEF Tells, Loses, PollsStop, board
  <2>4. \/ call.step = "created" /\ told' = [told EXCEPT !.created = @ + 1]
        \/ call.step # "none" /\ \E w \in {"lost", "wrong", "nothing"} : told' = [told EXCEPT ![w] = @ + 1]
        \/ call.step = "none" /\ told' = told
    <3>1. CASE Tells
      BY <3>1 DEF Tells
    <3>2. CASE Loses
      BY <3>2 DEF Loses
    <3>3. CASE PollsStop
      BY <3>3 DEF PollsStop
    <3>4. QED
      BY <1>9, <3>1, <3>2, <3>3
  <2>5. /\ told' \in Told
        /\ \/ call.step = "created" /\ told'.created = told.created + 1 /\ OtherThan(told') = OtherThan(told)
           \/ call.step # "none" /\ told'.created = told.created /\ OtherThan(told') = OtherThan(told) + 1
           \/ call.step = "none" /\ told' = told
    BY <1>1, <2>1, <2>2, <2>4
  <2>6. QED
    BY <1>1, <1>2, <2>3, <2>5
<1>10. QED
  BY <1>6, <1>7, <1>8, <1>9

-----------------------------------------------------------------------------
(* The whole.                                                               *)

PollsHold == PollTypes /\ PollsInv /\ CreationInv

\* What neither touches a poll nor creates a repeat.
LEMMA Aside ==
  ASSUME PollsHold, UNCHANGED <<tally, pollJob, series, creation, unsaved>>, offered' \in Offers,
         faults' \in {faults, faults + 1}, checked \subseteq checked', names' \subseteq checked'
  PROVE  PollsHold'
<1>1. UNCHANGED <<row, pass, opening>>
  BY DEF pollJob
<1>2. PollTypes' /\ PollsInv'
  BY <1>1, JobMoves DEF PollsHold
<1>3. CreationInv'
  BY CreationStands DEF PollsHold
<1>4. QED
  BY <1>2, <1>3 DEF PollsHold

\* Wherever the bot stops.
LEMMA StopHolds ==
  ASSUME PollsHold, PollsStop
  PROVE  PollsHold'
<1>1. PollTypes /\ PollsInv /\ CreationInv
  BY DEF PollsHold
<1>2. PollTypes' /\ PollsInv'
  BY <1>1, PassGoesOn
<1>3. CreationInv'
  BY <1>1, CreationMoves
<1>4. QED
  BY <1>2, <1>3 DEF PollsHold

\* What happens to announcements leaves the polls alone.
LEMMA ElsewhereStands ==
  ASSUME Website \/ Manages \/ Handler \/ \E h \in Hands : Board(h)
  PROVE  UNCHANGED pollVars
<1>1. CASE Website
  BY <1>1, Zenon DEF Website, Publishes, PublishesSeries, SeriesChanged, SeriesDeleted, Deleted, PollsStand
<1>2. CASE Manages
  BY <1>2 DEF Manages
<1>3. CASE Handler
  BY <1>3, Zenon DEF Handler, Takes, PostNew, RecordPost, RecordAnnouncement, FindAnnouncement,
              Edit, RecordEdit, Notice, RecordNotice
<1>4. CASE \E h \in Hands : Board(h)
  BY <1>4, Zenon DEF Board, Presses, Refused, Changes, PostsAgain, RecordsAgain
<1>5. QED
  BY <1>1, <1>2, <1>3, <1>4

\* Every step of the polls and the repeats.
LEMMA PollStepsHold ==
  ASSUME PollsHold, PollsMove
  PROVE  PollsHold'
<1>1. PollTypes /\ PollsInv /\ CreationInv /\ names \subseteq checked /\ offered \in Offers /\ faults \in Nat
  BY DEF PollsHold, CreationInv, PollTypes
<1>2. ASSUME PollTypes' /\ PollsInv', UNCHANGED <<series, names, creation, checked>>
      PROVE  PollsHold'
  BY <1>1, <1>2, CreationStands DEF PollsHold
<1>3. CASE AnswersAnew
  <2>1. UNCHANGED <<tally, pollJob, series, names, creation, unsaved, faults, checked>> /\ offered' \in Offers
    BY <1>3 DEF AnswersAnew, board
  <2>2. QED
    BY <1>1, <2>1, Aside
<1>4. CASE Closes
  <2>1. UNCHANGED <<series, names, creation, checked>>
    BY <1>4 DEF Closes, board
  <2>2. QED
    BY <1>1, <1>2, <1>4, <2>1, ChannelCloses
<1>5. CASE Recommends
  <2>1. UNCHANGED <<offered, tally, pollJob, series, names, creation, unsaved, faults, checked>>
    BY <1>5 DEF Recommends, spent
  <2>2. QED
    BY <1>1, <2>1, Aside
<1>6. CASE SavePoll
  <2>1. UNCHANGED <<series, names, creation, checked>>
    BY <1>6 DEF SavePoll, board
  <2>2. QED
    BY <1>1, <1>2, <1>6, <2>1, PollIsSaved
<1>7. CASE \/ \E p \in Proposals : Submits(p)
           \/ Creates \/ Refuses \/ Busy \/ Retries \/ Tells \/ Loses
  <2>1. CreationInv'
    BY <1>1, <1>7, CreationMoves
  <2>2. /\ UNCHANGED <<offered, tally, row, pass, opening, unsaved>>
        /\ faults' \in {faults, faults + 1}
    BY <1>7 DEF Submits, Creates, Refuses, Busy, Retries, Tells, Loses, pollJob, spent
  <2>3. PollTypes' /\ PollsInv'
    BY <1>1, <2>2, JobMoves
  <2>4. QED
    BY <2>1, <2>3 DEF PollsHold
<1>8. CASE StartPass \/ PollFault
  <2>1. UNCHANGED <<series, names, creation, checked>>
    BY <1>8 DEF StartPass, PollFault, board
  <2>2. QED
    BY <1>1, <1>2, <1>8, <2>1, PassGoesOn
<1>9. CASE ReadPoll \/ PostResult \/ RecordClosed
  <2>1. UNCHANGED <<series, names, creation, checked>>
    BY <1>9 DEF ReadPoll, PostResult, RecordClosed, board
  <2>2. QED
    BY <1>1, <1>2, <1>9, <2>1, PollIsRead, ResultIsPosted, PollIsClosed
<1>10. ASSUME NEW m \in Polls, Votes(m) \/ Ends(m) \/ Finalizes(m) \/ Deletes(m)
       PROVE  PollsHold'
  <2>1. UNCHANGED <<series, names, creation, checked>>
    BY <1>10 DEF Votes, Ends, Finalizes, Deletes, board
  <2>2. QED
    BY <1>1, <1>2, <1>10, <2>1, OthersAnswer
<1>11. ASSUME NEW m \in Polls, PostPoll(m)
       PROVE  PollsHold'
  <2>1. UNCHANGED <<series, names, creation, checked>>
    BY <1>11 DEF PostPoll, board
  <2>2. QED
    BY <1>1, <1>2, <1>11, <2>1, PollIsPosted
<1>12. ASSUME NEW p \in Proposals, Accepts(p)
       PROVE  PollsHold'
  <2>1. UNCHANGED <<offered, tally, pollJob, series, creation, unsaved, faults>> /\ checked \subseteq checked'
    BY <1>12 DEF Accepts, spent
  <2>2. names' \subseteq checked'
    <3>1. CASE Still(p)
      <4>1. names' = names \cup {p}
        BY <1>12, <3>1 DEF Accepts
      <4>2. QED
        BY <1>1, <1>12, <2>1, <3>1, <4>1, StillIsChecked
    <3>2. CASE ~Still(p)
      BY <1>1, <1>12, <2>1, <3>2 DEF Accepts
    <3>3. QED
      BY <3>1, <3>2
  <2>3. QED
    BY <1>1, <2>1, <2>2, Aside
<1>13. QED
  BY <1>3, <1>4, <1>5, <1>6, <1>7, <1>8, <1>9, <1>10, <1>11, <1>12 DEF PollsMove

\* Every step.
LEMMA StepsHold ==
  ASSUME PollsHold, [Next]_vars
  PROVE  PollsHold'
<1>1. PollTypes /\ PollsInv /\ CreationInv /\ names \subseteq checked /\ offered \in Offers /\ faults \in Nat
  BY DEF PollsHold, CreationInv, PollTypes
<1>2. ASSUME UNCHANGED pollVars PROVE PollsHold'
  <2>1. UNCHANGED <<offered, tally, pollJob, series, names, creation, unsaved, faults, checked>>
    BY <1>2 DEF pollVars, board, spent
  <2>2. QED
    BY <1>1, <2>1, Aside
<1>3. CASE UNCHANGED vars
  BY <1>2, <1>3 DEF vars
<1>4. CASE PollStep
  BY <1>4, PollStepsHold DEF PollStep
<1>5. CASE CreatesRepeat
  <2>1. Creates
    BY <1>5 DEF CreatesRepeat
  <2>2. CreationInv'
    BY <1>1, <2>1, CreationMoves
  <2>3. UNCHANGED <<offered, tally, row, pass, opening, unsaved, faults>>
    BY <2>1 DEF Creates, pollJob, spent
  <2>4. PollTypes' /\ PollsInv'
    BY <1>1, <2>3, JobMoves
  <2>5. QED
    BY <2>2, <2>4 DEF PollsHold
<1>6. CASE Website \/ Manages \/ Handler \/ \E h \in Hands : Board(h)
  BY <1>2, <1>6, ElsewhereStands
<1>7. CASE AnnouncementFault
  <2>1. /\ UNCHANGED <<offered, tally, pollJob, series, names, creation, unsaved, checked>>
        /\ faults' = faults + 1
    BY <1>7 DEF AnnouncementFault, Strikes, board
  <2>2. QED
    BY <1>1, <2>1, Aside
<1>8. CASE Stops
  BY <1>8, StopHolds DEF Stops
<1>9. QED
  BY <1>3, <1>4, <1>5, <1>6, <1>7, <1>8 DEF Next, Moves

\* What holds of the parts is what the runs check.
LEMMA HoldsTells == PollsHold => PollsTell
<1> SUFFICES ASSUME PollsHold PROVE PollsTell
  OBVIOUS
<1>1. PollTypes /\ PollsInv /\ CreationInv
  BY DEF PollsHold
<1>2. ASSUME NEW m \in Polls
      PROVE  /\ \A i \in DOMAIN results[m] : TellsTheCount(m, results[m][i])
             /\ Len(results[m]) <= 1 + faults
             /\ row[m] = "closed" => results[m] # <<>> \/ poll[m].state = "gone" \/ ~reachable
             /\ poll[m].state # "none" /\ row[m] = "none" => opening = m \/ m \in unsaved
  <2>1. ResultsCount(m) /\ ResultsPaid(m) /\ ClosedRightly(m) /\ WrittenDown(m)
        /\ Len(results[m]) \in Nat /\ faults \in Nat
    BY <1>1 DEF PollsInv, PollTypes
  <2>2. ASSUME NEW i \in DOMAIN results[m]
        PROVE  TellsTheCount(m, results[m][i])
    BY <2>1 DEF ResultsCount, TellsTheCount, CountTold, MayStandFor
  <2>3. Len(results[m]) <= 1 + faults
    BY <2>1 DEF ResultsPaid
  <2>4. QED
    BY <2>1, <2>2, <2>3 DEF ClosedRightly, WrittenDown, Closing
<1>3. Range(series) \subseteq checked
  BY <1>1 DEF CreationInv, Range
<1>4. QED
  BY <1>1, <1>2, <1>3 DEF PollsTell, ResultsTell, FailuresCost, RepeatsAreChecked, PollsInv, CreationInv

\* Whatever VIA answers, whoever votes when, whichever messages and channels go and
\* wherever the job, the command or a request fails, each result is that of the
\* final count and posted once beyond the failures, no poll is written off unheard,
\* and every repeat comes of an evening that was still recommended and of a form of
\* its own (jobs/schedulerPolls.ts:123-154, commands/scheduler.ts:330-335).
THEOREM PollsAreTold == Spec => []PollsTell
<1>1. Init => PollsHold
  BY PollsStart, CreationStarts DEF PollsHold
<1>2. PollsHold /\ [Next]_vars => PollsHold'
  BY StepsHold
<1>3. PollsHold => PollsTell
  BY HoldsTells
<1>4. QED
  BY <1>1, <1>2, <1>3, PTL DEF Spec

-----------------------------------------------------------------------------
(* The buttons of the polls.                                                *)

\* What PollsTypeOK asks of the buttons: they carry evenings that VIA has offered,
\* and so do the repeats named, asked for and created.
ButtonsInv ==
  /\ accepts \subseteq Proposals /\ checked \subseteq Proposals /\ asking \in BOOLEAN
  /\ \A m \in Polls : \A i \in DOMAIN poll[m].offer : ProposalOf(poll[m].offer[i]) \in Proposals

\* What VIA answers may be carried by a button.
LEMMA CandidatesAreOffered ==
  ASSUME PollTypes, NEW i \in DOMAIN Candidates
  PROVE  ProposalOf(Candidates[i]) \in Proposals
<1>1. offered \in Offers
  BY DEF PollTypes
<1>2. Candidates[i] \in Range(offered.picks) \cup Range(offered.options)
  BY DEF Candidates, Range
<1>3. Candidates[i] \in UNION {Range(o.picks) \cup Range(o.options) : o \in Offers}
  BY <1>1, <1>2
<1>4. QED
  BY <1>3 DEF Proposals

\* And so may the first of it.
LEMMA FirstAreOffered ==
  ASSUME PollTypes, Candidates # <<>>, NEW n \in Nat \ {0}, NEW i \in DOMAIN FirstOf(Candidates, n)
  PROVE  ProposalOf(FirstOf(Candidates, n)[i]) \in Proposals
<1> DEFINE k == IF n < Len(Candidates) THEN n ELSE Len(Candidates)
<1>1. Candidates \in Seq(Evening)
  BY CandidatesAreEvenings
<1>2. k \in Nat /\ 1 <= k /\ k <= Len(Candidates) /\ FirstOf(Candidates, n) = SubSeq(Candidates, 1, k)
  BY <1>1 DEF FirstOf
<1> HIDE DEF k
<1>3. i \in 1..k /\ i \in DOMAIN Candidates /\ FirstOf(Candidates, n)[i] = Candidates[i]
  BY <1>1, <1>2
<1>4. QED
  BY <1>3, CandidatesAreOffered

\* A result carries an evening of its poll.
LEMMA ResultsAreOffered ==
  ASSUME PollsHold, ButtonsInv, NEW m \in Polls, NEW i \in DOMAIN results[m]
  PROVE  results[m][i].button \in Proposals
<1>1. CountTold(poll[m].offer, poll[m].votes, results[m][i])
  BY DEF PollsHold, PollsInv, ResultsCount
<1>2. PICK j \in DOMAIN poll[m].votes : results[m][i].button = ProposalOf(poll[m].offer[j])
  BY <1>1 DEF CountTold
<1>3. poll[m].votes \in Seq(0..MostVotes) /\ poll[m].offer \in Seq(Evening) /\ Len(poll[m].votes) = Len(poll[m].offer)
  BY DEF PollsHold, PollTypes, Ballot
<1>4. j \in DOMAIN poll[m].offer
  BY <1>2, <1>3
<1>5. QED
  BY <1>2, <1>4 DEF ButtonsInv

\* Every step shows such buttons only.
LEMMA ButtonsHold ==
  ASSUME PollsHold, PollsHold', ButtonsInv, [Next]_vars
  PROVE  ButtonsInv'
<1>1. PollTypes /\ names \subseteq checked
  BY DEF PollsHold, CreationInv
<1>2. ASSUME UNCHANGED <<poll, accepts, checked, asking>>
      PROVE  ButtonsInv'
  BY <1>2 DEF ButtonsInv
<1>3. ASSUME NEW m \in Polls, NEW b \in Ballot, poll' = [poll EXCEPT ![m] = b],
             b.offer = poll[m].offer, UNCHANGED <<accepts, checked, asking>>
      PROVE  ButtonsInv'
  <2>1. poll'[m] = b /\ \A n \in Polls : n # m => poll'[n] = poll[n]
    BY <1>1, <1>3 DEF PollTypes
  <2>2. QED
    BY <1>3, <2>1 DEF ButtonsInv
<1>4. CASE Recommends
  <2>1. /\ UNCHANGED <<poll, checked>> /\ asking' = TRUE /\ Candidates # <<>>
        /\ accepts' = accepts \cup {ProposalOf(c) : c \in Range(FirstOf(Candidates, Shown))}
    BY <1>4 DEF Recommends, tally
  <2>2. \A i \in DOMAIN FirstOf(Candidates, Shown) : ProposalOf(FirstOf(Candidates, Shown)[i]) \in Proposals
    BY <1>1, <2>1, FirstAreOffered, MeetingPollsAssumption DEF MeetingPollsAssumption
  <2>3. {ProposalOf(c) : c \in Range(FirstOf(Candidates, Shown))} \subseteq Proposals
    BY <2>2 DEF Range
  <2>4. QED
    BY <2>1, <2>3 DEF ButtonsInv
<1>5. ASSUME NEW m \in Polls, PostPoll(m)
      PROVE  ButtonsInv'
  <2> DEFINE offer == FirstOf(Candidates, Polled)
             b == [state |-> "open", offer |-> offer, votes |-> [i \in DOMAIN offer |-> 0], past |-> FALSE]
  <2>1. UNCHANGED <<accepts, checked, asking>> /\ poll' = [poll EXCEPT ![m] = b] /\ Candidates # <<>>
    BY <1>5 DEF PostPoll, board
  <2>2. \A i \in DOMAIN offer : ProposalOf(offer[i]) \in Proposals
    BY <1>1, <2>1, FirstAreOffered, MeetingPollsAssumption DEF MeetingPollsAssumption
  <2> HIDE DEF offer
  <2>3. poll'[m].offer = offer /\ \A n \in Polls : n # m => poll'[n] = poll[n]
    BY <1>1, <2>1 DEF PollTypes
  <2>4. QED
    BY <2>1, <2>2, <2>3 DEF ButtonsInv
<1>6. ASSUME NEW p \in Proposals, Accepts(p)
      PROVE  ButtonsInv'
  <2>1. UNCHANGED <<poll, asking>> /\ checked' = checked \cup {ProposalOf(c) : c \in Range(Candidates)}
    BY <1>6 DEF Accepts, tally
  <2>2. checked' \subseteq Proposals
    BY <1>1, <2>1, CandidatesAreOffered DEF ButtonsInv, Range
  <2>3. accepts' \subseteq Proposals
    <3>1. CASE Still(p)
      BY <1>6, <3>1 DEF Accepts, ButtonsInv
    <3>2. CASE ~Still(p)
      <4> DEFINE best == IF Matching(p) # {}
                           THEN CHOOSE i \in Matching(p) : \A j \in Matching(p) : i <= j
                           ELSE 1
      <4>1. accepts' = accepts \cup {ProposalOf(Candidates[best])} /\ Candidates # <<>>
        BY <1>6, <3>2 DEF Accepts
      <4>2. Candidates \in Seq(Evening) /\ Matching(p) \subseteq DOMAIN Candidates
        BY <1>1, CandidatesAreEvenings DEF Matching
      <4>3. best \in DOMAIN Candidates
        <5>1. CASE Matching(p) # {}
          <6>1. Matching(p) \subseteq Nat
            BY <4>2
          <6>2. \E i \in Matching(p) : \A j \in Matching(p) : i <= j
            BY <5>1, <6>1, Least
          <6>3. QED
            BY <4>2, <5>1, <6>2
        <5>2. CASE Matching(p) = {}
          BY <4>1, <4>2, <5>2
        <5>3. QED
          BY <5>1, <5>2
      <4> HIDE DEF best
      <4>4. QED
        BY <1>1, <4>1, <4>3, CandidatesAreOffered DEF ButtonsInv
    <3>3. QED
      BY <3>1, <3>2
  <2>4. QED
    BY <2>1, <2>2, <2>3 DEF ButtonsInv
<1>7. CASE PostResult
  <2>1. UNCHANGED <<poll, checked, asking>>
    BY <1>7 DEF PostResult
  <2>2. CASE ~reachable
    <3>1. UNCHANGED accepts
      BY <1>7, <2>2 DEF PostResult
    <3>2. QED
      BY <1>2, <2>1, <3>1
  <2>3. CASE reachable
    <3> DEFINE result == ResultOf(poll[AtPoll].offer, pass.counts)
    <3>1. /\ results' = [results EXCEPT ![AtPoll] = Append(@, result)] /\ accepts' = accepts \cup {result.button}
          /\ pass.step = "post"
      BY <1>7, <2>3 DEF PostResult
    <3>2. AtPoll \in Polls /\ results[AtPoll] \in Seq(Verdict)
      BY <1>1, <3>1, AtPollIsDue DEF PollTypes
    <3> DEFINE n == Len(results[AtPoll]) + 1
    <3> HIDE DEF result
    <3>3. results'[AtPoll] = Append(results[AtPoll], result)
      BY <1>1, <3>1, <3>2 DEF PollTypes
    <3>4. n \in DOMAIN results'[AtPoll] /\ results'[AtPoll][n] = result
      BY <3>2, <3>3
    <3>5. CountTold(poll[AtPoll].offer, poll[AtPoll].votes, result)
      BY <2>1, <3>2, <3>4 DEF PollsHold, PollsInv, ResultsCount
    <3>6. PICK j \in DOMAIN poll[AtPoll].votes : result.button = ProposalOf(poll[AtPoll].offer[j])
      BY <3>5 DEF CountTold
    <3>7. /\ poll[AtPoll].votes \in Seq(0..MostVotes) /\ poll[AtPoll].offer \in Seq(Evening)
          /\ Len(poll[AtPoll].votes) = Len(poll[AtPoll].offer)
      BY <1>1, <3>2 DEF PollTypes, Ballot
    <3>8. j \in DOMAIN poll[AtPoll].offer
      BY <3>6, <3>7
    <3>9. result.button \in Proposals
      BY <3>2, <3>6, <3>8 DEF ButtonsInv
    <3>10. QED
      BY <2>1, <3>1, <3>9 DEF ButtonsInv
  <2>4. QED
    BY <2>2, <2>3
<1>8. ASSUME NEW m \in Polls, Votes(m) \/ Ends(m) \/ Finalizes(m) \/ Deletes(m)
      PROVE  ButtonsInv'
  <2>1. UNCHANGED <<accepts, checked, asking>>
    BY <1>8 DEF Votes, Ends, Finalizes, Deletes, board
  <2>2. \A n \in Polls : poll'[n].offer = poll[n].offer
    <3>1. poll \in [Polls -> Ballot]
      BY <1>1 DEF PollTypes
    <3>2. CASE Votes(m)
      BY <3>1, <3>2 DEF Votes, Ballot
    <3>3. CASE Ends(m)
      BY <3>1, <3>3 DEF Ends, Ballot
    <3>4. CASE Finalizes(m)
      BY <3>1, <3>4 DEF Finalizes, Ballot
    <3>5. CASE Deletes(m)
      BY <3>1, <3>5 DEF Deletes, Ballot
    <3>6. QED
      BY <1>8, <3>2, <3>3, <3>4, <3>5
  <2>3. QED
    BY <2>1, <2>2 DEF ButtonsInv
<1>9. CASE \/ AnswersAnew \/ Closes \/ SavePoll \/ Creates \/ Refuses \/ Busy \/ Retries \/ Tells \/ Loses
           \/ StartPass \/ ReadPoll \/ RecordClosed \/ PollFault
           \/ \E p \in Proposals : Submits(p)
  <2>1. UNCHANGED <<poll, accepts, checked, asking>>
    BY <1>9 DEF AnswersAnew, Closes, SavePoll, Creates, Refuses, Busy, Retries, Tells, Loses,
                StartPass, ReadPoll, RecordClosed, PollFault, Submits, board, tally
  <2>2. QED
    BY <1>2, <2>1
<1>10. CASE PollsMove
  BY <1>4, <1>5, <1>6, <1>7, <1>8, <1>9, <1>10 DEF PollsMove
<1>11. CASE \/ UNCHANGED vars \/ Website \/ Manages \/ Handler \/ (\E h \in Hands : Board(h))
            \/ AnnouncementFault \/ Stops
  <2>1. UNCHANGED pollVars \/ AnnouncementFault \/ PollsStop
    BY <1>11, ElsewhereStands DEF vars, Stops
  <2>2. UNCHANGED <<poll, accepts, checked, asking>>
    BY <2>1 DEF pollVars, board, tally, AnnouncementFault, PollsStop
  <2>3. QED
    BY <1>2, <2>2
<1>12. CASE CreatesRepeat
  BY <1>9, <1>12 DEF CreatesRepeat
<1>13. CASE PollStep
  BY <1>10, <1>13 DEF PollStep
<1>14. QED
  BY <1>11, <1>12, <1>13 DEF Next, Moves

\* The types of the polls rest on what is said of them above.
LEMMA PollsAreTyped == PollsHold /\ ButtonsInv => PollsTypeOK
<1> SUFFICES ASSUME PollsHold, ButtonsInv PROVE PollsTypeOK
  OBVIOUS
<1>1. PollTypes /\ CreationInv
  BY DEF PollsHold
<1>2. Range(series) \subseteq Proposals /\ names \subseteq Proposals
  BY <1>1 DEF CreationInv, ButtonsInv, Range
<1>3. ASSUME NEW m \in Polls
      PROVE  /\ poll[m].state \in {"none", "open", "ended", "final", "gone"}
             /\ DOMAIN poll[m].votes = DOMAIN poll[m].offer
             /\ \A i \in DOMAIN results[m] : results[m][i].button \in Proposals
  <2>1. poll[m] \in Ballot /\ Len(poll[m].votes) = Len(poll[m].offer)
    BY <1>1 DEF PollTypes
  <2>2. QED
    BY <2>1, ResultsAreOffered DEF Ballot
<1>4. pass.step \in {"idle", "read", "post", "record"} /\ pass.due \subseteq Polls
  BY <1>1 DEF PollTypes, Pass
<1>5. call.step \in {"none", "first", "waiting", "second", "created"} /\ (call.step # "none" => call.of \in Proposals)
  BY <1>1 DEF CreationInv, Calls, ButtonsInv
<1>6. QED
  BY <1>1, <1>2, <1>3, <1>4, <1>5 DEF PollsTypeOK, PollTypes, ButtonsInv

-----------------------------------------------------------------------------
(* What the announcements are made of, and what is said of the entries.     *)

EventTypes == {"event.created", "event.updated", "event.cancelled", "event.deleted"}
SeriesTypes == {"series.created", "series.updated", "series.deleted"}
WorkSteps == {"idle", "post", "recordPost", "recordRow", "find", "edit", "recordEdit", "notice", "recordNotice"}

Meeting == [state : {"none", "on", "gone"}, version : Nat, private : BOOLEAN, cancelled : BOOLEAN]
Card == [what : {"nothing", "event", "series", "internal", "removed"}, of : Events, event : Meeting, pattern : Nat]
Entry == [kind : EventTypes \cup SeriesTypes, of : Events, moved : BOOLEAN,
          event : Meeting, pattern : Nat, ids : SUBSET Events]
Message == [shows : Card, entry : Nat, gone : BOOLEAN]
Delivery == [entry : Nat, purpose : {"post", "edit", "notice"}, message : Nat]
Work == [step : WorkSteps, shows : Card, found : Events, message : Nat]
Press == [step : {"idle", "act", "record"}, act : Acts \cup {"none"}, of : Events, read : Meeting, message : Nat]

AnnouncementTypes ==
  /\ event \in [Events -> Meeting] /\ pattern \in Nat /\ outbox \in Seq(Entry)
  /\ features \subseteq {"new", "changes"} /\ follows \in BOOLEAN /\ bound \in BOOLEAN /\ shut \in BOOLEAN
  /\ messages \in Seq(Message) /\ notices \in Seq(Nat)
  /\ mirror \in [Events -> Nat] /\ delivered \subseteq Delivery
  /\ cursor \in Nat /\ work \in Work /\ hand \in [Hands -> Press]
  /\ crossed \subseteq DOMAIN messages /\ unheard \subseteq Events
  /\ faults \in Nat

NewEntry(x) == x.kind \in {"event.created", "series.created"}
SeriesEntry(x) == x.kind \in SeriesTypes
AboutOf(x) == IF SeriesEntry(x) THEN x.ids ELSE {x.of}

\* An entry after the nth changes the meeting.
Overtaken(e, n) == \E k \in DOMAIN outbox : k > n /\ ~NewEntry(outbox[k]) /\ e \in AboutOf(outbox[k])

EntryFits(x) ==
  /\ x.kind = "event.created" => x.of = 1
  /\ x.kind \in {"event.updated", "event.cancelled"} => x.event.state = "on"
  /\ x.kind = "event.cancelled" => x.event.cancelled
  /\ x.kind = "event.deleted" => x.event.state = "gone"
  /\ x.kind = "series.created" => x.ids = Events

\* What an entry says of a meeting is so on VIA.
Matches(x, e) ==
  /\ ~SeriesEntry(x) => event[e] = x.event
  /\ x.kind \in {"series.created", "series.updated"} => event[e].state = "on" /\ pattern = x.pattern
  /\ x.kind = "series.deleted" => event[e].state = "gone"

\* Before anything is published.
Unborn ==
  /\ outbox = <<>>
  /\ \A e \in Events : event[e].state = "none" /\ mirror[e] = 0
  /\ \A h \in Hands : hand[h].step = "idle"

\* The outbox tells how VIA came to be as it is: what the last entry about a
\* meeting says of it is so.
LogInv ==
  /\ event[1].state = "none" => Unborn
  /\ pattern > 0 => \A e \in Events : event[e].state # "none"
  /\ \A n \in DOMAIN outbox : EntryFits(outbox[n])
  /\ \A n \in DOMAIN outbox : \A e \in AboutOf(outbox[n]) : Overtaken(e, n) \/ Matches(outbox[n], e)

Posting == work.step \in {"post", "recordPost", "recordRow"}
Posted  == work.step \in {"recordPost", "recordRow"}
Seeking == work.step \in {"find", "edit"}

\* The handler is at the entry after the cursor, and has delivered of it only what
\* such an entry comes to.
WorkInv ==
  /\ cursor <= Len(outbox)
  /\ work.step # "idle" => cursor < Len(outbox) /\ (Posting <=> NewEntry(Now))
  /\ work.step \in {"notice", "recordNotice"} => HasNotice(Now)
  /\ \A d \in delivered : d.entry \in 1..cursor + 1 /\ d.entry <= Len(outbox)
  /\ \A d \in delivered : d.entry = cursor + 1 =>
       IF NewEntry(Now) THEN d.purpose = "post" ELSE HasNotice(Now) /\ d.purpose # "post"

\* A message that is posted and the announcement of nothing yet.
Loose(m) == m \in DOMAIN messages /\ \A e \in Events : mirror[e] # m

\* No message is the announcement of two meetings, and what is held to be recorded
\* is nobody's announcement yet and shows what it was drawn of.
HeldInv ==
  /\ \A e \in Events : mirror[e] # 0 => mirror[e] \in DOMAIN messages
  /\ \A e, f \in Events : mirror[e] = mirror[f] /\ mirror[e] # 0 => e = f
  /\ \A h \in Hands : hand[h].step = "record" =>
       /\ Loose(hand[h].message)
       /\ messages[hand[h].message].entry = 0
       /\ messages[hand[h].message].shows = CardOf(hand[h].of, hand[h].read)
       /\ ~hand[h].read.private
  /\ \A g, h \in Hands : hand[g].step = "record" /\ hand[h].step = "record" /\ hand[g].message = hand[h].message => g = h
  /\ Posted => /\ Loose(work.message)
               /\ messages[work.message].entry = cursor + 1
               /\ messages[work.message].shows = work.shows
  /\ \A d \in Settled("post") : Loose(d.message) /\ messages[d.message].entry = cursor + 1
  /\ work.step = "edit" => /\ work.message \in DOMAIN messages
                           /\ work.found \in AboutOf(Now)
                           /\ \A e \in Events : mirror[e] = work.message => e = work.found
                           /\ \A h \in Hands : hand[h].step = "record" => hand[h].message # work.message

\* What is shown of a meeting is so, but that a series may have been drawn from
\* another of its meetings.
Right(e, shows) ==
  CASE shows.what = "removed"  -> event[e].state = "gone"
    [] shows.what = "internal" -> event[e].state = "on" /\ event[e].private
    [] shows.what = "event"    -> shows.of = e /\ shows.event = event[e] /\ (event[e].private => event[e].cancelled)
    [] shows.what = "series"   -> event[e].state = "on" /\ (shows.of = e => shows.event = event[e] /\ shows.pattern = pattern)
    [] OTHER                   -> FALSE
Borrowed(shows, entry) == faults > 0 \/ (entry = 0 /\ shows.pattern = pattern)
So(e) ==
  /\ Right(e, ShownOf(e))
  /\ ShownOf(e).what = "series" /\ ShownOf(e).of # e => Borrowed(ShownOf(e), messages[mirror[e]].entry)

\* The entry at hand is about to be brought to the announcement of the meeting.
Awaited(e) ==
  /\ cursor < Len(outbox) /\ ~NewEntry(Now) /\ e \in AboutOf(Now) /\ Settled("edit") = {}
  /\ work.step \in {"idle", "find", "edit"} /\ (work.step = "edit" => mirror[e] = work.message)

\* An announcement that is kept is right, or an entry will put it right.
ShownInv == \A e \in Kept : So(e) \/ Overtaken(e, cursor + 1) \/ Awaited(e)

\* What the handler is about to show is right, or an entry will put that right.
SeeksRightly ==
  /\ \A e \in AboutOf(Now) : \/ Overtaken(e, cursor + 1)
                             \/ /\ Right(e, work.shows)
                                /\ work.shows.what = "series" => work.shows.of <= e /\ work.shows.pattern = pattern
  /\ work.shows.what = "series" =>
       \A e \in Events : e > work.shows.of /\ mirror[e] # 0 => messages[mirror[e]].entry = 0
AsItWas(e, shows) ==
  /\ shows.what = IF SeriesEntry(Now) THEN "series" ELSE "event"
  /\ e \in AboutOf(Now) /\ shows.of = e
  /\ Overtaken(e, cursor + 1) \/ Right(e, shows)
PostsRightly ==
  /\ AsItWas(work.shows.of, work.shows)
  /\ \A f \in Events : f < work.shows.of => event[f].state # "on"
SettledRightly == \A d \in Settled("post") :
  LET shows == messages[d.message].shows
  IN  /\ AsItWas(shows.of, shows)
      /\ faults > 0 \/ work.step = "recordRow"

\* A series is announced for the first of its meetings, unless by hand.
FirstInv == \A e \in Events : mirror[e] # 0 /\ messages[mirror[e]].entry # 0 =>
  \A f \in Events : f < e => event[f].state # "on"
SaysInv == ShownInv /\ (Seeking => SeeksRightly) /\ (Posting => PostsRightly) /\ SettledRightly /\ FirstInv

\* The messages, and the notices, posted for an entry.
PostedFor(n) == {m \in DOMAIN messages : messages[m].entry = n}
NoticesFor(n) == {i \in DOMAIN notices : notices[i] = n}

AnnouncementsHold ==
  AnnouncementTypes /\ LogInv /\ WorkInv /\ HeldInv /\ SaysInv
-----------------------------------------------------------------------------
(* How the entries come to be.                                              *)

LEMMA EventsAreNumbers == Events \subseteq Nat /\ 0 \notin Events /\ 1 \in Events
  BY AnnouncementsAssumption DEF AnnouncementsAssumption

LEMMA NothingIsTyped ==
  /\ NoMeeting \in Meeting /\ NoMeeting.state = "none"
  /\ Nowhere \in Card /\ Nowhere.what = "nothing" /\ ~Nowhere.event.private
  /\ NoWork \in Work /\ NoWork.step = "idle"
  /\ NoHand \in Press /\ NoHand.step = "idle"
<1>1. NoMeeting \in Meeting /\ NoMeeting.state = "none"
  BY DEF NoMeeting, Meeting
<1>2. Nowhere \in Card /\ Nowhere.what = "nothing" /\ ~Nowhere.event.private
  BY <1>1, EventsAreNumbers DEF Nowhere, Card, NoMeeting
<1>3. NoWork \in Work /\ NoWork.step = "idle"
  BY <1>2, EventsAreNumbers DEF NoWork, Work, WorkSteps
<1>4. NoHand \in Press /\ NoHand.step = "idle"
  BY <1>1, EventsAreNumbers DEF NoHand, Press
<1>5. QED
  BY <1>1, <1>2, <1>3, <1>4

\* An entry is written with a change of what it is about, and of nothing else.
Grows(x) ==
  /\ x \in Entry /\ EntryFits(x) /\ outbox' = Append(outbox, x)
  /\ event' \in [Events -> Meeting] /\ pattern' \in Nat
  /\ event'[1].state # "none"
  /\ pattern' > 0 => \A e \in Events : event'[e].state # "none"
  /\ \A e \in AboutOf(x) : Matches(x, e)'
  /\ \/ NewEntry(x) /\ event[1].state = "none"
     \/ /\ ~NewEntry(x)
        /\ \A e \in Events : event'[e].state = "on" => event[e].state = "on"
        /\ \A e \in Events \ AboutOf(x) : event'[e] = event[e] /\ (event[e].state = "on" => pattern' = pattern)
  /\ UNCHANGED <<server, channel, records, handler, pasts, faults>>
  /\ UNCHANGED hand \/ \E h \in Hands : hand' = [hand EXCEPT ![h] = NoHand]

\* Everything VIA does is told so.
LEMMA WebsiteGrows ==
  ASSUME AnnouncementTypes, LogInv, Website
  PROVE  \E x \in Entry : Grows(x)
<1>1. 1 \in Events /\ event \in [Events -> Meeting] /\ pattern \in Nat
  BY EventsAreNumbers DEF AnnouncementTypes
<1>2. UNCHANGED <<server, channel, records, handler, pasts, faults, hand>>
  BY DEF Website, Publishes, PublishesSeries, SeriesOn, Deleted, SeriesChanged, SeriesDeleted,
         Elsewhere, PollsStand, pollVars, spent, bot
<1>3. \A private \in BOOLEAN : New(private) \in Meeting /\ New(private).state = "on"
  BY NothingIsTyped DEF New, Meeting
<1>4. \A e \in Events : event[e].state = "on" => event[1].state # "none"
  BY <1>1 DEF LogInv, Unborn
<1>5. CASE Publishes
  <2>1. PICK private \in BOOLEAN : Writes("event.created", 1, FALSE, [event EXCEPT ![1] = New(private)], 0)
    BY <1>5 DEF Publishes
  <2> DEFINE events == [event EXCEPT ![1] = New(private)]
  <2>2. events \in [Events -> Meeting] /\ events[1].state = "on"
    BY <1>1, <1>3
  <2> HIDE DEF events
  <2> DEFINE noted == [kind |-> "event.created", of |-> 1, moved |-> FALSE, event |-> events[1], pattern |-> 0,
                       ids |-> {f \in Events : event[f].state = "on" \/ events[f].state = "on"}]
  <2>3. PICK x \in Entry :
        /\ outbox' = Append(outbox, x) /\ event' = events /\ pattern' = 0
        /\ x.kind = "event.created" /\ x.of = 1 /\ x.event = events[1]
    <3>1. noted \in Entry
      BY <1>1, <2>2 DEF Entry, EventTypes, SeriesTypes
    <3>2. outbox' = Append(outbox, noted) /\ event' = events /\ pattern' = 0
      BY <2>1 DEF Writes, events
    <3>3. QED
      BY <3>1, <3>2
  <2>4. event[1].state = "none"
    BY <1>5 DEF Publishes
  <2>5. EntryFits(x) /\ NewEntry(x) /\ AboutOf(x) = {1} /\ ~SeriesEntry(x)
    BY <2>3 DEF EntryFits, NewEntry, AboutOf, SeriesEntry, SeriesTypes
  <2>6. Matches(x, 1)'
    BY <2>3, <2>5 DEF Matches, SeriesEntry, SeriesTypes
  <2>7. QED
    BY <1>2, <2>2, <2>3, <2>4, <2>5, <2>6 DEF Grows
<1>6. CASE PublishesSeries
  <2>1. PICK private \in BOOLEAN : Writes("series.created", 1, FALSE, [e \in Events |-> New(private)], 1)
    BY <1>6 DEF PublishesSeries, SeriesOn
  <2> DEFINE events == [e \in Events |-> New(private)]
  <2>2. events \in [Events -> Meeting] /\ \A e \in Events : events[e].state = "on"
    BY <1>3
  <2> HIDE DEF events
  <2> DEFINE noted == [kind |-> "series.created", of |-> 1, moved |-> FALSE, event |-> events[1], pattern |-> 1,
                       ids |-> {f \in Events : event[f].state = "on" \/ events[f].state = "on"}]
  <2>3. PICK x \in Entry :
        /\ outbox' = Append(outbox, x) /\ event' = events /\ pattern' = 1
        /\ x.kind = "series.created" /\ x.pattern = 1
        /\ x.ids = {e \in Events : event[e].state = "on" \/ events[e].state = "on"}
    <3>1. noted \in Entry
      BY <1>1, <2>2 DEF Entry, EventTypes, SeriesTypes
    <3>2. outbox' = Append(outbox, noted) /\ event' = events /\ pattern' = 1
      BY <2>1 DEF Writes, events
    <3>3. QED
      BY <3>1, <3>2
  <2>4. event[1].state = "none"
    BY <1>6 DEF PublishesSeries
  <2>5. EntryFits(x) /\ NewEntry(x) /\ AboutOf(x) = Events
    BY <2>2, <2>3 DEF EntryFits, NewEntry, AboutOf, SeriesEntry, SeriesTypes
  <2>6. \A e \in Events : Matches(x, e)'
    BY <2>2, <2>3 DEF Matches, SeriesEntry, SeriesTypes
  <2>7. QED
    BY <1>1, <1>2, <2>2, <2>3, <2>4, <2>5, <2>6 DEF Grows
<1>7. ASSUME NEW e \in Events, Deleted(e)
      PROVE  \E x \in Entry : Grows(x)
  <2> DEFINE events == [event EXCEPT ![e].state = "gone"]
  <2>1. Writes("event.deleted", e, FALSE, events, pattern) /\ event[e].state = "on"
    BY <1>7 DEF Deleted
  <2>2. events \in [Events -> Meeting] /\ events[e].state = "gone" /\ \A f \in Events : f # e => events[f] = event[f]
    BY <1>1 DEF Meeting
  <2> HIDE DEF events
  <2> DEFINE noted == [kind |-> "event.deleted", of |-> e, moved |-> FALSE, event |-> events[e], pattern |-> pattern,
                       ids |-> {f \in Events : event[f].state = "on" \/ events[f].state = "on"}]
  <2>3. PICK x \in Entry :
        /\ outbox' = Append(outbox, x) /\ event' = events /\ pattern' = pattern
        /\ x.kind = "event.deleted" /\ x.of = e /\ x.event = events[e]
    <3>1. noted \in Entry
      BY <1>1, <2>2 DEF Entry, EventTypes, SeriesTypes
    <3>2. outbox' = Append(outbox, noted) /\ event' = events /\ pattern' = pattern
      BY <2>1 DEF Writes, events
    <3>3. QED
      BY <3>1, <3>2
  <2>4. event[1].state # "none" /\ event'[1].state # "none"
    BY <1>1, <1>4, <2>1, <2>2, <2>3
  <2>5. EntryFits(x) /\ ~NewEntry(x) /\ AboutOf(x) = {e} /\ ~SeriesEntry(x)
    BY <2>2, <2>3 DEF EntryFits, NewEntry, AboutOf, SeriesEntry, SeriesTypes
  <2>6. Matches(x, e)'
    BY <2>3, <2>5 DEF Matches, SeriesEntry, SeriesTypes
  <2>7. pattern' > 0 => \A f \in Events : event'[f].state # "none"
    BY <2>2, <2>3 DEF LogInv
  <2>8. /\ \A f \in Events : event'[f].state = "on" => event[f].state = "on"
        /\ \A f \in Events \ {e} : event'[f] = event[f]
    BY <2>2, <2>3
  <2>9. QED
    BY <1>1, <1>2, <2>2, <2>3, <2>4, <2>5, <2>6, <2>7, <2>8 DEF Grows
<1>8. CASE SeriesChanged
  <2> DEFINE events == [e \in Events |-> IF event[e].state = "on" THEN [event[e] EXCEPT !.version = @ + 1] ELSE event[e]]
  <2>1. /\ Writes("series.updated", 1, FALSE, events, pattern + 1) /\ pattern > 0
        /\ \E e \in Events : event[e].state = "on"
    BY <1>8 DEF SeriesChanged
  <2>2. /\ events \in [Events -> Meeting]
        /\ \A e \in Events : events[e].state = event[e].state
        /\ \A e \in Events : event[e].state # "on" => events[e] = event[e]
    BY <1>1 DEF Meeting
  <2> HIDE DEF events
  <2> DEFINE noted == [kind |-> "series.updated", of |-> 1, moved |-> FALSE, event |-> events[1], pattern |-> pattern + 1,
                       ids |-> {f \in Events : event[f].state = "on" \/ events[f].state = "on"}]
  <2>3. PICK x \in Entry :
        /\ outbox' = Append(outbox, x) /\ event' = events /\ pattern' = pattern + 1
        /\ x.kind = "series.updated" /\ x.pattern = pattern + 1
        /\ x.ids = {e \in Events : event[e].state = "on" \/ events[e].state = "on"}
    <3>1. noted \in Entry
      BY <1>1, <2>2 DEF Entry, EventTypes, SeriesTypes
    <3>2. outbox' = Append(outbox, noted) /\ event' = events /\ pattern' = pattern + 1
      BY <2>1 DEF Writes, events
    <3>3. QED
      BY <3>1, <3>2
  <2>4. event[1].state # "none" /\ event'[1].state # "none"
    BY <1>1, <1>4, <2>1, <2>2, <2>3
  <2>5. EntryFits(x) /\ ~NewEntry(x) /\ AboutOf(x) = {e \in Events : event[e].state = "on"}
    BY <2>2, <2>3 DEF EntryFits, NewEntry, AboutOf, SeriesEntry, SeriesTypes
  <2>6. \A e \in AboutOf(x) : Matches(x, e)'
    BY <2>2, <2>3, <2>5 DEF Matches, SeriesEntry, SeriesTypes
  <2>7. \A f \in Events : event'[f].state # "none"
    BY <2>1, <2>2, <2>3 DEF LogInv
  <2>8. /\ \A f \in Events : event'[f].state = "on" => event[f].state = "on"
        /\ \A f \in Events \ AboutOf(x) : event'[f] = event[f] /\ event[f].state # "on"
    BY <2>2, <2>3, <2>5
  <2>9. QED
    BY <1>1, <1>2, <2>2, <2>3, <2>4, <2>5, <2>6, <2>7, <2>8 DEF Grows
<1>9. CASE SeriesDeleted
  <2> DEFINE events == [e \in Events |-> [event[e] EXCEPT !.state = "gone"]]
  <2>1. /\ Writes("series.deleted", 1, FALSE, events, pattern) /\ pattern > 0
        /\ \E e \in Events : event[e].state = "on"
    BY <1>9 DEF SeriesDeleted
  <2>2. /\ events \in [Events -> Meeting]
        /\ \A e \in Events : events[e].state = "gone"
        /\ \A e \in Events : event[e].state = "gone" => events[e] = event[e]
    BY <1>1 DEF Meeting
  <2> HIDE DEF events
  <2> DEFINE noted == [kind |-> "series.deleted", of |-> 1, moved |-> FALSE, event |-> events[1], pattern |-> pattern,
                       ids |-> {f \in Events : event[f].state = "on" \/ events[f].state = "on"}]
  <2>3. PICK x \in Entry :
        /\ outbox' = Append(outbox, x) /\ event' = events /\ pattern' = pattern
        /\ x.kind = "series.deleted"
        /\ x.ids = {e \in Events : event[e].state = "on" \/ events[e].state = "on"}
    <3>1. noted \in Entry
      BY <1>1, <2>2 DEF Entry, EventTypes, SeriesTypes
    <3>2. outbox' = Append(outbox, noted) /\ event' = events /\ pattern' = pattern
      BY <2>1 DEF Writes, events
    <3>3. QED
      BY <3>1, <3>2
  <2>5. EntryFits(x) /\ ~NewEntry(x) /\ AboutOf(x) = {e \in Events : event[e].state = "on"}
    BY <2>2, <2>3 DEF EntryFits, NewEntry, AboutOf, SeriesEntry, SeriesTypes
  <2>6. \A e \in AboutOf(x) : Matches(x, e)'
    BY <2>2, <2>3, <2>5 DEF Matches, SeriesEntry, SeriesTypes
  <2>7. \A f \in Events : event[f].state \in {"on", "gone"}
    BY <1>1, <2>1 DEF LogInv, Meeting
  <2>8. /\ \A f \in Events : event'[f].state = "gone"
        /\ \A f \in Events \ AboutOf(x) : event'[f] = event[f]
    BY <2>2, <2>3, <2>5, <2>7
  <2>9. QED
    BY <1>1, <1>2, <2>2, <2>3, <2>5, <2>6, <2>8 DEF Grows
<1>10. QED
  BY <1>5, <1>6, <1>7, <1>8, <1>9 DEF Website

\* A repeat that is created is told so, if it is followed here.
LEMMA RepeatGrows ==
  ASSUME AnnouncementTypes, LogInv, CreatesRepeat
  PROVE  \/ \E x \in Entry : Grows(x)
         \/ UNCHANGED <<site, server, channel, records, bot, pasts, faults>>
<1>1. 1 \in Events /\ UNCHANGED <<server, channel, records, bot, pasts, faults>>
  BY EventsAreNumbers DEF CreatesRepeat, Creates, Elsewhere, spent
<1>2. CASE event[1].state = "none" /\ MayChange
  <2>1. Writes("series.created", 1, FALSE, [e \in Events |-> New(FALSE)], 1)
    BY <1>2 DEF CreatesRepeat, SeriesOn
  <2> DEFINE events == [e \in Events |-> New(FALSE)]
  <2>2. events \in [Events -> Meeting] /\ \A e \in Events : events[e].state = "on"
    BY NothingIsTyped DEF New, Meeting
  <2> HIDE DEF events
  <2> DEFINE noted == [kind |-> "series.created", of |-> 1, moved |-> FALSE, event |-> events[1], pattern |-> 1,
                       ids |-> {f \in Events : event[f].state = "on" \/ events[f].state = "on"}]
  <2>3. PICK x \in Entry :
        /\ outbox' = Append(outbox, x) /\ event' = events /\ pattern' = 1
        /\ x.kind = "series.created" /\ x.pattern = 1
        /\ x.ids = {e \in Events : event[e].state = "on" \/ events[e].state = "on"}
    <3>1. noted \in Entry
      BY <1>1, <2>2 DEF Entry, EventTypes, SeriesTypes
    <3>2. outbox' = Append(outbox, noted) /\ event' = events /\ pattern' = 1
      BY <2>1 DEF Writes, events
    <3>3. QED
      BY <3>1, <3>2
  <2>5. EntryFits(x) /\ NewEntry(x) /\ AboutOf(x) = Events
    BY <2>2, <2>3 DEF EntryFits, NewEntry, AboutOf, SeriesEntry, SeriesTypes
  <2>6. \A e \in Events : Matches(x, e)'
    BY <2>2, <2>3 DEF Matches, SeriesEntry, SeriesTypes
  <2>7. QED
    BY <1>1, <1>2, <2>2, <2>3, <2>5, <2>6, EventsAreNumbers DEF Grows, bot
<1>3. CASE ~(event[1].state = "none" /\ MayChange)
  BY <1>1, <1>3 DEF CreatesRepeat
<1>4. QED
  BY <1>2, <1>3

LEMMA MeetingChanges ==
  ASSUME NEW m \in Meeting, NEW c \in BOOLEAN, NEW p \in BOOLEAN
  PROVE  [m EXCEPT !.version = @ + 1, !.cancelled = c, !.private = p] \in Meeting
<1>1. m.version + 1 \in Nat
  BY DEF Meeting
<1>2. QED
  BY <1>1, Zenon DEF Meeting

\* A press that changes an event is told so.
LEMMA ChangesGrow ==
  ASSUME AnnouncementTypes, LogInv, NEW h \in Hands, Changes(h)
  PROVE  \E x \in Entry : Grows(x)
<1> PICK e \in Events : e = hand[h].of
  BY DEF AnnouncementTypes, Press
<1> DEFINE act == hand[h].act
           ends == event[e].cancelled \/ act = "cancel"
           hides == IF act = "visibility" THEN ~hand[h].read.private ELSE event[e].private
           changed == [event[e] EXCEPT !.version = @ + 1, !.cancelled = ends, !.private = hides]
           events == [event EXCEPT ![e] = changed]
           kind == IF act = "cancel" THEN "event.cancelled" ELSE "event.updated"
           moved == act = "move"
           noted == [kind |-> kind, of |-> e, moved |-> moved, event |-> events[e], pattern |-> pattern,
                     ids |-> {f \in Events : event[f].state = "on" \/ events[f].state = "on"}]
<1>1. /\ hand[h] \in Press /\ e = hand[h].of /\ 1 \in Events
      /\ event \in [Events -> Meeting] /\ pattern \in Nat /\ event[e] \in Meeting /\ hand[h].read \in Meeting
  BY EventsAreNumbers DEF AnnouncementTypes, Press
<1>2. /\ event[e].state = "on" /\ outbox' = Append(outbox, noted) /\ event' = events /\ pattern' = pattern
      /\ hand' = [hand EXCEPT ![h] = NoHand]
      /\ UNCHANGED <<server, channel, records, handler, pasts, faults>>
  BY DEF Changes, Writes, pollVars, spent
<1>3. ends \in BOOLEAN /\ hides \in BOOLEAN /\ moved \in BOOLEAN /\ (act = "cancel" => ends)
  BY <1>1 DEF Meeting
<1> HIDE DEF ends, hides, moved
<1>4. changed \in Meeting /\ changed.state = "on" /\ (act = "cancel" => changed.cancelled)
  <2>1. changed.cancelled = ends /\ changed.state = "on"
    BY <1>1, <1>2 DEF Meeting
  <2>2. changed \in Meeting
    BY <1>1, <1>3, MeetingChanges
  <2>3. QED
    BY <1>3, <2>1, <2>2
<1> HIDE DEF changed
<1>5. events \in [Events -> Meeting] /\ events[e] = changed /\ \A f \in Events : f # e => events[f] = event[f]
  BY <1>1, <1>4
<1>6. kind \in {"event.cancelled", "event.updated"} /\ (kind = "event.cancelled" => act = "cancel")
  OBVIOUS
<1> HIDE DEF events, kind
<1>7. PICK x \in Entry : outbox' = Append(outbox, x) /\ x.kind = kind /\ x.of = e /\ x.event = events[e]
  <2>1. noted \in Entry
    BY <1>1, <1>3, <1>5, <1>6 DEF Entry, EventTypes
  <2>2. QED
    BY <1>2, <2>1
<1>8. event[1].state # "none"
  BY <1>1, <1>2 DEF LogInv, Unborn
<1>9. EntryFits(x) /\ ~NewEntry(x) /\ AboutOf(x) = {e} /\ ~SeriesEntry(x)
  BY <1>4, <1>5, <1>6, <1>7 DEF EntryFits, NewEntry, AboutOf, SeriesEntry, SeriesTypes
<1>10. Matches(x, e)'
  BY <1>2, <1>6, <1>7, <1>9 DEF Matches, SeriesEntry, SeriesTypes
<1>11. /\ \A f \in Events : event'[f].state = event[f].state
       /\ \A f \in Events \ {e} : event'[f] = event[f]
  BY <1>2, <1>4, <1>5
<1>12. pattern' > 0 => \A f \in Events : event'[f].state # "none"
  BY <1>2, <1>11 DEF LogInv
<1>13. QED
  BY <1>1, <1>2, <1>5, <1>7, <1>8, <1>9, <1>10, <1>11, <1>12 DEF Grows

-----------------------------------------------------------------------------
(* An entry is written.                                                     *)

\* What else there is stands, and the entries before it do.
LEMMA EntriesStand ==
  ASSUME AnnouncementTypes, NEW x \in Entry, Grows(x)
  PROVE  /\ Len(outbox') = Len(outbox) + 1 /\ Len(outbox) \in Nat
         /\ DOMAIN outbox = 1..Len(outbox) /\ DOMAIN outbox' = 1..(Len(outbox) + 1)
         /\ \A n \in DOMAIN outbox : outbox'[n] = outbox[n] /\ outbox[n] \in Entry
         /\ outbox'[Len(outbox) + 1] = x
         /\ cursor \in Nat /\ (cursor < Len(outbox) => Now' = Now /\ Now \in Entry)
         /\ UNCHANGED <<follows, features, bound, shut, messages, notices, mirror, delivered,
                        cursor, work, crossed, unheard, faults>>
         /\ hand' \in [Hands -> Press]
         /\ \A h \in Hands : hand'[h] = hand[h] \/ hand'[h].step = "idle"
<1>1. outbox \in Seq(Entry) /\ outbox' = Append(outbox, x) /\ cursor \in Nat /\ hand \in [Hands -> Press]
  BY DEF AnnouncementTypes, Grows
<1>2. UNCHANGED <<follows, features, bound, shut, messages, notices, mirror, delivered,
                  cursor, work, crossed, unheard, faults>>
  BY DEF Grows, server, channel, records, handler, pasts
<1>3. /\ Len(outbox') = Len(outbox) + 1 /\ Len(outbox) \in Nat
      /\ DOMAIN outbox = 1..Len(outbox) /\ DOMAIN outbox' = 1..(Len(outbox) + 1)
      /\ \A n \in DOMAIN outbox : outbox'[n] = outbox[n] /\ outbox[n] \in Entry
      /\ outbox'[Len(outbox) + 1] = x
  BY <1>1
<1>4. cursor < Len(outbox) => Now' = Now /\ Now \in Entry
  BY <1>1, <1>2, <1>3 DEF Now
<1>5. hand' \in [Hands -> Press] /\ \A h \in Hands : hand'[h] = hand[h] \/ hand'[h].step = "idle"
  <2>1. CASE UNCHANGED hand
    BY <1>1, <2>1
  <2>2. CASE \E h \in Hands : hand' = [hand EXCEPT ![h] = NoHand]
    BY <1>1, <2>2, NothingIsTyped
  <2>3. QED
    BY <2>1, <2>2 DEF Grows
<1>6. QED
  BY <1>1, <1>2, <1>3, <1>4, <1>5

LEMMA TypesGrow ==
  ASSUME AnnouncementTypes, NEW x \in Entry, Grows(x)
  PROVE  AnnouncementTypes'
<1>1. outbox' \in Seq(Entry) /\ event' \in [Events -> Meeting] /\ pattern' \in Nat
  BY DEF AnnouncementTypes, Grows
<1>2. QED
  BY <1>1, EntriesStand DEF AnnouncementTypes

\* What was overtaken stays so, and what the entry is about is.
LEMMA OvertakenStays ==
  ASSUME AnnouncementTypes, NEW x \in Entry, Grows(x), NEW e, NEW n \in Nat
  PROVE  /\ Overtaken(e, n) => Overtaken(e, n)'
         /\ ~NewEntry(x) /\ e \in AboutOf(x) /\ n <= Len(outbox) => Overtaken(e, n)'
<1>1. /\ Len(outbox) \in Nat /\ DOMAIN outbox = 1..Len(outbox) /\ DOMAIN outbox' = 1..(Len(outbox) + 1)
      /\ \A k \in DOMAIN outbox : outbox'[k] = outbox[k]
      /\ outbox'[Len(outbox) + 1] = x
  BY EntriesStand
<1>2. ASSUME Overtaken(e, n) PROVE Overtaken(e, n)'
  <2>1. PICK k \in DOMAIN outbox : k > n /\ ~NewEntry(outbox[k]) /\ e \in AboutOf(outbox[k])
    BY <1>2 DEF Overtaken
  <2>2. k \in DOMAIN outbox' /\ outbox'[k] = outbox[k]
    BY <1>1
  <2>3. QED
    BY <2>1, <2>2 DEF Overtaken, NewEntry, AboutOf, SeriesEntry
<1>3. ASSUME ~NewEntry(x), e \in AboutOf(x), n <= Len(outbox) PROVE Overtaken(e, n)'
  <2>1. Len(outbox) + 1 \in DOMAIN outbox' /\ Len(outbox) + 1 > n
    BY <1>1, <1>3
  <2>2. QED
    BY <1>1, <1>3, <2>1 DEF Overtaken, NewEntry, AboutOf, SeriesEntry
<1>4. QED
  BY <1>2, <1>3

LEMMA AboutMeetings == ASSUME NEW x \in Entry PROVE AboutOf(x) \subseteq Events
  BY DEF AboutOf, Entry

LEMMA LogGrows ==
  ASSUME AnnouncementTypes, LogInv, NEW x \in Entry, Grows(x)
  PROVE  LogInv'
<1>1. /\ Len(outbox) \in Nat /\ DOMAIN outbox = 1..Len(outbox) /\ DOMAIN outbox' = 1..(Len(outbox) + 1)
      /\ \A n \in DOMAIN outbox : outbox'[n] = outbox[n] /\ outbox[n] \in Entry
      /\ outbox'[Len(outbox) + 1] = x
  BY EntriesStand
<1>2. EntryFits(x) /\ \A n \in DOMAIN outbox' : EntryFits(outbox'[n])
  BY <1>1 DEF LogInv, Grows
<1>3. ASSUME NEW n \in DOMAIN outbox', NEW e \in AboutOf(outbox'[n])
      PROVE  Overtaken(e, n)' \/ Matches(outbox[n], e)'
  <2>1. CASE n = Len(outbox) + 1
    <3>1. Matches(x, e)'
      BY <1>1, <1>3, <2>1 DEF Grows
    <3>2. QED
      BY <1>1, <2>1, <3>1 DEF Matches, SeriesEntry
  <2>2. CASE n \in DOMAIN outbox
    <3>1. event[1].state # "none"
      BY <1>1, <2>2 DEF LogInv, Unborn
    <3>2. ~NewEntry(x)
      BY <3>1 DEF Grows
    <3>3. outbox'[n] = outbox[n] /\ e \in AboutOf(outbox[n]) /\ e \in Events /\ n \in Nat /\ n <= Len(outbox)
      BY <1>1, <1>3, <2>2, AboutMeetings
    <3>4. CASE e \in AboutOf(x)
      BY <3>2, <3>3, <3>4, OvertakenStays
    <3>5. CASE e \notin AboutOf(x)
      <4>1. event'[e] = event[e] /\ (event[e].state = "on" => pattern' = pattern)
        BY <3>2, <3>3, <3>5 DEF Grows
      <4>2. Overtaken(e, n) \/ Matches(outbox[n], e)
        BY <2>2, <3>3 DEF LogInv
      <4>3. ASSUME Matches(outbox[n], e) PROVE Matches(outbox[n], e)'
        BY <3>3, <4>1, <4>3 DEF Matches, SeriesEntry, SeriesTypes
      <4>4. QED
        BY <3>3, <4>2, <4>3, OvertakenStays
    <3>6. QED
      BY <3>4, <3>5
  <2>3. QED
    BY <1>1, <2>1, <2>2
<1>4. event'[1].state # "none" /\ (pattern' > 0 => \A e \in Events : event'[e].state # "none")
  BY DEF Grows
<1>5. QED
  BY <1>2, <1>3, <1>4 DEF LogInv

LEMMA WorkGrows ==
  ASSUME AnnouncementTypes, WorkInv, NEW x \in Entry, Grows(x)
  PROVE  WorkInv'
<1>1. /\ Len(outbox') = Len(outbox) + 1 /\ Len(outbox) \in Nat /\ cursor \in Nat
      /\ (cursor < Len(outbox) => Now' = Now)
      /\ UNCHANGED <<cursor, work, delivered>>
  BY EntriesStand
<1>2. cursor' <= Len(outbox')
  BY <1>1 DEF WorkInv
<1>3. work'.step # "idle" => cursor' < Len(outbox') /\ (Posting' <=> NewEntry(Now)')
  BY <1>1 DEF WorkInv, Posting, NewEntry
<1>4. work'.step \in {"notice", "recordNotice"} => HasNotice(Now)'
  BY <1>1 DEF WorkInv, HasNotice
<1>5. \A d \in delivered' : d.entry \in 1..cursor' + 1 /\ d.entry <= Len(outbox')
  BY <1>1 DEF WorkInv
<1>6. ASSUME NEW d \in delivered', d.entry = cursor' + 1
      PROVE  IF NewEntry(Now)' THEN d.purpose = "post" ELSE HasNotice(Now)' /\ d.purpose # "post"
  <2>1. d.entry <= Len(outbox) /\ cursor < Len(outbox)
    BY <1>1, <1>6 DEF WorkInv
  <2>2. IF NewEntry(Now) THEN d.purpose = "post" ELSE HasNotice(Now) /\ d.purpose # "post"
    BY <1>1, <1>6 DEF WorkInv
  <2>3. QED
    BY <1>1, <2>1, <2>2 DEF NewEntry, HasNotice
<1>7. QED
  BY <1>2, <1>3, <1>4, <1>5, <1>6 DEF WorkInv

LEMMA HeldGrows ==
  ASSUME AnnouncementTypes, WorkInv, HeldInv, NEW x \in Entry, Grows(x)
  PROVE  HeldInv'
<1>1. /\ UNCHANGED <<messages, mirror, delivered, cursor, work>> /\ cursor \in Nat
      /\ \A h \in Hands : hand'[h] = hand[h] \/ hand'[h].step = "idle"
      /\ (cursor < Len(outbox) => Now' = Now)
  BY EntriesStand
<1>2. \A m : Loose(m)' = Loose(m)
  BY <1>1 DEF Loose
<1>3. Settled("post")' = Settled("post") /\ Posted' = Posted
  BY <1>1 DEF Settled, Posted
<1>4. \A h \in Hands : hand'[h].step = "record" =>
        /\ Loose(hand[h].message)'
        /\ messages'[hand'[h].message].entry = 0
        /\ (messages[hand[h].message].shows = CardOf(hand[h].of, hand[h].read))'
        /\ ~hand'[h].read.private
  BY <1>1, <1>2 DEF HeldInv, CardOf
<1>5. \A g, h \in Hands : hand'[g].step = "record" /\ hand'[h].step = "record" /\ hand'[g].message = hand'[h].message => g = h
  BY <1>1 DEF HeldInv
<1>6. work'.step = "edit" =>
        /\ work'.message \in DOMAIN messages'
        /\ work'.found \in AboutOf(Now)'
        /\ \A e \in Events : mirror'[e] = work'.message => e = work'.found
        /\ \A h \in Hands : hand'[h].step = "record" => hand'[h].message # work'.message
  <2>1. work.step = "edit" => Now' = Now
    BY <1>1 DEF WorkInv
  <2>2. work.step = "edit" =>
          /\ work.message \in DOMAIN messages
          /\ work.found \in AboutOf(Now)
          /\ \A e \in Events : mirror[e] = work.message => e = work.found
          /\ \A h \in Hands : hand[h].step = "record" => hand[h].message # work.message
    BY DEF HeldInv
  <2>3. QED
    BY <1>1, <2>1, <2>2 DEF AboutOf, SeriesEntry
<1>7. QED
  BY <1>1, <1>2, <1>3, <1>4, <1>5, <1>6, ZenonT(30) DEF HeldInv, CardOf

\* What is right of a meeting that the entry is not about stays right.
LEMMA RightStays ==
  ASSUME NEW x \in Entry, Grows(x), ~NewEntry(x), NEW e \in Events, e \notin AboutOf(x), NEW shows, Right(e, shows)
  PROVE  Right(e, shows)'
<1>1. event'[e] = event[e] /\ (event[e].state = "on" => pattern' = pattern)
  BY DEF Grows
<1>2. QED
  BY <1>1 DEF Right

LEMMA SaysGrows ==
  ASSUME AnnouncementTypes, LogInv, WorkInv, SaysInv, NEW x \in Entry, Grows(x)
  PROVE  SaysInv'
<1>1. /\ UNCHANGED <<messages, mirror, delivered, cursor, work, shut, unheard, crossed, faults>>
      /\ cursor \in Nat /\ Len(outbox) \in Nat /\ Len(outbox') = Len(outbox) + 1
      /\ (cursor < Len(outbox) => Now' = Now /\ Now \in Entry)
  BY EntriesStand
<1>2. /\ Kept' = Kept /\ (\A e : ShownOf(e)' = ShownOf(e)) /\ \A p : Settled(p)' = Settled(p)
      /\ Seeking' = Seeking /\ Posting' = Posting /\ cursor <= Len(outbox)
  BY <1>1 DEF Kept, ShownOf, Settled, Seeking, Posting, WorkInv
<1>3. CASE NewEntry(x)
  <2>1. outbox = <<>> /\ \A e \in Events : mirror[e] = 0
    BY <1>3 DEF Grows, LogInv, Unborn
  <2>2. cursor = 0 /\ work.step = "idle"
    BY <1>1, <1>2, <2>1 DEF WorkInv
  <2>3. delivered = {}
    BY <1>1, <2>1 DEF WorkInv
  <2>4. Kept = {} /\ Settled("post") = {} /\ ~Seeking /\ ~Posting
    BY <2>1, <2>2, <2>3 DEF Kept, Settled, Seeking, Posting
  <2>5. QED
    BY <1>1, <1>2, <2>1, <2>4 DEF SaysInv, ShownInv, SettledRightly, FirstInv
<1>4. CASE ~NewEntry(x)
  <2>1. \A e \in Events : e \in AboutOf(x) \/ (event'[e] = event[e] /\ (event[e].state = "on" => pattern' = pattern))
    BY <1>4 DEF Grows
  <2>2. ASSUME NEW e \in Events, cursor < Len(outbox)
        PROVE  /\ e \in AboutOf(x) => Overtaken(e, cursor + 1)'
               /\ Overtaken(e, cursor + 1) => Overtaken(e, cursor + 1)'
    BY <1>1, <1>4, <2>2, OvertakenStays
  <2>3. ASSUME NEW e \in Kept
        PROVE  So(e)' \/ Overtaken(e, cursor + 1)' \/ Awaited(e)'
    <3>1. e \in Events
      BY DEF Kept
    <3>2. CASE e \in AboutOf(x) /\ cursor < Len(outbox)
      BY <1>1, <2>2, <3>1, <3>2
    <3>3. CASE e \in AboutOf(x) /\ ~(cursor < Len(outbox))
      <4>1. cursor = Len(outbox) /\ work.step = "idle"
        BY <1>1, <1>2, <3>3 DEF WorkInv
      <4>2. Now' = x
        BY <1>1, <4>1, EntriesStand DEF Now
      <4>3. Settled("edit") = {}
        BY <1>1, <4>1 DEF Settled, WorkInv
      <4>4. QED
        BY <1>1, <1>2, <1>4, <3>3, <4>1, <4>2, <4>3 DEF Awaited, NewEntry, AboutOf, SeriesEntry
    <3>4. CASE e \notin AboutOf(x)
      <4>1. CASE So(e)
        <5>1. event'[e] = event[e] /\ (event[e].state = "on" => pattern' = pattern)
          BY <2>1, <3>1, <3>4
        <5>2. Right(e, ShownOf(e))'
          BY <1>2, <4>1, <5>1 DEF So, Right
        <5>3. ShownOf(e).what = "series" => event[e].state = "on"
          BY <4>1 DEF So, Right
        <5>4. QED
          BY <1>1, <1>2, <4>1, <5>1, <5>2, <5>3 DEF So, Borrowed
      <4>2. CASE Overtaken(e, cursor + 1)
        <5>1. Overtaken(e, cursor + 1)'
          BY <1>1, <4>2, OvertakenStays
        <5>2. QED
          BY <1>1, <5>1
      <4>3. CASE Awaited(e)
        BY <1>1, <1>2, <4>3 DEF Awaited, NewEntry, AboutOf, SeriesEntry
      <4>4. QED
        BY <4>1, <4>2, <4>3 DEF SaysInv, ShownInv
    <3>5. QED
      BY <3>2, <3>3, <3>4
  <2>4. ASSUME NEW e \in Events, NEW shows, cursor < Len(outbox), Overtaken(e, cursor + 1) \/ Right(e, shows)
        PROVE  Overtaken(e, cursor + 1)' \/ Right(e, shows)'
    BY <1>4, <2>2, <2>4, RightStays
  <2>5. ASSUME Seeking
        PROVE  SeeksRightly'
    <3>1. cursor < Len(outbox) /\ Now' = Now /\ AboutOf(Now)' = AboutOf(Now) /\ AboutOf(Now) \subseteq Events
      <4>1. cursor < Len(outbox)
        BY <2>5 DEF WorkInv, Seeking
      <4>2. QED
        BY <1>1, <4>1, AboutMeetings DEF AboutOf, SeriesEntry
    <3>2. SeeksRightly
      BY <2>5 DEF SaysInv
    <3>3. PICK shows : shows = work.shows
      OBVIOUS
    <3>4. ASSUME NEW e \in AboutOf(Now)
          PROVE  \/ Overtaken(e, cursor + 1)'
                 \/ /\ Right(e, shows)'
                    /\ shows.what = "series" => shows.of <= e /\ shows.pattern = pattern'
      <4>1. e \in Events
        BY <3>1
      <4>2. CASE Overtaken(e, cursor + 1) \/ e \in AboutOf(x)
        BY <2>2, <3>1, <4>1, <4>2
      <4>3. CASE e \notin AboutOf(x) /\ ~Overtaken(e, cursor + 1)
        <5>1. Right(e, shows) /\ (shows.what = "series" => shows.of <= e /\ shows.pattern = pattern)
          BY <3>2, <3>3, <4>3 DEF SeeksRightly
        <5>2. Right(e, shows)'
          BY <1>4, <4>1, <4>3, <5>1, RightStays
        <5>3. shows.what = "series" => pattern' = pattern
          BY <2>1, <4>1, <4>3, <5>1 DEF Right
        <5>4. QED
          BY <5>1, <5>2, <5>3
      <4>4. QED
        BY <4>2, <4>3
    <3>5. work'.shows = shows
      BY <1>1, <3>3
    <3>6. QED
      BY <1>1, <3>1, <3>2, <3>3, <3>4, <3>5 DEF SeeksRightly, Right
  <2>6. ASSUME NEW e, NEW shows, cursor < Len(outbox), AsItWas(e, shows)
        PROVE  AsItWas(e, shows)'
    <3>1. e \in Events /\ Now' = Now
      BY <1>1, <2>6, AboutMeetings DEF AsItWas
    <3>2. Overtaken(e, cursor + 1)' \/ Right(e, shows)'
      BY <2>4, <2>6, <3>1 DEF AsItWas
    <3>3. QED
      BY <1>1, <2>6, <3>1, <3>2 DEF AsItWas, AboutOf, SeriesEntry
  <2>7. \A f \in Events : event[f].state # "on" => event'[f].state # "on"
    BY <1>4 DEF Grows
  <2>8. ASSUME Posting
        PROVE  PostsRightly'
    <3>1. cursor < Len(outbox)
      BY <2>8 DEF WorkInv, Posting
    <3>2. PICK shows : shows = work.shows
      OBVIOUS
    <3>3. AsItWas(shows.of, shows) /\ \A f \in Events : f < shows.of => event[f].state # "on"
      BY <2>8, <3>2 DEF SaysInv, PostsRightly
    <3>4. AsItWas(shows.of, shows)'
      BY <2>6, <3>1, <3>3
    <3>5. work'.shows = shows
      BY <1>1, <3>2
    <3>6. QED
      BY <2>7, <3>3, <3>4, <3>5 DEF PostsRightly, AsItWas, Right
  <2>9. ASSUME NEW d \in Settled("post")
        PROVE  /\ AsItWas(messages[d.message].shows.of, messages[d.message].shows)'
               /\ faults' > 0 \/ work'.step = "recordRow"
    <3>1. cursor < Len(outbox)
      BY <1>1 DEF WorkInv, Settled
    <3>2. PICK shows : shows = messages[d.message].shows
      OBVIOUS
    <3>3. AsItWas(shows.of, shows) /\ (faults > 0 \/ work.step = "recordRow")
      BY <3>2 DEF SaysInv, SettledRightly
    <3>4. AsItWas(shows.of, shows)'
      BY <2>6, <3>1, <3>3
    <3>5. messages'[d.message].shows = shows
      BY <1>1, <3>2
    <3>6. QED
      BY <1>1, <3>3, <3>4, <3>5 DEF AsItWas, Right
  <2>10. ShownInv'
    BY <1>2, <2>3 DEF ShownInv
  <2>11. SettledRightly'
    BY <1>2, <2>9 DEF SettledRightly
  <2>12. FirstInv'
    BY <1>1, <2>7 DEF SaysInv, FirstInv
  <2>13. QED
    BY <1>2, <2>5, <2>8, <2>10, <2>11, <2>12 DEF SaysInv
<1>5. QED
  BY <1>3, <1>4

LEMMA HoldGrows ==
  ASSUME AnnouncementsHold, NEW x \in Entry, Grows(x)
  PROVE  AnnouncementsHold'
  BY TypesGrow, LogGrows, WorkGrows, HeldGrows, SaysGrows DEF AnnouncementsHold

-----------------------------------------------------------------------------
(* What the other steps share.  VIA stands still in all of them.            *)

LEMMA SiteStands ==
  ASSUME UNCHANGED site
  PROVE  /\ \A e, n : Overtaken(e, n)' <=> Overtaken(e, n)
         /\ \A e, shows : Right(e, shows)' <=> Right(e, shows)
         /\ UNCHANGED <<event, pattern, outbox>>
BY DEF site, Overtaken, Right, NewEntry, AboutOf, SeriesEntry

LEMMA LogStands ==
  ASSUME LogInv, UNCHANGED site,
         event[1].state = "none" => UNCHANGED mirror /\ \A h \in Hands : hand'[h].step = "idle"
  PROVE  LogInv'
BY SiteStands DEF LogInv, Unborn, EntryFits, Matches, AboutOf, SeriesEntry

\* Where there is an entry to handle, something was published.
LEMMA SomethingIsOn ==
  ASSUME AnnouncementTypes, LogInv, cursor < Len(outbox)
  PROVE  event[1].state # "none" /\ Now \in Entry /\ cursor + 1 \in DOMAIN outbox /\ AboutOf(Now) \subseteq Events
<1>1. cursor \in Nat /\ outbox \in Seq(Entry)
  BY DEF AnnouncementTypes
<1>2. outbox # <<>>
  BY <1>1
<1>3. cursor + 1 \in DOMAIN outbox /\ Now \in Entry
  BY <1>1 DEF Now
<1>4. QED
  BY <1>2, <1>3, AboutMeetings DEF LogInv, Unborn

\* What is so of a meeting stays so where its announcement does.
LEMMA SoStands ==
  ASSUME UNCHANGED site, NEW e \in Events, So(e), ShownOf(e)' = ShownOf(e),
         (messages[mirror[e]].entry)' = messages[mirror[e]].entry,
         faults \in Nat, faults' \in Nat, faults <= faults'
  PROVE  So(e)'
BY SiteStands DEF So, Right, Borrowed

LEMMA PostedAreFinite ==
  ASSUME AnnouncementTypes, NEW n
  PROVE  /\ IsFiniteSet(PostedFor(n)) /\ Cardinality(PostedFor(n)) \in Nat
         /\ IsFiniteSet(NoticesFor(n)) /\ Cardinality(NoticesFor(n)) \in Nat
<1>1. DOMAIN messages = 1..Len(messages) /\ DOMAIN notices = 1..Len(notices) /\ Len(messages) \in Nat /\ Len(notices) \in Nat
  BY DEF AnnouncementTypes
<1>2. IsFiniteSet(1..Len(messages)) /\ IsFiniteSet(1..Len(notices))
  BY <1>1, FS_Interval
<1>3. PostedFor(n) \subseteq 1..Len(messages) /\ NoticesFor(n) \subseteq 1..Len(notices)
  BY <1>1 DEF PostedFor, NoticesFor
<1>4. IsFiniteSet(PostedFor(n)) /\ IsFiniteSet(NoticesFor(n))
  BY <1>2, <1>3, FS_Subset
<1>5. QED
  BY <1>4, FS_CardinalityType

-----------------------------------------------------------------------------
(* Nothing is posted or recorded, and the handler stays where it is or gives *)
(* the entry up for now; the cursor may be put back as something fails.      *)

Forgets ==
  /\ UNCHANGED <<site, notices, records, pasts>>
  /\ AnnouncementTypes'
  /\ shut => shut'
  /\ faults <= faults'
  /\ work' = work \/ (work' = NoWork /\ faults' > faults)
  /\ cursor' = cursor \/ (cursor' < cursor /\ work'.step = "idle" /\ faults' > faults)
  /\ Len(messages') = Len(messages)
  /\ \A m \in DOMAIN messages : /\ messages'[m].shows = messages[m].shows /\ messages'[m].entry = messages[m].entry
                                /\ messages[m].gone => messages'[m].gone
  /\ \A h \in Hands : \/ hand'[h] = hand[h]
                      \/ hand'[h].step # "record" /\ (event[1].state = "none" => hand'[h].step = "idle")
Quiet == Forgets /\ UNCHANGED cursor

LEMMA QuietStands ==
  ASSUME AnnouncementsHold, Quiet
  PROVE  /\ UNCHANGED <<event, pattern, outbox, notices, mirror, delivered, cursor, unheard, crossed, Now>>
         /\ DOMAIN messages' = DOMAIN messages /\ faults \in Nat /\ faults' \in Nat
         /\ work'.step = "idle" \/ work' = work
         /\ \A p : Settled(p)' = Settled(p)
         /\ \A m : Loose(m)' <=> Loose(m)
         /\ \A h \in Hands : hand'[h].step = "record" => hand'[h] = hand[h]
<1>1. UNCHANGED <<event, pattern, outbox, notices, mirror, delivered, cursor, unheard, crossed>>
  BY DEF Quiet, Forgets, site, records, pasts
<1>2. DOMAIN messages' = DOMAIN messages /\ faults \in Nat /\ faults' \in Nat
  BY DEF Quiet, Forgets, AnnouncementsHold, AnnouncementTypes
<1>3. work'.step = "idle" \/ work' = work
  BY NothingIsTyped DEF Quiet, Forgets
<1>4. \A p : Settled(p)' = Settled(p)
  BY <1>1 DEF Settled
<1>5. \A m : Loose(m)' <=> Loose(m)
  BY <1>1, <1>2 DEF Loose
<1>6. Now' = Now
  BY <1>1 DEF Now
<1>7. QED
  BY <1>1, <1>2, <1>3, <1>4, <1>5, <1>6 DEF Quiet, Forgets

LEMMA QuietHolds ==
  ASSUME AnnouncementsHold, Quiet
  PROVE  AnnouncementsHold'
<1>1. /\ UNCHANGED <<site, event, pattern, outbox, notices, mirror, delivered, cursor, unheard, crossed, Now>>
      /\ DOMAIN messages' = DOMAIN messages /\ faults \in Nat /\ faults' \in Nat /\ faults <= faults'
      /\ work'.step = "idle" \/ work' = work
      /\ work' = work \/ faults' > faults
      /\ \A p : Settled(p)' = Settled(p)
      /\ \A m : Loose(m)' <=> Loose(m)
      /\ \A h \in Hands : hand'[h].step = "record" => hand'[h] = hand[h]
      /\ \A m \in DOMAIN messages : /\ messages'[m].shows = messages[m].shows /\ messages'[m].entry = messages[m].entry
                                    /\ messages[m].gone => messages'[m].gone
  BY QuietStands DEF Quiet, Forgets
<1>2. /\ AnnouncementTypes /\ LogInv /\ WorkInv /\ HeldInv /\ SaysInv
      /\ AnnouncementTypes' /\ (shut => shut')
  BY DEF AnnouncementsHold, Quiet, Forgets
<1>3. LogInv'
  <2>1. event[1].state = "none" => \A h \in Hands : hand'[h].step = "idle"
    BY <1>2 DEF Quiet, Forgets, LogInv, Unborn
  <2>2. QED
    BY <1>1, <1>2, <2>1, LogStands
<1>4. WorkInv'
  BY <1>1, <1>2 DEF WorkInv, Posting, NewEntry, HasNotice
<1>5. HeldInv'
  <2>1. \A e \in Events : mirror'[e] # 0 => mirror'[e] \in DOMAIN messages'
    BY <1>1, <1>2 DEF HeldInv
  <2>2. \A e, f \in Events : mirror'[e] = mirror'[f] /\ mirror'[e] # 0 => e = f
    BY <1>1, <1>2 DEF HeldInv
  <2>3. ASSUME NEW h \in Hands, hand'[h].step = "record"
        PROVE  /\ Loose(hand[h].message)'
               /\ messages'[hand'[h].message].entry = 0
               /\ (messages[hand[h].message].shows = CardOf(hand[h].of, hand[h].read))'
               /\ ~hand'[h].read.private
    <3>1. PICK p : p = hand[h]
      OBVIOUS
    <3>2. hand'[h] = p /\ p.step = "record"
      BY <1>1, <2>3, <3>1
    <3>3. Loose(p.message) /\ messages[p.message].entry = 0 /\ messages[p.message].shows = CardOf(p.of, p.read) /\ ~p.read.private
      BY <1>2, <3>1, <3>2 DEF HeldInv
    <3>4. p.message \in DOMAIN messages
      BY <3>3 DEF Loose
    <3>5. QED
      BY <1>1, <3>2, <3>3, <3>4 DEF CardOf, Loose
  <2>4. \A g, h \in Hands : hand'[g].step = "record" /\ hand'[h].step = "record" /\ hand'[g].message = hand'[h].message => g = h
    BY <1>1, <1>2 DEF HeldInv
  <2>5. Posted' => /\ Loose(work.message)'
                   /\ messages'[work'.message].entry = cursor' + 1
                   /\ messages'[work'.message].shows = work'.shows
    <3>1. Posted' => Posted /\ work' = work
      BY <1>1 DEF Posted
    <3>2. Posted => Loose(work.message) /\ messages[work.message].entry = cursor + 1 /\ messages[work.message].shows = work.shows
      BY <1>2 DEF HeldInv
    <3>3. QED
      BY <1>1, <3>1, <3>2 DEF Loose
  <2>6. \A d \in Settled("post") : Loose(d.message)' /\ messages'[d.message].entry = cursor' + 1
    <3>1. \A d \in Settled("post") : Loose(d.message) /\ messages[d.message].entry = cursor + 1
      BY <1>2 DEF HeldInv
    <3>2. QED
      BY <1>1, <3>1 DEF Loose
  <2>7. work'.step = "edit" => /\ work'.message \in DOMAIN messages'
                               /\ (work.found \in AboutOf(Now))'
                               /\ \A e \in Events : mirror'[e] = work'.message => e = work'.found
                               /\ \A h \in Hands : hand'[h].step = "record" => hand'[h].message # work'.message
    BY <1>1, <1>2 DEF HeldInv, AboutOf, SeriesEntry
  <2>8. QED
    BY <1>1, <2>1, <2>2, <2>3, <2>4, <2>5, <2>6, <2>7 DEF HeldInv
<1>6. SaysInv'
  <2>1. ASSUME NEW e \in Kept'
        PROVE  So(e)' \/ Overtaken(e, cursor + 1)' \/ Awaited(e)'
    <3>1. e \in Events /\ mirror[e] # 0 /\ mirror[e] \in DOMAIN messages
      BY <1>1, <1>2 DEF Kept, HeldInv
    <3>2. e \in Kept
      BY <1>1, <1>2, <3>1 DEF Kept
    <3>3. ShownOf(e)' = ShownOf(e) /\ (messages[mirror[e]].entry)' = messages[mirror[e]].entry
      BY <1>1, <3>1 DEF ShownOf
    <3>4. So(e) => So(e)'
      BY <1>1, <3>1, <3>3, SoStands
    <3>5. Overtaken(e, cursor + 1) => Overtaken(e, cursor + 1)'
      BY <1>1 DEF Overtaken, NewEntry, AboutOf, SeriesEntry
    <3>6. Awaited(e) => Awaited(e)'
      BY <1>1 DEF Awaited, NewEntry, AboutOf, SeriesEntry
    <3>7. QED
      BY <1>2, <3>2, <3>4, <3>5, <3>6 DEF SaysInv, ShownInv
  <2>2. PICK shows : shows = work.shows
    OBVIOUS
  <2>3. ASSUME NEW e, NEW s
        PROVE  AsItWas(e, s) => AsItWas(e, s)'
    BY <1>1, SiteStands DEF AsItWas, AboutOf, SeriesEntry
  <2>4. Seeking' => SeeksRightly'
    <3>1. ASSUME Seeking' PROVE Seeking /\ work' = work
      BY <1>1, <3>1 DEF Seeking
    <3>2. Seeking => SeeksRightly
      BY <1>2 DEF SaysInv
    <3>3. \A e \in Events : mirror[e] # 0 => mirror[e] \in DOMAIN messages
      BY <1>2 DEF HeldInv
    <3>4. QED
      BY <1>1, <3>1, <3>2, <3>3, SiteStands DEF SeeksRightly, AboutOf, SeriesEntry, Overtaken, Right, NewEntry
  <2>5. Posting' => PostsRightly'
    <3>1. ASSUME Posting' PROVE Posting /\ work'.shows = shows
      BY <1>1, <2>2, <3>1 DEF Posting
    <3>2. ASSUME Posting PROVE AsItWas(shows.of, shows) /\ \A f \in Events : f < shows.of => event[f].state # "on"
      BY <1>2, <2>2, <3>2 DEF SaysInv, PostsRightly
    <3>3. ASSUME Posting PROVE AsItWas(shows.of, shows)'
      BY <2>3, <3>2, <3>3
    <3>4. ASSUME Posting', AsItWas(shows.of, shows)' PROVE AsItWas(work.shows.of, work.shows)'
      BY <3>1, <3>4 DEF AsItWas, Right
    <3>5. QED
      BY <1>1, <3>1, <3>2, <3>3, <3>4 DEF PostsRightly
  <2>6. SettledRightly'
    <3>1. ASSUME NEW d \in Settled("post")
          PROVE  AsItWas(messages[d.message].shows.of, messages[d.message].shows)' /\ (faults' > 0 \/ work'.step = "recordRow")
      <4>1. PICK s : s = messages[d.message].shows
        OBVIOUS
      <4>2. AsItWas(s.of, s) /\ (faults > 0 \/ work.step = "recordRow")
        BY <1>2, <4>1 DEF SaysInv, SettledRightly
      <4>3. messages'[d.message].shows = s
        BY <1>1, <1>2, <4>1 DEF HeldInv, Loose
      <4>4. AsItWas(s.of, s)'
        BY <2>3, <4>2
      <4>5. QED
        BY <1>1, <4>2, <4>3, <4>4 DEF AsItWas, Right
    <3>2. QED
      BY <1>1, <3>1 DEF SettledRightly
  <2>7. FirstInv'
    BY <1>1, <1>2 DEF SaysInv, FirstInv, HeldInv
  <2>8. QED
    BY <2>1, <2>4, <2>5, <2>6, <2>7 DEF SaysInv, ShownInv
<1>9. QED
  BY <1>2, <1>3, <1>4, <1>5, <1>6 DEF AnnouncementsHold

-----------------------------------------------------------------------------
(* The quiet steps.                                                         *)

LEMMA PollStepsAreQuiet ==
  ASSUME AnnouncementTypes, LogInv, PollsMove \/ Creates \/ UNCHANGED pollVars, UNCHANGED <<site, server, channel, records, bot, pasts>>
  PROVE  Quiet
<1>1. AnnouncementTypes /\ faults \in Nat
  BY DEF AnnouncementTypes
<1>2. faults' \in {faults, faults + 1}
  <2>1. CASE \E m \in Polls : Votes(m) \/ Ends(m) \/ Finalizes(m) \/ Deletes(m) \/ PostPoll(m)
    BY <2>1 DEF Votes, Ends, Finalizes, Deletes, PostPoll, spent
  <2>2. CASE \E p \in Proposals : Accepts(p) \/ Submits(p)
    BY <2>2 DEF Accepts, Submits, spent
  <2>3. CASE UNCHANGED pollVars \/ Creates
    BY <2>3 DEF pollVars, spent, Creates
  <2>4. CASE \/ AnswersAnew \/ Closes \/ Recommends \/ SavePoll \/ Refuses \/ Busy \/ Retries \/ Tells \/ Loses
             \/ StartPass \/ ReadPoll \/ PostResult \/ RecordClosed \/ PollFault
    BY <2>4 DEF AnswersAnew, Closes, Recommends, SavePoll, Refuses, Busy, Retries, Tells, Loses,
                StartPass, ReadPoll, PostResult, RecordClosed, PollFault, Strikes, spent
  <2>5. QED
    BY <2>1, <2>2, <2>3, <2>4 DEF PollsMove
<1>3. faults' \in Nat /\ faults <= faults'
  BY <1>1, <1>2
<1>4. UNCHANGED <<event, pattern, outbox, follows, features, bound, shut, messages, notices, mirror, delivered,
                  cursor, work, hand, crossed, unheard>>
  BY DEF site, server, channel, records, bot, handler, pasts
<1>5. AnnouncementTypes'
  BY <1>1, <1>3, <1>4 DEF AnnouncementTypes
<1>6. QED
  BY <1>3, <1>4, <1>5 DEF Quiet, Forgets, site, records, pasts

LEMMA ManagesIsQuiet ==
  ASSUME AnnouncementTypes, LogInv, Manages
  PROVE  Quiet
<1>1. /\ AnnouncementTypes /\ faults \in Nat
      /\ follows \in BOOLEAN /\ bound \in BOOLEAN /\ shut \in BOOLEAN /\ features \subseteq {"new", "changes"}
  BY DEF AnnouncementTypes
<1>2. UNCHANGED <<event, pattern, outbox, notices, mirror, delivered, cursor, work, hand, crossed, unheard, faults>>
  BY DEF Manages, pollVars, spent, site, records, bot, handler, pasts
<1>3. follows' \in BOOLEAN /\ bound' \in BOOLEAN /\ shut' \in BOOLEAN /\ (shut => shut')
  BY <1>1, ZenonT(30) DEF Manages
<1>4. features' \subseteq {"new", "changes"}
  BY <1>1 DEF Manages
<1>5. /\ messages' \in Seq(Message) /\ Len(messages') = Len(messages)
      /\ \A m \in DOMAIN messages : /\ messages'[m].shows = messages[m].shows /\ messages'[m].entry = messages[m].entry
                                    /\ messages[m].gone => messages'[m].gone
  <2>1. messages \in Seq(Message)
    BY <1>1 DEF AnnouncementTypes
  <2>2. CASE UNCHANGED messages
    BY <2>1, <2>2
  <2>3. ASSUME NEW m \in DOMAIN messages, messages' = [messages EXCEPT ![m].gone = TRUE]
        PROVE  /\ messages' \in Seq(Message) /\ Len(messages') = Len(messages)
               /\ \A k \in DOMAIN messages : /\ messages'[k].shows = messages[k].shows /\ messages'[k].entry = messages[k].entry
                                             /\ messages[k].gone => messages'[k].gone
    <3>1. PICK new : new = [messages[m] EXCEPT !.gone = TRUE]
      OBVIOUS
    <3>2. messages[m] \in Message
      BY <2>1
    <3>3. new \in Message /\ new.shows = messages[m].shows /\ new.entry = messages[m].entry /\ new.gone
      BY <3>1, <3>2 DEF Message
    <3>4. messages' = [messages EXCEPT ![m] = new]
      BY <2>3, <3>1
    <3>5. QED
      BY <2>1, <3>3, <3>4
  <2>4. QED
    BY <2>2, <2>3 DEF Manages
<1>6. AnnouncementTypes'
  <2>1. DOMAIN messages' = DOMAIN messages
    BY <1>1, <1>5 DEF AnnouncementTypes
  <2>2. QED
    BY <1>1, <1>2, <1>3, <1>4, <1>5, <2>1 DEF AnnouncementTypes
<1>7. QED
  BY <1>1, <1>2, <1>3, <1>5, <1>6 DEF Quiet, Forgets, site, records, pasts

\* A press, and one that ends.
LEMMA PressesAreQuiet ==
  ASSUME AnnouncementTypes, LogInv, NEW h \in Hands, NEW p \in Press, hand' = [hand EXCEPT ![h] = p],
         p.step \in {"idle", "act"}, event[1].state = "none" => p.step = "idle",
         UNCHANGED <<site, server, channel, records, handler, pasts>>,
         faults' \in Nat, faults <= faults'
  PROVE  Quiet
<1>1. AnnouncementTypes /\ hand \in [Hands -> Press]
  BY DEF AnnouncementTypes
<1>2. UNCHANGED <<event, pattern, outbox, follows, features, bound, shut, messages, notices, mirror, delivered,
                  cursor, work, crossed, unheard>>
  BY DEF site, server, channel, records, handler, pasts
<1>3. hand' \in [Hands -> Press] /\ hand'[h] = p /\ \A g \in Hands : g # h => hand'[g] = hand[g]
  BY <1>1
<1>4. AnnouncementTypes'
  BY <1>1, <1>2, <1>3 DEF AnnouncementTypes
<1>5. QED
  BY <1>2, <1>3, <1>4 DEF Quiet, Forgets, site, records, pasts

LEMMA HandsAreQuiet ==
  ASSUME AnnouncementTypes, LogInv, NEW h \in Hands, (\E e \in Events, act \in Acts : Presses(h, e, act)) \/ Refused(h)
  PROVE  Quiet
<1>1. UNCHANGED <<site, server, channel, records, handler, pasts>> /\ faults' \in Nat /\ faults <= faults'
  <2>1. faults \in Nat /\ UNCHANGED <<site, server, channel, records, handler, pasts, faults>>
    BY DEF Presses, Refused, pollVars, spent, AnnouncementTypes
  <2>2. QED
    BY <2>1
<1>2. CASE Refused(h)
  BY <1>1, <1>2, PressesAreQuiet, NothingIsTyped DEF Refused
<1>3. ASSUME NEW e \in Events, NEW act \in Acts, Presses(h, e, act)
      PROVE  Quiet
  <2>1. PICK p : p = [NoHand EXCEPT !.step = "act", !.act = act, !.of = e, !.read = event[e]]
    OBVIOUS
  <2>2. p \in Press /\ p.step = "act"
    BY <2>1, NothingIsTyped DEF Press, AnnouncementTypes
  <2>3. hand' = [hand EXCEPT ![h] = p] /\ event[e].state = "on"
    BY <1>3, <2>1 DEF Presses
  <2>4. event[1].state # "none"
    BY <2>3 DEF LogInv, Unborn
  <2>5. QED
    BY <1>1, <2>2, <2>3, <2>4, PressesAreQuiet
<1>4. QED
  BY <1>2, <1>3

\* What fails leaves the announcements alone, but for where the handler goes on.
LEMMA FaultForgets ==
  ASSUME AnnouncementTypes, LogInv, AnnouncementFault
  PROVE  Forgets /\ faults' > faults
<1>1. /\ AnnouncementTypes /\ faults \in Nat /\ faults' = faults + 1 /\ faults' \in Nat /\ faults <= faults'
      /\ cursor \in Nat /\ faults' > faults
  BY DEF AnnouncementTypes, AnnouncementFault, Strikes
<1>2. UNCHANGED <<site, server, channel, records, pasts>>
  BY DEF AnnouncementFault
<1>3. CASE work' = NoWork /\ UNCHANGED <<cursor, hand>>
  <2>1. UNCHANGED <<event, pattern, outbox, follows, features, bound, shut, messages, notices, mirror, delivered,
                    cursor, hand, crossed, unheard>>
    BY <1>2, <1>3 DEF site, server, channel, records, pasts
  <2>2. AnnouncementTypes'
    BY <1>1, <1>3, <2>1, NothingIsTyped DEF AnnouncementTypes
  <2>3. QED
    BY <1>1, <1>3, <2>1, <2>2 DEF Forgets, site, records, pasts
<1>4. ASSUME NEW h \in Hands, hand' = [hand EXCEPT ![h] = NoHand], UNCHANGED handler
      PROVE  Forgets
  <2>1. Quiet
    BY <1>1, <1>2, <1>4, PressesAreQuiet, NothingIsTyped
  <2>2. QED
    BY <2>1 DEF Quiet
<1>5. CASE work.step = "idle" /\ cursor' \in 0..(cursor - 1) /\ UNCHANGED <<work, hand>>
  <2>1. UNCHANGED <<event, pattern, outbox, follows, features, bound, shut, messages, notices, mirror, delivered,
                    hand, work, crossed, unheard>>
    BY <1>2, <1>5 DEF site, server, channel, records, pasts
  <2>2. cursor' \in Nat /\ cursor' < cursor
    BY <1>1, <1>5
  <2>3. AnnouncementTypes'
    BY <1>1, <2>1, <2>2 DEF AnnouncementTypes
  <2>4. QED
    BY <1>1, <1>5, <2>1, <2>2, <2>3 DEF Forgets, site, records, pasts
<1>6. QED
  BY <1>1, <1>3, <1>4, <1>5 DEF AnnouncementFault

\* And so does the bot where it stops.
LEMMA StopForgets ==
  ASSUME AnnouncementTypes, LogInv, Stops
  PROVE  Forgets /\ faults' > faults
<1>1. /\ AnnouncementTypes /\ faults \in Nat /\ faults' = faults + 1 /\ faults' \in Nat /\ faults <= faults'
      /\ faults' > faults
  BY DEF AnnouncementTypes, Stops, PollsStop, Strikes
<1>2. cursor \in Nat /\ cursor' \in Nat /\ (cursor' = cursor \/ cursor' < cursor)
  BY <1>1 DEF Stops, AnnouncementTypes
<1>3. /\ work' = NoWork /\ hand' = [h \in Hands |-> NoHand]
      /\ UNCHANGED <<event, pattern, outbox, follows, features, bound, shut, messages, notices, mirror, delivered,
                     crossed, unheard>>
  BY DEF Stops, site, server, channel, records, pasts
<1>4. AnnouncementTypes'
  BY <1>1, <1>2, <1>3, NothingIsTyped DEF AnnouncementTypes
<1>5. work'.step = "idle" /\ \A h \in Hands : hand'[h].step = "idle"
  BY <1>3, NothingIsTyped
<1>6. QED
  BY <1>1, <1>2, <1>3, <1>4, <1>5 DEF Forgets, site, records, pasts

-----------------------------------------------------------------------------
(* The handler is done with an entry.                                       *)

\* The deliveries are those there were, and others of the entry at hand.
DeliversMore ==
  delivered \subseteq delivered' /\ \A d \in delivered' \ delivered : d \in Delivery /\ d.entry = cursor + 1

LEMMA WorkMovesOn ==
  ASSUME AnnouncementTypes, WorkInv, Handled, cursor < Len(outbox), UNCHANGED outbox, DeliversMore
  PROVE  /\ WorkInv' /\ cursor' = cursor + 1 /\ cursor \in Nat /\ cursor' \in Nat /\ work' = NoWork /\ work' \in Work
         /\ work'.step = "idle" /\ ~Posted' /\ ~Posting' /\ ~Seeking' /\ delivered' \subseteq Delivery
         /\ \A p : Settled(p)' = {}
         /\ \A d \in delivered' : d.entry <= cursor'
<1>1. cursor \in Nat /\ cursor' = cursor + 1 /\ work' = NoWork /\ Len(outbox) \in Nat /\ delivered \subseteq Delivery
  BY DEF Handled, AnnouncementTypes
<1>2. work' \in Work /\ work'.step = "idle" /\ ~Posted' /\ ~Posting' /\ ~Seeking'
  BY <1>1, NothingIsTyped DEF Posted, Posting, Seeking
<1>3. delivered' \subseteq Delivery
  BY <1>1 DEF DeliversMore
<1>4. \A d \in delivered' : d.entry \in 1..cursor + 1
  BY <1>1 DEF DeliversMore, WorkInv
<1>5. \A d \in delivered' : d.entry \in 1..cursor' + 1 /\ d.entry <= Len(outbox) /\ d.entry <= cursor' /\ d.entry # cursor' + 1
  BY <1>1, <1>4
<1>6. \A p : Settled(p)' = {}
  BY <1>5 DEF Settled
<1>7. WorkInv'
  BY <1>1, <1>2, <1>5 DEF WorkInv
<1>8. QED
  BY <1>1, <1>2, <1>3, <1>5, <1>6, <1>7

\* What is overtaken beyond the entry is overtaken, or awaits the next.
LEMMA NextAwaits ==
  ASSUME AnnouncementTypes, WorkInv, Handled, cursor < Len(outbox), UNCHANGED site, DeliversMore,
         NEW e, Overtaken(e, cursor + 1)
  PROVE  Overtaken(e, cursor + 1)' \/ Awaited(e)'
<1>1. /\ cursor' = cursor + 1 /\ cursor \in Nat /\ work'.step = "idle" /\ Settled("edit")' = {}
      /\ outbox' = outbox /\ outbox \in Seq(Entry)
  BY WorkMovesOn, SiteStands DEF AnnouncementTypes, site
<1>2. PICK k \in DOMAIN outbox : k > cursor + 1 /\ ~NewEntry(outbox[k]) /\ e \in AboutOf(outbox[k])
  BY DEF Overtaken
<1>3. CASE k = cursor' + 1
  <2>1. cursor' < Len(outbox') /\ Now' = outbox[k]
    BY <1>1, <1>3 DEF Now
  <2>2. QED
    BY <1>1, <1>2, <2>1 DEF Awaited, NewEntry, AboutOf, SeriesEntry
<1>4. CASE k > cursor' + 1
  BY <1>1, <1>2, <1>4 DEF Overtaken, NewEntry, AboutOf, SeriesEntry
<1>5. QED
  BY <1>1, <1>2, <1>3, <1>4

\* An entry is done with, and nothing is shown for it that was not.
LEMMA EntryIsDone ==
  ASSUME AnnouncementsHold, Handled, cursor < Len(outbox),
         UNCHANGED <<site, follows, bound, shut, messages, notices, mirror, hand, crossed, faults>>,
         features' \subseteq {"new", "changes"}, unheard \subseteq unheard', unheard' \subseteq Events,
         DeliversMore,
         \A e \in Kept' : Awaited(e) => Overtaken(e, cursor + 1)
  PROVE  AnnouncementsHold'
<1>1. AnnouncementTypes /\ LogInv /\ WorkInv /\ HeldInv /\ SaysInv
  BY DEF AnnouncementsHold
<1>2. /\ WorkInv' /\ cursor' = cursor + 1 /\ cursor \in Nat /\ cursor' \in Nat /\ work' \in Work
      /\ work'.step = "idle" /\ ~Posted' /\ ~Posting' /\ ~Seeking' /\ delivered' \subseteq Delivery
      /\ \A p : Settled(p)' = {}
      /\ \A d \in delivered' : d.entry <= cursor'
  BY <1>1, WorkMovesOn, SiteStands
<1>3. UNCHANGED <<event, pattern, outbox>>
  BY SiteStands
<1>4. AnnouncementTypes'
  BY <1>1, <1>2, <1>3 DEF AnnouncementTypes
<1>5. LogInv'
  <2>1. event[1].state # "none"
    BY <1>1, SomethingIsOn
  <2>2. QED
    BY <1>1, <2>1, LogStands
<1>6. HeldInv'
  <2>1. \A m : Loose(m)' <=> Loose(m)
    BY DEF Loose
  <2>2. QED
    BY <1>1, <1>2, <2>1, Zenon DEF HeldInv, CardOf
<1>7. SaysInv'
  <2>1. ASSUME NEW e \in Kept'
        PROVE  So(e)' \/ Overtaken(e, cursor + 1)' \/ Awaited(e)'
    <3>1. e \in Events /\ e \in Kept
      BY DEF Kept
    <3>2. So(e) => So(e)'
      BY <1>1, <3>1, SoStands DEF ShownOf, AnnouncementTypes
    <3>3. So(e) \/ Overtaken(e, cursor + 1)
      BY <1>1, <2>1, <3>1 DEF SaysInv, ShownInv
    <3>4. QED
      BY <1>1, <3>2, <3>3, NextAwaits
  <2>2. SettledRightly'
    BY <1>2 DEF SettledRightly
  <2>3. FirstInv'
    BY <1>1, <1>3 DEF SaysInv, FirstInv
  <2>4. QED
    BY <1>2, <2>1, <2>2, <2>3 DEF SaysInv, ShownInv
<1>10. QED
  BY <1>2, <1>4, <1>5, <1>6, <1>7 DEF AnnouncementsHold

\* An entry is done with, and what was posted for it is the announcement.
LEMMA AnnouncementIsRecorded ==
  ASSUME AnnouncementsHold, Handled, cursor < Len(outbox),
         UNCHANGED <<site, follows, features, bound, shut, messages, notices, delivered, hand, crossed, unheard, faults>>,
         NEW e0 \in Events, e0 = work.shows.of, PostsRightly, NewEntry(Now),
         NEW m0, Loose(m0), messages[m0].entry = cursor + 1,
         AsItWas(messages[m0].shows.of, messages[m0].shows), messages[m0].shows.of # e0 => faults > 0,
         mirror' = [mirror EXCEPT ![e0] = m0]
  PROVE  AnnouncementsHold'
<1>1. AnnouncementTypes /\ LogInv /\ WorkInv /\ HeldInv /\ SaysInv
  BY DEF AnnouncementsHold
<1>2. /\ WorkInv' /\ cursor' = cursor + 1 /\ cursor \in Nat /\ cursor' \in Nat /\ work' \in Work
      /\ work'.step = "idle" /\ ~Posted' /\ ~Posting' /\ ~Seeking' /\ delivered' \subseteq Delivery
      /\ \A p : Settled(p)' = {}
      /\ \A d \in delivered' : d.entry <= cursor'
  BY <1>1, WorkMovesOn, SiteStands DEF DeliversMore
<1>3. UNCHANGED <<event, pattern, outbox>> /\ DeliversMore /\ outbox \in Seq(Entry)
  BY <1>1, SiteStands DEF DeliversMore, AnnouncementTypes
<1>4. /\ mirror \in [Events -> Nat] /\ mirror'[e0] = m0 /\ \A e \in Events : e # e0 => mirror'[e] = mirror[e]
      /\ m0 \in DOMAIN messages /\ m0 \in Nat \ {0} /\ messages \in Seq(Message)
  BY <1>1 DEF AnnouncementTypes, Loose
<1>5. AnnouncementTypes'
  <2>1. mirror' \in [Events -> Nat]
    BY <1>4
  <2>2. QED
    BY <1>1, <1>2, <1>3, <2>1 DEF AnnouncementTypes
<1>6. LogInv'
  <2>1. event[1].state # "none"
    BY <1>1, SomethingIsOn
  <2>2. QED
    BY <1>1, <2>1, LogStands
<1>7. HeldInv'
  <2>1. \A m : Loose(m) /\ m # m0 => Loose(m)'
    BY <1>4 DEF Loose
  <2>2. \A e \in Events : mirror'[e] # 0 => mirror'[e] \in DOMAIN messages
    BY <1>1, <1>4 DEF HeldInv
  <2>3. \A e, f \in Events : mirror'[e] = mirror'[f] /\ mirror'[e] # 0 => e = f
    BY <1>1, <1>4 DEF HeldInv, Loose
  <2>4. \A h \in Hands : hand[h].step = "record" => hand[h].message # m0
    BY <1>1, <1>2 DEF HeldInv
  <2>5. QED
    BY <1>1, <1>2, <2>1, <2>2, <2>3, <2>4, Zenon DEF HeldInv, CardOf
<1>8. SaysInv'
  <2>1. PICK s : s = messages[m0].shows
    OBVIOUS
  <2>2. PICK w : w = work.shows
    OBVIOUS
  <2>3. /\ w.of = e0 /\ AsItWas(e0, w) /\ \A f \in Events : f < e0 => event[f].state # "on"
        /\ AsItWas(s.of, s) /\ (s.of # e0 => faults > 0)
    BY <2>1, <2>2 DEF PostsRightly
  <2>4. /\ ShownOf(e0)' = s /\ (messages[mirror[e0]].entry)' = cursor + 1
        /\ \A e \in Events : e # e0 => ShownOf(e)' = ShownOf(e) /\ (messages[mirror[e]].entry)' = messages[mirror[e]].entry
    BY <1>4, <2>1 DEF ShownOf
  <2>5. Overtaken(e0, cursor + 1) \/ So(e0)'
    <3>1. CASE s.of = e0
      <4>1. Overtaken(e0, cursor + 1) \/ Right(e0, s)
        BY <2>3, <3>1 DEF AsItWas
      <4>2. Right(e0, s) => Right(e0, ShownOf(e0))'
        BY <2>4, SiteStands DEF Right
      <4>3. QED
        BY <2>4, <3>1, <4>1, <4>2 DEF So
    <3>2. CASE s.of # e0
      <4>1. SeriesEntry(Now) /\ s.what = "series" /\ w.what = "series"
        BY <2>3, <3>2 DEF AsItWas, AboutOf
      <4>2. Overtaken(e0, cursor + 1) \/ event[e0].state = "on"
        BY <2>3, <4>1 DEF AsItWas, Right
      <4>3. event[e0].state = "on" => Right(e0, ShownOf(e0))'
        BY <1>3, <2>4, <3>2, <4>1 DEF Right
      <4>4. Borrowed(ShownOf(e0), messages[mirror[e0]].entry)'
        BY <2>3, <3>2 DEF Borrowed
      <4>5. QED
        BY <4>2, <4>3, <4>4 DEF So
    <3>3. QED
      BY <3>1, <3>2
  <2>6. ASSUME NEW e \in Kept'
        PROVE  So(e)' \/ Overtaken(e, cursor + 1)' \/ Awaited(e)'
    <3>1. e \in Events
      BY DEF Kept
    <3>2. CASE e = e0
      BY <1>1, <1>3, <2>5, <3>2, NextAwaits
    <3>3. CASE e # e0
      <4>1. e \in Kept
        BY <1>4, <3>1, <3>3 DEF Kept
      <4>2. So(e) => So(e)'
        <5>1. faults \in Nat /\ faults' \in Nat /\ faults <= faults'
          BY <1>1 DEF AnnouncementTypes
        <5>2. ShownOf(e)' = ShownOf(e) /\ (messages[mirror[e]].entry)' = messages[mirror[e]].entry
          BY <2>4, <3>1, <3>3
        <5>3. QED
          BY <3>1, <5>1, <5>2, SoStands
      <4>3. So(e) \/ Overtaken(e, cursor + 1)
        BY <1>1, <4>1 DEF SaysInv, ShownInv, Awaited
      <4>4. QED
        BY <1>1, <1>3, <4>2, <4>3, NextAwaits
    <3>4. QED
      BY <3>2, <3>3
  <2>7. SettledRightly'
    BY <1>2 DEF SettledRightly
  <2>8. FirstInv'
    BY <1>1, <1>3, <1>4, <2>3 DEF SaysInv, FirstInv
  <2>9. QED
    BY <1>2, <2>6, <2>7, <2>8 DEF SaysInv, ShownInv
<1>11. QED
  BY <1>2, <1>5, <1>6, <1>7, <1>8 DEF AnnouncementsHold

-----------------------------------------------------------------------------
(* The handler goes on with an entry, and posts and shows nothing yet.      *)

LEMMA WorkTurns ==
  ASSUME AnnouncementsHold, cursor < Len(outbox),
         UNCHANGED <<site, server, channel, mirror, cursor, hand, crossed, faults>>,
         unheard \subseteq unheard', unheard' \subseteq Events,
         NEW w \in Work, work' = w, w.step \in {"post", "find", "edit", "notice"},
         work.step \notin {"recordPost", "recordRow", "recordNotice"},
         w.step = "post" <=> NewEntry(Now),
         w.step = "notice" => HasNotice(Now),
         w.step = "edit" => w.found \in AboutOf(Now) /\ w.message = mirror[w.found] /\ w.message # 0,
         DeliversMore,
         \A d \in delivered' \ delivered : d.purpose = "edit" /\ HasNotice(Now),
         \A e \in Kept' : Awaited(e) => Awaited(e)',
         w.step \in {"find", "edit"} => SeeksRightly',
         w.step = "post" => PostsRightly'
  PROVE  AnnouncementsHold'
<1>1. AnnouncementTypes /\ LogInv /\ WorkInv /\ HeldInv /\ SaysInv
  BY DEF AnnouncementsHold
<1>2. UNCHANGED <<event, pattern, outbox, follows, features, bound, shut, messages, notices, mirror, cursor, Now>>
  BY DEF site, server, channel, Now
<1>3. /\ cursor \in Nat /\ Now \in Entry /\ AboutOf(Now) \subseteq Events /\ event[1].state # "none"
      /\ faults \in Nat /\ outbox \in Seq(Entry) /\ Len(outbox) \in Nat
  BY <1>1, SomethingIsOn DEF AnnouncementTypes
<1>4. HasNotice(Now) => ~NewEntry(Now)
  BY DEF HasNotice, NewEntry
<1>5. ~Posted /\ ~Posted' /\ (Posting' <=> w.step = "post") /\ (Seeking' <=> w.step \in {"find", "edit"})
  BY DEF Posted, Posting, Seeking
<1>6. Settled("post")' = Settled("post") /\ Settled("notice")' = Settled("notice")
  BY <1>2 DEF Settled, DeliversMore
<1>7. AnnouncementTypes'
  <2>1. delivered' \subseteq Delivery
    BY <1>1 DEF DeliversMore, AnnouncementTypes
  <2>2. QED
    BY <1>1, <1>2, <2>1 DEF AnnouncementTypes
<1>8. LogInv'
  BY <1>1, <1>3, LogStands
<1>9. WorkInv'
  <2>1. \A d \in delivered' : d.entry \in 1..cursor + 1 /\ d.entry <= Len(outbox)
    BY <1>1, <1>3 DEF WorkInv, DeliversMore
  <2>2. \A d \in delivered' : d.entry = cursor + 1 =>
          IF NewEntry(Now) THEN d.purpose = "post" ELSE HasNotice(Now) /\ d.purpose # "post"
    BY <1>1, <1>4 DEF WorkInv
  <2>3. QED
    BY <1>1, <1>2, <1>5, <2>1, <2>2 DEF WorkInv, NewEntry, HasNotice
<1>10. HeldInv'
  <2>1. \A m : Loose(m)' <=> Loose(m)
    BY <1>2 DEF Loose
  <2>2. w.step = "edit" => /\ w.message \in DOMAIN messages
                           /\ \A e \in Events : mirror[e] = w.message => e = w.found
                           /\ \A h \in Hands : hand[h].step = "record" => hand[h].message # w.message
    BY <1>1, <1>3 DEF HeldInv, Loose
  <2>3. \A h \in Hands : hand[h].step = "record" =>
          /\ Loose(hand[h].message)'
          /\ messages[hand[h].message].entry = 0
          /\ messages[hand[h].message].shows = CardOf(hand[h].of, hand[h].read)
          /\ ~hand[h].read.private
    BY <1>1, <2>1 DEF HeldInv, Loose
  <2>4. \A d \in Settled("post") : Loose(d.message)' /\ messages[d.message].entry = cursor + 1
    BY <1>1, <2>1 DEF HeldInv, Loose
  <2>5. w.step = "edit" => (w.found \in AboutOf(Now))'
    BY <1>2 DEF AboutOf, SeriesEntry
  <2>6. /\ \A e \in Events : mirror[e] # 0 => mirror[e] \in DOMAIN messages
        /\ \A e, f \in Events : mirror[e] = mirror[f] /\ mirror[e] # 0 => e = f
        /\ \A g, h \in Hands : hand[g].step = "record" /\ hand[h].step = "record" /\ hand[g].message = hand[h].message => g = h
    BY <1>1 DEF HeldInv
  <2>7. QED
    BY <1>2, <1>5, <1>6, <2>2, <2>3, <2>4, <2>5, <2>6, Zenon DEF HeldInv, CardOf
<1>11. SaysInv'
  <2>1. ASSUME NEW e \in Kept'
        PROVE  So(e)' \/ Overtaken(e, cursor + 1)' \/ Awaited(e)'
    <3>1. e \in Events /\ e \in Kept
      BY <1>2 DEF Kept
    <3>2. So(e) => So(e)'
      <4>1. faults \in Nat /\ faults' \in Nat /\ faults <= faults'
        BY <1>3
      <4>2. QED
        BY <1>2, <3>1, <4>1, SoStands DEF ShownOf
    <3>3. Overtaken(e, cursor + 1) => Overtaken(e, cursor + 1)'
      BY <1>2 DEF Overtaken, NewEntry, AboutOf, SeriesEntry
    <3>4. QED
      BY <1>1, <3>1, <3>2, <3>3 DEF SaysInv, ShownInv
  <2>2. SettledRightly'
    <3>1. ASSUME NEW d \in Settled("post")
          PROVE  AsItWas(messages[d.message].shows.of, messages[d.message].shows)' /\ faults' > 0
      <4>1. AsItWas(messages[d.message].shows.of, messages[d.message].shows) /\ faults > 0
        BY <1>1 DEF SaysInv, SettledRightly
      <4>2. QED
        BY <1>2, <4>1 DEF AsItWas, Right, Overtaken, AboutOf, SeriesEntry, NewEntry
    <3>2. QED
      BY <1>6, <3>1, SMTT(30) DEF SettledRightly
  <2>3. FirstInv'
    BY <1>1, <1>2 DEF SaysInv, FirstInv
  <2>4. QED
    BY <1>5, <2>1, <2>2, <2>3 DEF SaysInv, ShownInv
<1>14. QED
  BY <1>7, <1>8, <1>9, <1>10, <1>11 DEF AnnouncementsHold

-----------------------------------------------------------------------------
(* An entry is taken.                                                       *)

\* What each kind of entry comes to.
LEMMA ReplyShows ==
  ASSUME AnnouncementTypes, LogInv, cursor < Len(outbox), NEW r \in Reply
  PROVE  /\ r \in Card
         /\ Now.kind \in {"event.deleted", "series.deleted"} => r.what = "removed"
         /\ Now.kind = "event.updated" /\ Now.event.private => r.what = "internal"
         /\ Now.kind \in {"series.created", "series.updated"} =>
              r.what = "series" /\ r.of \in FirstMeeting /\ r.event = event[r.of] /\ r.pattern = Now.pattern
         /\ \/ Now.kind \in {"event.created", "event.cancelled"}
            \/ Now.kind = "event.updated" /\ ~Now.event.private
            => r.what = "event" /\ r.of = Now.of /\ r.event = Now.event /\ Reply = {r}
<1>1. /\ Now \in Entry /\ Now.of \in Events /\ Now.event \in Meeting /\ Now.pattern \in Nat
      /\ AboutOf(Now) \subseteq Events /\ Now.ids \subseteq Events
      /\ event \in [Events -> Meeting] /\ Now.kind \in EventTypes \cup SeriesTypes
  BY SomethingIsOn DEF Entry, AnnouncementTypes
<1>2. Nowhere \in Card
  BY NothingIsTyped
<1>3. CASE Now.kind \in {"event.deleted", "series.deleted"}
  <2>1. r = [Nowhere EXCEPT !.what = "removed"]
    BY <1>3 DEF Reply
  <2>2. r \in Card /\ r.what = "removed"
    BY <1>2, <2>1 DEF Card
  <2>3. QED
    BY <1>3, <2>2
<1>4. CASE Now.kind = "event.updated" /\ Now.event.private
  <2>1. r = [Nowhere EXCEPT !.what = "internal"]
    BY <1>4 DEF Reply
  <2>2. r \in Card /\ r.what = "internal"
    BY <1>2, <2>1 DEF Card
  <2>3. QED
    BY <1>4, <2>2
<1>5. CASE Now.kind \in {"series.created", "series.updated"}
  <2>1. PICK e \in FirstMeeting : r = [Nowhere EXCEPT !.what = "series", !.of = e, !.event = event[e], !.pattern = Now.pattern]
    BY <1>5 DEF Reply
  <2>2. e \in Events
    BY <1>1 DEF FirstMeeting
  <2>3. r \in Card /\ r.what = "series" /\ r.of = e /\ r.event = event[e] /\ r.pattern = Now.pattern
    BY <1>1, <1>2, <2>1, <2>2 DEF Card
  <2>4. QED
    BY <1>5, <2>1, <2>3
<1>6. CASE Now.kind \in {"event.created", "event.cancelled"} \/ (Now.kind = "event.updated" /\ ~Now.event.private)
  <2>1. Reply = {CardOf(Now.of, Now.event)}
    BY <1>6 DEF Reply
  <2>2. r = [Nowhere EXCEPT !.what = "event", !.of = Now.of, !.event = Now.event]
    BY <2>1 DEF CardOf
  <2>3. r \in Card /\ r.what = "event" /\ r.of = Now.of /\ r.event = Now.event
    BY <1>1, <1>2, <2>2 DEF Card
  <2>4. QED
    BY <1>6, <2>1, <2>3
<1>7. QED
  BY <1>1, <1>3, <1>4, <1>5, <1>6 DEF EventTypes, SeriesTypes

\* What a change comes to is right of every meeting it is about, or the meeting
\* was changed again since.
LEMMA ReplySeeks ==
  ASSUME AnnouncementTypes, LogInv, FirstInv, cursor < Len(outbox), ~IsNew, NEW r \in Reply
  PROVE  /\ \A e \in AboutOf(Now) : \/ Overtaken(e, cursor + 1)
                                    \/ /\ Right(e, r)
                                       /\ r.what = "series" => r.of <= e /\ r.pattern = pattern
         /\ r.what = "series" => \A e \in Events : e > r.of /\ mirror[e] # 0 => messages[mirror[e]].entry = 0
<1>1. /\ Now \in Entry /\ AboutOf(Now) \subseteq Events /\ Now.kind \in EventTypes \cup SeriesTypes
      /\ cursor + 1 \in DOMAIN outbox /\ Now = outbox[cursor + 1]
  BY SomethingIsOn DEF Entry, Now
<1>2. EntryFits(Now) /\ \A e \in AboutOf(Now) : Overtaken(e, cursor + 1) \/ Matches(Now, e)
  BY <1>1 DEF LogInv
<1>3. Now.kind \in {"event.updated", "event.cancelled", "event.deleted", "series.updated", "series.deleted"}
  BY <1>1 DEF IsNew, EventTypes, SeriesTypes
<1>4. CASE Now.kind = "event.deleted"
  <2>1. r.what = "removed" /\ AboutOf(Now) = {Now.of} /\ ~SeriesEntry(Now)
    BY <1>4, ReplyShows DEF AboutOf, SeriesEntry, SeriesTypes
  <2>2. \A e \in AboutOf(Now) : Overtaken(e, cursor + 1) \/ Right(e, r)
    BY <1>2, <1>4, <2>1 DEF Matches, EntryFits, Right
  <2>3. QED
    BY <2>1, <2>2
<1>5. CASE Now.kind = "series.deleted"
  <2>1. r.what = "removed"
    BY <1>5, ReplyShows
  <2>2. \A e \in AboutOf(Now) : Overtaken(e, cursor + 1) \/ Right(e, r)
    BY <1>2, <1>5, <2>1 DEF Matches, Right
  <2>3. QED
    BY <2>1, <2>2
<1>6. CASE Now.kind = "event.updated" /\ Now.event.private
  <2>1. r.what = "internal" /\ AboutOf(Now) = {Now.of} /\ ~SeriesEntry(Now)
    BY <1>6, ReplyShows DEF AboutOf, SeriesEntry, SeriesTypes
  <2>2. \A e \in AboutOf(Now) : Overtaken(e, cursor + 1) \/ Right(e, r)
    BY <1>2, <1>6, <2>1 DEF Matches, EntryFits, Right
  <2>3. QED
    BY <2>1, <2>2
<1>7. CASE Now.kind = "event.cancelled" \/ (Now.kind = "event.updated" /\ ~Now.event.private)
  <2>1. /\ r.what = "event" /\ r.of = Now.of /\ r.event = Now.event
        /\ AboutOf(Now) = {Now.of} /\ ~SeriesEntry(Now)
    BY <1>7, ReplyShows DEF AboutOf, SeriesEntry, SeriesTypes
  <2>2. Now.event.private => Now.event.cancelled
    BY <1>2, <1>7 DEF EntryFits
  <2>3. \A e \in AboutOf(Now) : Overtaken(e, cursor + 1) \/ Right(e, r)
    BY <1>2, <2>1, <2>2 DEF Matches, Right
  <2>4. QED
    BY <2>1, <2>3
<1>8. CASE Now.kind = "series.updated"
  <2>1. /\ r.what = "series" /\ r.of \in FirstMeeting /\ r.event = event[r.of] /\ r.pattern = Now.pattern
        /\ AboutOf(Now) = Now.ids /\ r.of \in Events
    BY <1>1, <1>8, ReplyShows DEF AboutOf, SeriesEntry, SeriesTypes, FirstMeeting
  <2>2. event[r.of].state = "on" /\ \A d \in Now.ids : event[d].state = "on" => r.of <= d
    BY <2>1 DEF FirstMeeting
  <2>3. \A e \in AboutOf(Now) : Matches(Now, e) => event[e].state = "on" /\ pattern = Now.pattern
    BY <1>8 DEF Matches
  <2>4. \A e \in AboutOf(Now) : Overtaken(e, cursor + 1) \/ (Right(e, r) /\ r.of <= e /\ r.pattern = pattern)
    BY <1>2, <2>1, <2>2, <2>3 DEF Right
  <2>5. \A e \in Events : e > r.of /\ mirror[e] # 0 => messages[mirror[e]].entry = 0
    BY <2>1, <2>2, EventsAreNumbers DEF FirstInv
  <2>6. QED
    BY <2>4, <2>5
<1>9. QED
  BY <1>3, <1>4, <1>5, <1>6, <1>7, <1>8

\* And what is new is announced as it is, for the first of its meetings.
LEMMA ReplyPosts ==
  ASSUME AnnouncementTypes, LogInv, cursor < Len(outbox), IsNew, NEW r \in Reply,
         \E q \in Reply : ~q.event.private
  PROVE  AsItWas(r.of, r) /\ \A f \in Events : f < r.of => event[f].state # "on"
<1>1. /\ Now \in Entry /\ AboutOf(Now) \subseteq Events
      /\ cursor + 1 \in DOMAIN outbox /\ Now = outbox[cursor + 1]
  BY SomethingIsOn DEF Now
<1>2. EntryFits(Now) /\ \A e \in AboutOf(Now) : Overtaken(e, cursor + 1) \/ Matches(Now, e)
  BY <1>1 DEF LogInv
<1>3. CASE Now.kind = "event.created"
  <2>1. /\ r.what = "event" /\ r.of = Now.of /\ r.event = Now.event /\ ~r.event.private
        /\ AboutOf(Now) = {Now.of} /\ ~SeriesEntry(Now)
    BY <1>3, ReplyShows DEF AboutOf, SeriesEntry, SeriesTypes
  <2>2. r.of = 1
    BY <1>2, <1>3, <2>1 DEF EntryFits
  <2>3. Overtaken(r.of, cursor + 1) \/ Right(r.of, r)
    BY <1>2, <2>1 DEF Matches, Right
  <2>4. \A f \in Events : ~(f < r.of)
    BY <2>2, EventsAreNumbers
  <2>5. QED
    BY <2>1, <2>3, <2>4 DEF AsItWas
<1>4. CASE Now.kind = "series.created"
  <2>1. /\ r.what = "series" /\ r.of \in FirstMeeting /\ r.event = event[r.of] /\ r.pattern = Now.pattern
        /\ AboutOf(Now) = Now.ids /\ SeriesEntry(Now) /\ Now.ids = Events
    BY <1>2, <1>4, ReplyShows DEF AboutOf, SeriesEntry, SeriesTypes, EntryFits
  <2>2. r.of \in Events /\ event[r.of].state = "on" /\ \A d \in Events : event[d].state = "on" => r.of <= d
    BY <2>1 DEF FirstMeeting
  <2>3. Overtaken(r.of, cursor + 1) \/ Right(r.of, r)
    BY <1>2, <1>4, <2>1, <2>2 DEF Matches, Right
  <2>4. ASSUME NEW f \in Events, f < r.of, event[f].state = "on" PROVE FALSE
    <3>1. f \in Nat /\ r.of \in Nat
      BY <2>2, EventsAreNumbers
    <3>2. r.of <= f
      BY <2>2, <2>4
    <3>3. QED
      BY <2>4, <3>1, <3>2
  <2>5. QED
    BY <2>1, <2>2, <2>3, <2>4 DEF AsItWas
<1>5. QED
  BY <1>3, <1>4 DEF IsNew

\* A change that comes to nothing is one of a series without a meeting left.
LEMMA NothingLeft ==
  ASSUME AnnouncementTypes, LogInv, cursor < Len(outbox), ~IsNew, Reply = {}, NEW e \in AboutOf(Now)
  PROVE  Overtaken(e, cursor + 1)
<1>1. /\ Now \in Entry /\ AboutOf(Now) \subseteq Events /\ cursor + 1 \in DOMAIN outbox /\ Now = outbox[cursor + 1]
  BY SomethingIsOn DEF Now
<1>2. Now.kind = "series.updated" /\ FirstMeeting = {}
  BY DEF IsNew, Reply
<1>3. AboutOf(Now) = Now.ids /\ Now.ids \subseteq Nat
  BY <1>1, <1>2, EventsAreNumbers DEF AboutOf, SeriesEntry, SeriesTypes
<1>4. ASSUME event[e].state = "on" PROVE FALSE
  <2> DEFINE on == {d \in Now.ids : event[d].state = "on"}
  <2>1. on \subseteq Nat /\ on # {}
    BY <1>3, <1>4
  <2>2. PICK d \in on : \A c \in on : d <= c
    BY <2>1, Least
  <2>3. d \in FirstMeeting
    BY <2>2 DEF FirstMeeting
  <2>4. QED
    BY <1>2, <2>3
<1>5. Overtaken(e, cursor + 1) \/ Matches(Now, e)
  BY <1>1 DEF LogInv
<1>6. QED
  BY <1>2, <1>4, <1>5 DEF Matches

LEMMA TakesHolds ==
  ASSUME AnnouncementsHold, Takes
  PROVE  AnnouncementsHold'
<1>1. AnnouncementTypes /\ LogInv /\ WorkInv /\ HeldInv /\ SaysInv
  BY DEF AnnouncementsHold
<1>2. /\ work.step = "idle" /\ cursor < Len(outbox) /\ cursor \in Nat
      /\ UNCHANGED <<pollVars, site, server, channel, records, hand, pasts>>
  BY <1>1 DEF Takes, AnnouncementTypes
<1>3. UNCHANGED <<event, pattern, outbox, follows, features, bound, shut, messages, notices, mirror, delivered,
                  hand, crossed, unheard, faults>> /\ DeliversMore
  BY <1>2 DEF pollVars, spent, site, server, channel, records, pasts, DeliversMore
<1>4. IsNew <=> NewEntry(Now)
  BY DEF IsNew, NewEntry
<1>5. unheard \subseteq Events
  BY <1>1 DEF AnnouncementTypes
<1>6. CASE \E r \in Reply : ~(IsNew /\ r.event.private)
  <2>1. PICK r \in Reply : work' = [NoWork EXCEPT !.step = IF IsNew THEN "post" ELSE "find", !.shows = r]
    BY <1>6 DEF Takes
  <2>2. cursor' = cursor
    BY <1>6 DEF Takes
  <2>3. r \in Card
    BY <1>1, <1>2, ReplyShows
  <2>4. PICK w : w = [NoWork EXCEPT !.step = IF IsNew THEN "post" ELSE "find", !.shows = r]
    OBVIOUS
  <2>5. w \in Work /\ w.step = (IF IsNew THEN "post" ELSE "find") /\ w.shows = r
    BY <2>3, <2>4, NothingIsTyped DEF Work, WorkSteps
  <2>6. work' = w
    BY <2>1, <2>4
  <2>7. Now' = Now
    BY <1>3, <2>2 DEF Now
  <2>8. \A e \in Kept' : Awaited(e) => Awaited(e)'
    BY <1>2, <1>3, <1>4, <2>2, <2>5, <2>6, <2>7 DEF Awaited, NewEntry, AboutOf, SeriesEntry, Settled
  <2>9. w.step = "find" => SeeksRightly'
    <3>1. ASSUME ~IsNew
          PROVE  /\ \A e \in AboutOf(Now) : \/ Overtaken(e, cursor + 1)
                                            \/ /\ Right(e, r)
                                               /\ r.what = "series" => r.of <= e /\ r.pattern = pattern
                 /\ r.what = "series" => \A e \in Events : e > r.of /\ mirror[e] # 0 => messages[mirror[e]].entry = 0
      BY <1>1, <1>2, <3>1, ReplySeeks DEF SaysInv
    <3>2. work'.shows = r
      BY <2>5, <2>6
    <3>3. QED
      BY <1>3, <2>2, <2>5, <2>7, <3>1, <3>2 DEF SeeksRightly, Right, Overtaken, AboutOf, SeriesEntry, NewEntry
  <2>10. w.step = "post" => PostsRightly'
    <3>1. ASSUME IsNew PROVE AsItWas(r.of, r) /\ \A f \in Events : f < r.of => event[f].state # "on"
      BY <1>1, <1>2, <1>6, <3>1, ReplyPosts
    <3>2. work'.shows = r
      BY <2>5, <2>6
    <3>3. QED
      BY <1>3, <2>2, <2>5, <2>7, <3>1, <3>2 DEF PostsRightly, AsItWas, Right, Overtaken, AboutOf, SeriesEntry, NewEntry
  <2>11. QED
    BY <1>2, <1>3, <1>4, <1>5, <2>2, <2>5, <2>6, <2>8, <2>9, <2>10, WorkTurns
<1>7. CASE ~\E r \in Reply : ~(IsNew /\ r.event.private)
  <2>1. Handled
    BY <1>7 DEF Takes
  <2>2. \A e \in Kept' : Awaited(e) => Overtaken(e, cursor + 1)
    BY <1>1, <1>2, <1>4, <1>7, NothingLeft DEF Awaited
  <2>3. features' \subseteq {"new", "changes"}
    BY <1>1, <1>3 DEF AnnouncementTypes
  <2>4. QED
    BY <1>2, <1>3, <1>5, <2>1, <2>2, <2>3, EntryIsDone
<1>8. QED
  BY <1>6, <1>7

-----------------------------------------------------------------------------
(* What is new is posted.                                                   *)

\* A message more.
LEMMA MessagesGrow ==
  ASSUME AnnouncementTypes, \A e \in Events : mirror[e] # 0 => mirror[e] \in DOMAIN messages,
         NEW x \in Message, messages' = Append(messages, x)
  PROVE  /\ messages' \in Seq(Message) /\ Len(messages) \in Nat /\ Len(messages') = Len(messages) + 1
         /\ DOMAIN messages = 1..Len(messages) /\ DOMAIN messages' = 1..(Len(messages) + 1)
         /\ \A m \in DOMAIN messages : messages'[m] = messages[m] /\ m # Len(messages) + 1
         /\ messages'[Len(messages) + 1] = x
         /\ \A e \in Events : mirror[e] # Len(messages) + 1
         /\ UNCHANGED mirror => \A m : Loose(m) \/ m = Len(messages) + 1 => Loose(m)'
         /\ \A n : x.entry # n => PostedFor(n)' = PostedFor(n)
         /\ \A n : x.entry = n => Cardinality(PostedFor(n)') = Cardinality(PostedFor(n)) + 1
<1>1. messages \in Seq(Message)
  BY DEF AnnouncementTypes
<1>2. /\ messages' \in Seq(Message) /\ Len(messages) \in Nat /\ Len(messages') = Len(messages) + 1
      /\ DOMAIN messages = 1..Len(messages) /\ DOMAIN messages' = 1..(Len(messages) + 1)
      /\ \A m \in DOMAIN messages : messages'[m] = messages[m] /\ m # Len(messages) + 1
      /\ messages'[Len(messages) + 1] = x
  BY <1>1
<1>3. \A e \in Events : mirror[e] # Len(messages) + 1
  BY <1>2
<1>4. ASSUME UNCHANGED mirror PROVE \A m : Loose(m) \/ m = Len(messages) + 1 => Loose(m)'
  BY <1>2, <1>3, <1>4 DEF Loose
<1>5. \A n : x.entry # n => PostedFor(n)' = PostedFor(n)
  BY <1>2 DEF PostedFor
<1>6. ASSUME NEW n, x.entry = n
      PROVE  Cardinality(PostedFor(n)') = Cardinality(PostedFor(n)) + 1
  <2>1. PostedFor(n)' = PostedFor(n) \cup {Len(messages) + 1} /\ Len(messages) + 1 \notin PostedFor(n)
    BY <1>2, <1>6 DEF PostedFor
  <2>2. QED
    BY <2>1, PostedAreFinite, FS_AddElement
<1>7. QED
  BY <1>2, <1>3, <1>4, <1>5, <1>6

\* What is shown of a meeting, and of what was settled, stays.
LEMMA SaysStands ==
  ASSUME AnnouncementsHold, UNCHANGED <<site, shut, mirror, cursor, crossed, unheard, faults>>,
         \A m \in DOMAIN messages : messages'[m] = messages[m],
         \A e \in Kept' : Awaited(e) => Awaited(e)',
         Seeking' => Seeking /\ work' = work,
         Posting' => Posting /\ work'.shows = work.shows,
         \A d \in Settled("post")' : d \in Settled("post") \/ (Posted /\ d.message = work.message /\ work'.step = "recordRow"),
         work.step = "recordRow" => work'.step = "recordRow"
  PROVE  SaysInv'
<1>1. AnnouncementTypes /\ LogInv /\ WorkInv /\ HeldInv /\ SaysInv
  BY DEF AnnouncementsHold
<1>2. UNCHANGED <<event, pattern, outbox, Now>> /\ faults \in Nat /\ faults <= faults'
  BY <1>1, SiteStands DEF Now, AnnouncementTypes
<1>3. \A e \in Events : mirror[e] # 0 => mirror[e] \in DOMAIN messages /\ ShownOf(e)' = ShownOf(e)
                                         /\ (messages[mirror[e]])' = messages[mirror[e]]
  BY <1>1 DEF HeldInv, ShownOf
<1>4. ASSUME NEW e, NEW s, AsItWas(e, s) PROVE AsItWas(e, s)'
  BY <1>2, <1>4 DEF AsItWas, Right, Overtaken, AboutOf, SeriesEntry, NewEntry
<1>5. ASSUME NEW e \in Kept'
      PROVE  So(e)' \/ Overtaken(e, cursor + 1)' \/ Awaited(e)'
  <2>1. e \in Events /\ mirror[e] # 0
    BY DEF Kept
  <2>2. e \in Kept
    BY <1>3, <2>1 DEF Kept
  <2>3. So(e) => So(e)'
    <3>1. ShownOf(e)' = ShownOf(e) /\ (messages[mirror[e]].entry)' = messages[mirror[e]].entry
      BY <1>3, <2>1
    <3>2. QED
      BY <1>2, <2>1, <3>1, SoStands
  <2>4. Overtaken(e, cursor + 1) => Overtaken(e, cursor + 1)'
    BY <1>2 DEF Overtaken, NewEntry, AboutOf, SeriesEntry
  <2>5. QED
    BY <1>1, <2>2, <2>3, <2>4 DEF SaysInv, ShownInv
<1>6. Seeking' => SeeksRightly'
  BY <1>1, <1>2, <1>3 DEF SaysInv, SeeksRightly, Right, Overtaken, AboutOf, SeriesEntry, NewEntry
<1>7. Posting' => PostsRightly'
  BY <1>1, <1>2 DEF SaysInv, PostsRightly, AsItWas, Right, Overtaken, AboutOf, SeriesEntry, NewEntry
<1>8. SettledRightly'
  <2>1. ASSUME NEW d \in Settled("post")'
        PROVE  AsItWas(messages[d.message].shows.of, messages[d.message].shows)' /\ (faults > 0 \/ work'.step = "recordRow")
    <3>1. PICK s : s = messages[d.message].shows
      OBVIOUS
    <3>2. AsItWas(s.of, s) /\ (faults > 0 \/ work'.step = "recordRow") /\ d.message \in DOMAIN messages
      <4>1. CASE d \in Settled("post")
        BY <1>1, <3>1, <4>1 DEF SaysInv, SettledRightly, HeldInv, Loose
      <4>2. CASE Posted /\ d.message = work.message /\ work'.step = "recordRow"
        BY <1>1, <3>1, <4>2 DEF SaysInv, PostsRightly, HeldInv, Loose, Posted, Posting
      <4>3. QED
        BY <4>1, <4>2
    <3>3. (messages[d.message].shows)' = s
      BY <3>1, <3>2
    <3>4. AsItWas(s.of, s)'
      BY <1>4, <3>2
    <3>5. QED
      BY <3>2, <3>3, <3>4 DEF AsItWas, Right
  <2>2. QED
    BY <1>2, <2>1 DEF SettledRightly
<1>9. FirstInv'
  BY <1>1, <1>2, <1>3 DEF SaysInv, FirstInv
<1>10. QED
  BY <1>5, <1>6, <1>7, <1>8, <1>9 DEF SaysInv, ShownInv

\* What is held of the entry when something new is to be posted.
LEMMA PostingHeld ==
  ASSUME AnnouncementsHold, Posting
  PROVE  /\ AnnouncementTypes /\ LogInv /\ WorkInv /\ HeldInv /\ SaysInv
         /\ cursor \in Nat /\ cursor < Len(outbox) /\ event[1].state # "none" /\ NewEntry(Now) /\ ~HasNotice(Now)
         /\ PostsRightly /\ work.shows.of \in Events /\ work \in Work /\ work.shows \in Card
         /\ \A e : ~Awaited(e)
<1>1. /\ AnnouncementTypes /\ LogInv /\ WorkInv /\ HeldInv /\ SaysInv
  BY DEF AnnouncementsHold
<1>2. cursor < Len(outbox) /\ NewEntry(Now)
  BY <1>1 DEF WorkInv, Posting
<1>3. cursor \in Nat /\ work \in Work /\ work.shows \in Card /\ work.shows.of \in Events
  BY <1>1 DEF AnnouncementTypes, Work, Card
<1>4. event[1].state # "none"
  BY <1>1, <1>2, SomethingIsOn
<1>5. PostsRightly
  BY <1>1 DEF SaysInv
<1>6. ~HasNotice(Now) /\ \A e : ~Awaited(e)
  BY <1>2 DEF HasNotice, NewEntry, Awaited
<1>7. QED
  BY <1>1, <1>2, <1>3, <1>4, <1>5, <1>6

LEMMA PostIsPosted ==
  ASSUME AnnouncementsHold, work.step = "post", Settled("post") = {},
         messages' = Announced(work.shows, cursor + 1),
         work' = [work EXCEPT !.step = "recordPost", !.message = Len(messages) + 1],
         UNCHANGED <<pollVars, site, features, follows, bound, shut, notices, mirror, delivered, hand, pasts, cursor>>
  PROVE  AnnouncementsHold'
<1>1. /\ AnnouncementTypes /\ LogInv /\ WorkInv /\ HeldInv /\ SaysInv
      /\ cursor \in Nat /\ cursor < Len(outbox) /\ event[1].state # "none" /\ NewEntry(Now) /\ ~HasNotice(Now)
      /\ PostsRightly /\ work.shows.of \in Events /\ work \in Work /\ work.shows \in Card
      /\ \A e : ~Awaited(e)
  BY PostingHeld DEF Posting
<1>2. UNCHANGED <<event, pattern, outbox, crossed, unheard, faults, Now>> /\ faults \in Nat
  BY <1>1, SiteStands DEF Now, pasts, pollVars, spent, AnnouncementTypes
<1>3. PICK x : x = [shows |-> work.shows, entry |-> cursor + 1, gone |-> FALSE]
  OBVIOUS
<1>4. x \in Message /\ x.shows = work.shows /\ x.entry = cursor + 1 /\ messages' = Append(messages, x)
  BY <1>1, <1>3 DEF Message, Announced
<1>5. /\ messages' \in Seq(Message) /\ Len(messages) \in Nat /\ Len(messages') = Len(messages) + 1
      /\ DOMAIN messages = 1..Len(messages) /\ DOMAIN messages' = 1..(Len(messages) + 1)
      /\ \A m \in DOMAIN messages : messages'[m] = messages[m] /\ m # Len(messages) + 1
      /\ messages'[Len(messages) + 1] = x
      /\ \A e \in Events : mirror[e] # Len(messages) + 1
      /\ \A m : Loose(m) \/ m = Len(messages) + 1 => Loose(m)'
      /\ \A n : x.entry # n => PostedFor(n)' = PostedFor(n)
      /\ \A n : x.entry = n => Cardinality(PostedFor(n)') = Cardinality(PostedFor(n)) + 1
  <2>1. /\ AnnouncementTypes /\ x \in Message /\ messages' = Append(messages, x) /\ mirror' = mirror
        /\ \A e \in Events : mirror[e] # 0 => mirror[e] \in DOMAIN messages
    BY <1>1, <1>4 DEF HeldInv
  <2>2. QED
    BY <2>1, <1>4, MessagesGrow, Zenon
<1>6. /\ work' \in Work /\ work'.step = "recordPost" /\ work'.message = Len(messages) + 1 /\ work'.shows = work.shows
  <2>1. PICK n \in Nat : n = Len(messages) + 1
    BY <1>5
  <2>2. work' = [work EXCEPT !.step = "recordPost", !.message = n] /\ work \in Work
    BY <1>1, <2>1
  <2>3. work' \in Work /\ work'.step = "recordPost" /\ work'.message = n /\ work'.shows = work.shows
    BY <2>2 DEF Work, WorkSteps
  <2>4. QED
    BY <2>1, <2>3
<1>7. Posted' /\ Posting' /\ ~Seeking' /\ ~Posted
  BY <1>6 DEF Posted, Posting, Seeking
<1>8. Settled("post")' = {} /\ Settled("notice")' = Settled("notice")
  BY DEF Settled
<1>9. AnnouncementTypes'
  BY <1>1, <1>2, <1>5, <1>6 DEF AnnouncementTypes
<1>10. LogInv'
  BY <1>1, LogStands
<1>11. WorkInv'
  BY <1>1, <1>2, <1>6, <1>7 DEF WorkInv, NewEntry
<1>12. HeldInv'
  <2>1. /\ \A e \in Events : mirror[e] # 0 => mirror[e] \in DOMAIN messages'
        /\ \A e, f \in Events : mirror[e] = mirror[f] /\ mirror[e] # 0 => e = f
        /\ \A g, h \in Hands : hand[g].step = "record" /\ hand[h].step = "record" /\ hand[g].message = hand[h].message => g = h
    BY <1>1, <1>5 DEF HeldInv
  <2>2. \A h \in Hands : hand[h].step = "record" =>
          /\ Loose(hand[h].message)'
          /\ messages'[hand[h].message].entry = 0
          /\ messages'[hand[h].message].shows = CardOf(hand[h].of, hand[h].read)
          /\ ~hand[h].read.private
    <3>1. \A h \in Hands : hand[h].step = "record" =>
            /\ Loose(hand[h].message) /\ hand[h].message \in DOMAIN messages
            /\ messages[hand[h].message].entry = 0
            /\ messages[hand[h].message].shows = CardOf(hand[h].of, hand[h].read)
            /\ ~hand[h].read.private
      BY <1>1 DEF HeldInv, Loose
    <3>2. ASSUME NEW h \in Hands, Loose(hand[h].message) PROVE Loose(hand[h].message)'
      <4>1. PICK m : m = hand[h].message
        OBVIOUS
      <4>2. Loose(m)'
        BY <1>5, <3>2, <4>1
      <4>3. QED
        BY <4>1, <4>2 DEF Loose
    <3>3. QED
      BY <1>5, <3>1, <3>2
  <2>3. Loose(work.message)' /\ messages'[work'.message].entry = cursor' + 1 /\ messages'[work'.message].shows = work'.shows
    BY <1>4, <1>5, <1>6 DEF Loose
  <2>4. QED
    BY <1>6, <1>8, <2>1, <2>2, <2>3, Zenon DEF HeldInv, CardOf
<1>13. SaysInv'
  <2>1. \A e \in Kept' : Awaited(e) => Awaited(e)'
    BY <1>1
  <2>2. Posting' => Posting /\ work'.shows = work.shows
    BY <1>6 DEF Posting
  <2>3. UNCHANGED <<site, shut, mirror, cursor, crossed, unheard, faults>>
    BY <1>2
  <2>4. \A m \in DOMAIN messages : messages'[m] = messages[m]
    BY <1>5
  <2>5. QED
    BY <1>7, <1>8, <2>1, <2>2, <2>3, <2>4, SaysStands
<1>16. QED
  BY <1>9, <1>10, <1>11, <1>12, <1>13 DEF AnnouncementsHold

LEMMA PostNewHolds ==
  ASSUME AnnouncementsHold, PostNew
  PROVE  AnnouncementsHold'
<1>1. /\ AnnouncementTypes /\ LogInv /\ WorkInv /\ HeldInv /\ SaysInv
      /\ cursor \in Nat /\ cursor < Len(outbox) /\ event[1].state # "none" /\ NewEntry(Now) /\ ~HasNotice(Now)
      /\ PostsRightly /\ work.shows.of \in Events /\ work \in Work /\ work.shows \in Card
      /\ \A e : ~Awaited(e)
  BY PostingHeld DEF PostNew, Posting
<1>2. /\ UNCHANGED <<pollVars, site, follows, bound, shut, managed, notices, delivered, hand, pasts>>
      /\ work.step = "post"
  BY DEF PostNew
<1>3. UNCHANGED <<event, pattern, outbox, crossed, unheard, faults>> /\ DeliversMore
  BY <1>2 DEF site, pasts, pollVars, spent, DeliversMore
<1>4. features \subseteq {"new", "changes"} /\ unheard \subseteq Events
  BY <1>1 DEF AnnouncementTypes
<1>5. CASE Handled /\ features' \in {features, features \ {"new"}} /\ UNCHANGED <<messages, mirror>>
  <2>1. features' \subseteq {"new", "changes"}
    BY <1>4, <1>5
  <2>2. QED
    BY <1>1, <1>2, <1>3, <1>4, <1>5, <2>1, EntryIsDone
<1>6. ASSUME NEW d \in Settled("post"), mirror' = [mirror EXCEPT ![work.shows.of] = d.message], Handled,
             UNCHANGED <<features, messages>>
      PROVE  AnnouncementsHold'
  <2>1. Loose(d.message) /\ messages[d.message].entry = cursor + 1
    BY <1>1 DEF HeldInv
  <2>2. AsItWas(messages[d.message].shows.of, messages[d.message].shows) /\ faults > 0
    BY <1>1, <1>2 DEF SaysInv, SettledRightly
  <2>3. QED
    BY <1>1, <1>2, <1>3, <1>6, <2>1, <2>2, AnnouncementIsRecorded
<1>7. CASE /\ Settled("post") = {} /\ messages' = Announced(work.shows, cursor + 1)
           /\ work' = [work EXCEPT !.step = "recordPost", !.message = Len(messages) + 1]
           /\ UNCHANGED <<features, mirror, cursor>>
  BY <1>2, <1>7, PostIsPosted
<1>8. QED
  <2>1. CASE ~follows \/ "new" \notin features
    BY <1>5, <2>1 DEF PostNew
  <2>2. CASE follows /\ "new" \in features /\ ~bound
    BY <1>5, <2>2 DEF PostNew
  <2>3. CASE follows /\ "new" \in features /\ bound /\ Settled("post") # {}
    BY <1>6, <2>3 DEF PostNew
  <2>4. CASE follows /\ "new" \in features /\ bound /\ Settled("post") = {} /\ shut
    BY <1>5, <2>4 DEF PostNew
  <2>5. CASE follows /\ "new" \in features /\ bound /\ Settled("post") = {} /\ ~shut
    BY <1>7, <2>5 DEF PostNew
  <2>6. QED
    BY <2>1, <2>2, <2>3, <2>4, <2>5

LEMMA RecordAnnouncementHolds ==
  ASSUME AnnouncementsHold, RecordAnnouncement
  PROVE  AnnouncementsHold'
<1>1. /\ AnnouncementTypes /\ LogInv /\ WorkInv /\ HeldInv /\ SaysInv
      /\ cursor \in Nat /\ cursor < Len(outbox) /\ event[1].state # "none" /\ NewEntry(Now) /\ ~HasNotice(Now)
      /\ PostsRightly /\ work.shows.of \in Events
  BY PostingHeld DEF RecordAnnouncement, Posting
<1>2. /\ mirror' = [mirror EXCEPT ![work.shows.of] = work.message] /\ Handled
      /\ UNCHANGED <<site, follows, features, bound, shut, messages, notices, delivered, hand, crossed, unheard, faults>>
  BY DEF RecordAnnouncement, server, channel, pasts, pollVars, spent
<1>3. Loose(work.message) /\ messages[work.message].entry = cursor + 1 /\ messages[work.message].shows = work.shows
  BY <1>1 DEF HeldInv, RecordAnnouncement, Posted
<1>4. AsItWas(messages[work.message].shows.of, messages[work.message].shows)
  BY <1>1, <1>3 DEF PostsRightly
<1>5. QED
  BY <1>1, <1>2, <1>3, <1>4, AnnouncementIsRecorded

LEMMA RecordPostHolds ==
  ASSUME AnnouncementsHold, RecordPost
  PROVE  AnnouncementsHold'
<1>1. /\ AnnouncementTypes /\ LogInv /\ WorkInv /\ HeldInv /\ SaysInv
      /\ cursor \in Nat /\ cursor < Len(outbox) /\ event[1].state # "none" /\ NewEntry(Now) /\ ~HasNotice(Now)
      /\ PostsRightly /\ work.shows.of \in Events /\ work \in Work /\ work.shows \in Card
      /\ \A e : ~Awaited(e)
  BY PostingHeld DEF RecordPost, Posting
<1>2. /\ UNCHANGED <<site, follows, features, bound, shut, messages, notices, mirror, cursor, hand, crossed, unheard, faults>>
      /\ work.step = "recordPost"
  BY DEF RecordPost, server, channel, pasts, pollVars, spent
<1>3. UNCHANGED <<event, pattern, outbox, Now>>
  BY <1>2, SiteStands DEF Now
<1>4. PICK D : D = [entry |-> cursor + 1, purpose |-> "post", message |-> work.message]
  OBVIOUS
<1>5. /\ D \in Delivery /\ D.entry = cursor + 1 /\ D.purpose = "post" /\ D.message = work.message
      /\ delivered' = delivered \cup {D}
  BY <1>1, <1>4 DEF RecordPost, Delivers, Delivery, Work
<1>6. work' \in Work /\ work'.step = "recordRow" /\ work'.message = work.message /\ work'.shows = work.shows
  BY <1>1 DEF RecordPost, Work, WorkSteps
<1>7. Posted' /\ Posting' /\ ~Seeking' /\ Posted /\ Posting
  BY <1>2, <1>6 DEF Posted, Posting, Seeking
<1>8. Settled("post")' = Settled("post") \cup {D} /\ Settled("notice")' = Settled("notice")
  BY <1>2, <1>5 DEF Settled
<1>9. AnnouncementTypes'
  <2>1. delivered' \subseteq Delivery
    BY <1>1, <1>5 DEF AnnouncementTypes
  <2>2. QED
    BY <1>1, <1>2, <1>3, <1>6, <2>1 DEF AnnouncementTypes
<1>10. LogInv'
  BY <1>1, <1>2, LogStands
<1>11. WorkInv'
  <2>1. D.entry \in 1..cursor + 1 /\ D.entry <= Len(outbox)
    BY <1>1, <1>5 DEF AnnouncementTypes
  <2>2. QED
    BY <1>1, <1>2, <1>3, <1>5, <1>6, <1>7, <2>1 DEF WorkInv, NewEntry
<1>12. HeldInv'
  <2>1. \A m : Loose(m)' <=> Loose(m)
    BY <1>2 DEF Loose
  <2>2. Loose(work.message) /\ messages[work.message].entry = cursor + 1 /\ messages[work.message].shows = work.shows
    BY <1>1, <1>7 DEF HeldInv
  <2>3. \A d \in Settled("post") : Loose(d.message) /\ messages[d.message].entry = cursor + 1
    BY <1>1 DEF HeldInv
  <2>4. \A d \in Settled("post")' : Loose(d.message) /\ messages[d.message].entry = cursor + 1
    BY <1>5, <1>8, <2>2, <2>3
  <2>5. \A h \in Hands : hand[h].step = "record" =>
          /\ Loose(hand[h].message)'
          /\ messages[hand[h].message].entry = 0
          /\ messages[hand[h].message].shows = CardOf(hand[h].of, hand[h].read)
          /\ ~hand[h].read.private
    BY <1>1, <1>2, <2>1 DEF HeldInv, Loose
  <2>6. Loose(work.message)' /\ \A d \in Settled("post")' : Loose(d.message)'
    BY <1>2, <1>6, <2>2, <2>4 DEF Loose
  <2>7. /\ \A e \in Events : mirror[e] # 0 => mirror[e] \in DOMAIN messages
        /\ \A e, f \in Events : mirror[e] = mirror[f] /\ mirror[e] # 0 => e = f
        /\ \A g, h \in Hands : hand[g].step = "record" /\ hand[h].step = "record" /\ hand[g].message = hand[h].message => g = h
    BY <1>1 DEF HeldInv
  <2>8. QED
    BY <1>2, <1>6, <2>2, <2>4, <2>5, <2>6, <2>7, Zenon DEF HeldInv, CardOf
<1>13. SaysInv'
  <2>1. \A d \in Settled("post")' : d \in Settled("post") \/ (Posted /\ d.message = work.message /\ work'.step = "recordRow")
    BY <1>5, <1>6, <1>7, <1>8
  <2>2. \A e \in Kept' : Awaited(e) => Awaited(e)'
    BY <1>1
  <2>3. \A m \in DOMAIN messages : messages'[m] = messages[m]
    BY <1>2
  <2>4. QED
    BY <1>2, <1>6, <1>7, <2>1, <2>2, <2>3, SaysStands
<1>16. QED
  BY <1>9, <1>10, <1>11, <1>12, <1>13 DEF AnnouncementsHold

-----------------------------------------------------------------------------
(* A change is brought to the announcement.                                 *)

LEMMA SeekingHeld ==
  ASSUME AnnouncementsHold, work.step \in {"find", "edit", "recordEdit", "notice", "recordNotice"}
  PROVE  /\ AnnouncementTypes /\ LogInv /\ WorkInv /\ HeldInv /\ SaysInv
         /\ cursor \in Nat /\ cursor < Len(outbox) /\ event[1].state # "none" /\ ~NewEntry(Now)
         /\ Now \in Entry /\ Now.of \in Events /\ AboutOf(Now) \subseteq Events
         /\ work \in Work /\ Settled("post") = {} /\ ~Posting
         /\ HasNotice(Now) => AboutOf(Now) = {Now.of}
<1>1. /\ AnnouncementTypes /\ LogInv /\ WorkInv /\ HeldInv /\ SaysInv
  BY DEF AnnouncementsHold
<1>2. cursor < Len(outbox) /\ ~NewEntry(Now) /\ ~Posting
  BY <1>1 DEF WorkInv, Posting
<1>3. cursor \in Nat /\ work \in Work
  BY <1>1 DEF AnnouncementTypes
<1>4. event[1].state # "none" /\ Now \in Entry /\ Now.of \in Events /\ AboutOf(Now) \subseteq Events
  BY <1>1, <1>2, SomethingIsOn DEF Entry
<1>5. Settled("post") = {}
  BY <1>1, <1>2 DEF WorkInv, Settled
<1>6. HasNotice(Now) => AboutOf(Now) = {Now.of}
  BY DEF HasNotice, AboutOf, SeriesEntry, SeriesTypes
<1>7. QED
  BY <1>1, <1>2, <1>3, <1>4, <1>5, <1>6

LEMMA FindAnnouncementHolds ==
  ASSUME AnnouncementsHold, FindAnnouncement
  PROVE  AnnouncementsHold'
<1>1. /\ AnnouncementTypes /\ LogInv /\ WorkInv /\ HeldInv /\ SaysInv
      /\ cursor \in Nat /\ cursor < Len(outbox) /\ event[1].state # "none" /\ ~NewEntry(Now)
      /\ Now \in Entry /\ Now.of \in Events /\ AboutOf(Now) \subseteq Events
      /\ work \in Work /\ Settled("post") = {} /\ ~Posting
      /\ HasNotice(Now) => AboutOf(Now) = {Now.of}
  BY SeekingHeld DEF FindAnnouncement
<1>2. /\ UNCHANGED <<pollVars, site, server, channel, records, hand, crossed>> /\ work.step = "find"
      /\ UNCHANGED <<event, pattern, outbox, follows, features, bound, shut, messages, notices, mirror, delivered, faults>>
      /\ DeliversMore
  BY DEF FindAnnouncement, pollVars, spent, site, server, channel, records, DeliversMore
<1> DEFINE rows == {e \in About : mirror[e] # 0}
<1>3. rows = {e \in AboutOf(Now) : mirror[e] # 0}
  BY DEF About, AboutOf, IsSeries, SeriesEntry, SeriesTypes
<1>4. unheard \subseteq Events /\ rows \subseteq Events /\ mirror \in [Events -> Nat] /\ features \subseteq {"new", "changes"}
  BY <1>1, <1>3 DEF AnnouncementTypes
<1>5. \A e \in Kept' : Awaited(e) => e \in rows
  BY <1>2, <1>3 DEF Kept, Awaited
<1>6. CASE follows /\ "changes" \in features /\ rows # {}
  <2>1. PICK first : first = CHOOSE e \in rows : \A d \in rows : e <= d
    OBVIOUS
  <2>2. first \in rows
    <3>1. rows \subseteq Nat
      BY <1>4, EventsAreNumbers
    <3>2. \E e \in rows : \A d \in rows : e <= d
      BY <1>6, <3>1, Least
    <3>3. QED
      BY <2>1, <3>2
  <2>3. /\ work' = [work EXCEPT !.step = "edit", !.found = first, !.message = mirror[first]]
        /\ unheard' = unheard \cup (rows \ {first}) /\ cursor' = cursor
    BY <1>6, <2>1 DEF FindAnnouncement
  <2>4. PICK m \in Nat : m = mirror[first] /\ m # 0 /\ first \in AboutOf(Now) /\ first \in Events
    BY <1>3, <1>4, <2>2
  <2>5. PICK w : w = [work EXCEPT !.step = "edit", !.found = first, !.message = m]
    OBVIOUS
  <2>6. w \in Work /\ w.step = "edit" /\ w.found = first /\ w.message = m /\ w.shows = work.shows
    BY <1>1, <2>4, <2>5 DEF Work, WorkSteps
  <2>7. work' = w
    BY <2>3, <2>4, <2>5
  <2>8. Now' = Now
    BY <1>2, <2>3 DEF Now
  <2>9. \A e \in Kept' : Awaited(e) => Awaited(e)'
    <3>1. ASSUME NEW e \in Kept', Awaited(e) PROVE e = first
      BY <1>5, <2>3, <3>1 DEF Kept
    <3>2. QED
      BY <1>2, <2>3, <2>4, <2>6, <2>7, <2>8, <3>1 DEF Awaited, NewEntry, AboutOf, SeriesEntry, Settled
  <2>10. SeeksRightly'
    <3>1. SeeksRightly
      BY <1>1, <1>2 DEF SaysInv, Seeking
    <3>2. work'.shows = work.shows
      BY <2>6, <2>7
    <3>3. QED
      BY <1>2, <2>3, <2>8, <3>1, <3>2 DEF SeeksRightly, Right, Overtaken, AboutOf, SeriesEntry, NewEntry
  <2>11. unheard \subseteq unheard' /\ unheard' \subseteq Events
    BY <1>4, <2>3
  <2>12. QED
    BY <1>1, <1>2, <2>3, <2>4, <2>6, <2>7, <2>9, <2>10, <2>11, WorkTurns
<1>7. CASE ~(follows /\ "changes" \in features /\ rows # {})
  <2>1. Handled /\ unheard' = unheard \cup rows
    BY <1>7 DEF FindAnnouncement
  <2>2. unheard \subseteq unheard' /\ unheard' \subseteq Events /\ features' \subseteq {"new", "changes"}
    BY <1>2, <1>4, <2>1
  <2>3. \A e \in Kept' : ~Awaited(e)
    BY <1>5, <2>1 DEF Kept
  <2>4. QED
    BY <1>1, <1>2, <2>1, <2>2, <2>3, EntryIsDone
<1>8. QED
  BY <1>6, <1>7

\* The announcement is drawn anew, where it still can be.
LEMMA EditIsMade ==
  ASSUME AnnouncementsHold, work.step = "edit", Settled("edit") = {},
         messages' = IF shut \/ messages[work.message].gone THEN messages
                     ELSE [messages EXCEPT ![work.message].shows = work.shows],
         work' = [work EXCEPT !.step = "recordEdit"],
         UNCHANGED <<pollVars, site, server, notices, records, hand, pasts, cursor>>
  PROVE  AnnouncementsHold'
<1>1. /\ AnnouncementTypes /\ LogInv /\ WorkInv /\ HeldInv /\ SaysInv
      /\ cursor \in Nat /\ cursor < Len(outbox) /\ event[1].state # "none" /\ ~NewEntry(Now)
      /\ Now \in Entry /\ Now.of \in Events /\ AboutOf(Now) \subseteq Events
      /\ work \in Work /\ Settled("post") = {} /\ ~Posting
  BY SeekingHeld
<1>2. UNCHANGED <<event, pattern, outbox, follows, features, bound, shut, mirror, delivered, crossed, unheard, faults, Now>>
  BY DEF Now, site, server, records, pasts, pollVars, spent
<1>3. PICK m : m = work.message
  OBVIOUS
<1>4. /\ m \in DOMAIN messages /\ work.found \in AboutOf(Now)
      /\ \A e \in Events : mirror[e] = m => e = work.found
      /\ \A h \in Hands : hand[h].step = "record" => hand[h].message # m
  BY <1>1, <1>3 DEF HeldInv
<1>5. /\ messages' \in Seq(Message) /\ DOMAIN messages' = DOMAIN messages
      /\ \A k \in DOMAIN messages : messages'[k].entry = messages[k].entry /\ messages'[k].gone = messages[k].gone
      /\ \A k \in DOMAIN messages : k # m => messages'[k] = messages[k]
      /\ ~shut /\ ~messages[m].gone => messages'[m].shows = work.shows
  <2>1. messages \in Seq(Message) /\ messages[m] \in Message /\ work.shows \in Card
    BY <1>1, <1>4 DEF AnnouncementTypes, Work
  <2>2. PICK new : new = [messages[m] EXCEPT !.shows = work.shows]
    OBVIOUS
  <2>3. new \in Message /\ new.shows = work.shows /\ new.entry = messages[m].entry /\ new.gone = messages[m].gone
    BY <2>1, <2>2 DEF Message
  <2>4. messages' = messages \/ messages' = [messages EXCEPT ![m] = new]
    BY <1>3, <2>2
  <2>5. ~shut /\ ~messages[m].gone => messages' = [messages EXCEPT ![m] = new]
    BY <1>3, <2>2
  <2>6. [messages EXCEPT ![m] = new] \in Seq(Message)
    BY <1>4, <2>1, <2>3
  <2>7. QED
    BY <1>4, <2>1, <2>3, <2>4, <2>5, <2>6
<1>6. work' \in Work /\ work'.step = "recordEdit" /\ work'.shows = work.shows
  BY <1>1 DEF Work, WorkSteps
<1>7. ~Posted' /\ ~Posting' /\ ~Seeking' /\ ~Posted
  BY <1>6 DEF Posted, Posting, Seeking
<1>8. \A p : Settled(p)' = Settled(p)
  BY <1>2 DEF Settled
<1>9. AnnouncementTypes'
  BY <1>1, <1>2, <1>5, <1>6 DEF AnnouncementTypes
<1>10. LogInv'
  BY <1>1, <1>2, LogStands
<1>11. WorkInv'
  BY <1>1, <1>2, <1>6, <1>7 DEF WorkInv, NewEntry, HasNotice
<1>12. HeldInv'
  <2>1. \A k : Loose(k)' <=> Loose(k)
    BY <1>2, <1>5 DEF Loose
  <2>2. \A h \in Hands : hand[h].step = "record" =>
          /\ Loose(hand[h].message)'
          /\ messages'[hand[h].message].entry = 0
          /\ messages'[hand[h].message].shows = CardOf(hand[h].of, hand[h].read)
          /\ ~hand[h].read.private
    <3>1. ASSUME NEW h \in Hands, hand[h].step = "record"
          PROVE  /\ Loose(hand[h].message)'
                 /\ messages'[hand[h].message].entry = 0
                 /\ messages'[hand[h].message].shows = CardOf(hand[h].of, hand[h].read)
                 /\ ~hand[h].read.private
      <4>1. PICK k : k = hand[h].message
        OBVIOUS
      <4>2. /\ Loose(k) /\ messages[k].entry = 0 /\ ~hand[h].read.private
            /\ messages[k].shows = CardOf(hand[h].of, hand[h].read)
        BY <1>1, <3>1, <4>1 DEF HeldInv
      <4>3. k \in DOMAIN messages /\ k # m
        BY <1>4, <3>1, <4>1, <4>2 DEF Loose
      <4>4. messages'[k] = messages[k]
        BY <1>5, <4>3
      <4>5. hand' = hand /\ mirror' = mirror /\ DOMAIN messages' = DOMAIN messages
        BY <1>2, <1>5
      <4>6. Loose(hand[h].message)'
        BY <4>1, <4>2, <4>5 DEF Loose
      <4>7. QED
        BY <4>1, <4>2, <4>4, <4>6
    <3>2. QED
      BY <3>1
  <2>3. /\ \A e \in Events : mirror[e] # 0 => mirror[e] \in DOMAIN messages'
        /\ \A e, f \in Events : mirror[e] = mirror[f] /\ mirror[e] # 0 => e = f
        /\ \A g, h \in Hands : hand[g].step = "record" /\ hand[h].step = "record" /\ hand[g].message = hand[h].message => g = h
    BY <1>1, <1>5 DEF HeldInv
  <2>4. QED
    <3>1. Settled("post")' = {} /\ work'.step # "edit" /\ UNCHANGED hand
      BY <1>1, <1>6, <1>8
    <3>2. \A h \in Hands : hand'[h].step = "record" =>
            /\ Loose(hand[h].message)'
            /\ messages'[hand'[h].message].entry = 0
            /\ (messages[hand[h].message].shows = CardOf(hand[h].of, hand[h].read))'
            /\ ~hand'[h].read.private
      BY <2>2, <3>1, Zenon DEF CardOf
    <3>3. /\ \A e \in Events : mirror'[e] # 0 => mirror'[e] \in DOMAIN messages'
          /\ \A e, f \in Events : mirror'[e] = mirror'[f] /\ mirror'[e] # 0 => e = f
          /\ \A g, h \in Hands : hand'[g].step = "record" /\ hand'[h].step = "record" /\ hand'[g].message = hand'[h].message => g = h
      BY <1>2, <2>3, <3>1
    <3>4. QED
      BY <1>7, <3>1, <3>2, <3>3 DEF HeldInv
<1>13. SaysInv'
  <2>1. ASSUME NEW e \in Kept'
        PROVE  So(e)' \/ Overtaken(e, cursor + 1)'
    <3>1. e \in Events /\ mirror[e] \in DOMAIN messages /\ mirror[e] # 0
      BY <1>1, <1>2 DEF Kept, HeldInv
    <3>2. e \in Kept
      BY <1>2, <1>5, <3>1 DEF Kept
    <3>3. Overtaken(e, cursor + 1) => Overtaken(e, cursor + 1)'
      BY <1>2 DEF Overtaken, NewEntry, AboutOf, SeriesEntry
    <3>4. CASE mirror[e] = m
      <4>1. PICK s : s = work.shows
        OBVIOUS
      <4>2. e \in AboutOf(Now) /\ SeeksRightly
        BY <1>1, <1>4, <3>1, <3>4 DEF SaysInv, Seeking
      <4>3. \/ Overtaken(e, cursor + 1)
            \/ Right(e, s) /\ (s.what = "series" => s.of <= e /\ s.pattern = pattern)
        BY <4>1, <4>2 DEF SeeksRightly
      <4>4. ShownOf(e)' = s /\ (messages[mirror[e]].entry)' = messages[m].entry
        BY <1>2, <1>5, <3>2, <3>4, <4>1 DEF ShownOf, Kept
      <4>5. ASSUME s.what = "series", s.of # e, s.of <= e PROVE messages[m].entry = 0
        <5>1. work.shows.of \in Events /\ Events \subseteq Nat
          BY <1>1, EventsAreNumbers DEF Work, Card
        <5>2. e > s.of
          BY <3>1, <4>1, <4>5, <5>1
        <5>3. QED
          BY <3>1, <3>4, <4>1, <4>2, <4>5, <5>2 DEF SeeksRightly
      <4>6. ASSUME Right(e, s), s.what = "series" => s.of <= e /\ s.pattern = pattern
            PROVE  So(e)'
        <5>1. Right(e, ShownOf(e))'
          BY <1>2, <4>4, <4>6 DEF Right
        <5>2. s.what = "series" /\ s.of # e => Borrowed(ShownOf(e), messages[mirror[e]].entry)'
          BY <1>2, <4>4, <4>5, <4>6 DEF Borrowed
        <5>3. QED
          BY <4>4, <5>1, <5>2 DEF So
      <4>7. QED
        BY <3>3, <4>3, <4>6
    <3>5. CASE mirror[e] # m
      <4>1. So(e) => So(e)'
        <5>1. ShownOf(e)' = ShownOf(e) /\ (messages[mirror[e]].entry)' = messages[mirror[e]].entry
          BY <1>2, <1>5, <3>1, <3>5 DEF ShownOf
        <5>2. faults \in Nat /\ faults <= faults' /\ faults' \in Nat
          BY <1>1, <1>2 DEF AnnouncementTypes
        <5>3. QED
          BY <1>2, <3>1, <5>1, <5>2, SoStands
      <4>2. So(e) \/ Overtaken(e, cursor + 1)
        BY <1>1, <1>3, <3>2, <3>5 DEF SaysInv, ShownInv, Awaited
      <4>3. QED
        BY <3>3, <4>1, <4>2
    <3>6. QED
      BY <3>4, <3>5
  <2>2. SettledRightly'
    BY <1>1, <1>8 DEF SettledRightly
  <2>3. FirstInv'
    BY <1>1, <1>2, <1>5 DEF SaysInv, FirstInv, HeldInv
  <2>4. QED
    BY <1>7, <2>1, <2>2, <2>3 DEF SaysInv, ShownInv
<1>16. QED
  BY <1>9, <1>10, <1>11, <1>12, <1>13 DEF AnnouncementsHold

\* After an edit, a notice follows where one is owed.
LEMMA NoticeFollows ==
  ASSUME AnnouncementsHold, work.step \in {"edit", "recordEdit"}, HasNotice(Now),
         work' = [work EXCEPT !.step = "notice"], UNCHANGED <<pollVars, site, server, channel, mirror, cursor, hand, pasts>>,
         DeliversMore, \A d \in delivered' \ delivered : d.purpose = "edit", \A e : ~Awaited(e)
  PROVE  AnnouncementsHold'
<1>1. cursor < Len(outbox) /\ ~NewEntry(Now) /\ work \in Work /\ AnnouncementTypes
  BY SeekingHeld
<1>2. UNCHANGED <<site, server, channel, mirror, cursor, hand, crossed, unheard, faults>> /\ unheard \subseteq Events
  BY <1>1 DEF pasts, pollVars, spent, AnnouncementTypes
<1>3. PICK w : w = [work EXCEPT !.step = "notice"]
  OBVIOUS
<1>4. w \in Work /\ w.step = "notice" /\ work' = w
  BY <1>1, <1>3 DEF Work, WorkSteps
<1>5. QED
  BY <1>1, <1>2, <1>4, WorkTurns

LEMMA EditHolds ==
  ASSUME AnnouncementsHold, Edit
  PROVE  AnnouncementsHold'
<1>1. work.step = "edit" /\ WorkInv /\ ~NewEntry(Now) /\ UNCHANGED <<pollVars, site, server, notices, records, hand, pasts>>
  BY SeekingHeld DEF Edit
<1>2. CASE Settled("edit") = {}
  BY <1>1, <1>2, EditIsMade DEF Edit
<1>3. CASE Settled("edit") # {}
  <2>1. HasNotice(Now)
    BY <1>1, <1>3 DEF WorkInv, Settled
  <2>2. work' = [work EXCEPT !.step = "notice"] /\ UNCHANGED <<cursor, messages>>
    BY <1>3, <2>1 DEF Edit, AfterEdit
  <2>3. \A e : ~Awaited(e)
    BY <1>3 DEF Awaited
  <2>4. UNCHANGED <<mirror, delivered, channel>> /\ DeliversMore
    BY <1>1, <2>2 DEF records, channel, DeliversMore
  <2>5. QED
    BY <1>1, <2>1, <2>2, <2>3, <2>4, NoticeFollows
<1>4. QED
  BY <1>2, <1>3

LEMMA RecordEditHolds ==
  ASSUME AnnouncementsHold, RecordEdit
  PROVE  AnnouncementsHold'
<1>1. /\ AnnouncementTypes /\ cursor < Len(outbox) /\ cursor \in Nat /\ work \in Work
      /\ work.step = "recordEdit" /\ UNCHANGED <<pollVars, site, server, channel, mirror, hand, pasts>>
  BY SeekingHeld DEF RecordEdit
<1>2. PICK D : D = [entry |-> cursor + 1, purpose |-> "edit", message |-> work.message]
  OBVIOUS
<1>3. D \in Delivery /\ D.entry = cursor + 1 /\ D.purpose = "edit" /\ delivered' = delivered \cup {D}
  BY <1>1, <1>2 DEF RecordEdit, Delivers, Delivery, Work
<1>4. DeliversMore /\ \A d \in delivered' \ delivered : d.purpose = "edit"
  BY <1>3 DEF DeliversMore
<1>5. \A e : ~Awaited(e)
  BY <1>1 DEF Awaited
<1>6. CASE HasNotice(Now)
  <2>1. work' = [work EXCEPT !.step = "notice"] /\ cursor' = cursor
    BY <1>6 DEF RecordEdit, AfterEdit
  <2>2. QED
    BY <1>1, <1>4, <1>5, <1>6, <2>1, NoticeFollows
<1>7. CASE ~HasNotice(Now)
  <2>1. Handled
    BY <1>7 DEF RecordEdit, AfterEdit
  <2>2. /\ UNCHANGED <<site, follows, bound, shut, messages, notices, mirror, hand, crossed, unheard, faults, features>>
        /\ features \subseteq {"new", "changes"} /\ unheard \subseteq Events
    BY <1>1 DEF pasts, pollVars, spent, server, channel, AnnouncementTypes
  <2>3. QED
    BY <1>1, <1>4, <1>5, <1>7, <2>1, <2>2, EntryIsDone
<1>8. QED
  BY <1>6, <1>7

-----------------------------------------------------------------------------
(* The notices.                                                             *)

LEMMA NoticeIsPosted ==
  ASSUME AnnouncementsHold, work.step = "notice", Settled("notice") = {},
         notices' = Append(notices, cursor + 1), work' = [work EXCEPT !.step = "recordNotice"],
         UNCHANGED <<pollVars, site, server, messages, records, hand, pasts, cursor>>
  PROVE  AnnouncementsHold'
<1>1. /\ AnnouncementTypes /\ LogInv /\ WorkInv /\ HeldInv /\ SaysInv
      /\ cursor \in Nat /\ cursor < Len(outbox) /\ event[1].state # "none" /\ ~NewEntry(Now)
      /\ work \in Work /\ Settled("post") = {} /\ ~Posting
  BY SeekingHeld
<1>2. UNCHANGED <<event, pattern, outbox, follows, features, bound, shut, mirror, delivered, crossed, unheard, faults, Now>>
  BY DEF Now, site, server, records, pasts, pollVars, spent
<1>3. /\ notices \in Seq(Nat) /\ notices' \in Seq(Nat) /\ DOMAIN notices = 1..Len(notices) /\ Len(notices) \in Nat
      /\ DOMAIN notices' = 1..(Len(notices) + 1) /\ notices'[Len(notices) + 1] = cursor + 1
      /\ \A i \in DOMAIN notices : notices'[i] = notices[i] /\ i # Len(notices) + 1
  BY <1>1 DEF AnnouncementTypes
<1>4. work' \in Work /\ work'.step = "recordNotice"
  BY <1>1 DEF Work, WorkSteps
<1>5. ~Posted' /\ ~Posting' /\ ~Seeking' /\ ~Posted /\ \A e : ~Awaited(e)
  BY <1>4 DEF Posted, Posting, Seeking, Awaited
<1>6. \A p : Settled(p)' = Settled(p)
  BY <1>2 DEF Settled
<1>7. AnnouncementTypes'
  BY <1>1, <1>2, <1>3, <1>4 DEF AnnouncementTypes
<1>8. LogInv'
  BY <1>1, <1>2, LogStands
<1>9. WorkInv'
  BY <1>1, <1>2, <1>4, <1>5 DEF WorkInv, NewEntry, HasNotice
<1>10. HeldInv'
  <2>1. Settled("post")' = {} /\ work'.step # "edit" /\ UNCHANGED <<hand, messages, mirror>>
    BY <1>1, <1>2, <1>4, <1>6
  <2>2. \A h \in Hands : hand[h].step = "record" =>
          /\ Loose(hand[h].message)'
          /\ messages[hand[h].message].entry = 0
          /\ messages[hand[h].message].shows = CardOf(hand[h].of, hand[h].read)
          /\ ~hand[h].read.private
    BY <1>1, <2>1 DEF HeldInv, Loose
  <2>3. /\ \A e \in Events : mirror[e] # 0 => mirror[e] \in DOMAIN messages
        /\ \A e, f \in Events : mirror[e] = mirror[f] /\ mirror[e] # 0 => e = f
        /\ \A g, h \in Hands : hand[g].step = "record" /\ hand[h].step = "record" /\ hand[g].message = hand[h].message => g = h
    BY <1>1 DEF HeldInv
  <2>4. QED
    <3>1. (\A h \in Hands : hand[h].step = "record" =>
             /\ Loose(hand[h].message)
             /\ messages[hand[h].message].entry = 0
             /\ messages[hand[h].message].shows = CardOf(hand[h].of, hand[h].read)
             /\ ~hand[h].read.private)'
      BY <2>1, <2>2 DEF CardOf
    <3>2. /\ \A e \in Events : mirror'[e] # 0 => mirror'[e] \in DOMAIN messages'
          /\ \A e, f \in Events : mirror'[e] = mirror'[f] /\ mirror'[e] # 0 => e = f
          /\ \A g, h \in Hands : hand'[g].step = "record" /\ hand'[h].step = "record" /\ hand'[g].message = hand'[h].message => g = h
      BY <2>1, <2>3
    <3>3. QED
      BY <1>5, <2>1, <3>1, <3>2, SMTT(30) DEF HeldInv
<1>11. SaysInv'
  <2>1. UNCHANGED <<site, shut, mirror, cursor, crossed, unheard, faults>> /\ \A m \in DOMAIN messages : messages'[m] = messages[m]
    BY <1>2
  <2>2. \A d \in Settled("post")' : d \in Settled("post")
    BY <1>6
  <2>3. work.step # "recordRow"
    OBVIOUS
  <2>4. QED
    BY <1>5, <2>1, <2>2, <2>3, SaysStands
<1>14. QED
  BY <1>7, <1>8, <1>9, <1>10, <1>11 DEF AnnouncementsHold

LEMMA NoticeHolds ==
  ASSUME AnnouncementsHold, Notice
  PROVE  AnnouncementsHold'
<1>1. /\ AnnouncementTypes /\ WorkInv /\ cursor < Len(outbox) /\ cursor \in Nat
      /\ work.step = "notice" /\ UNCHANGED <<pollVars, site, server, messages, records, hand, pasts>>
  BY SeekingHeld DEF Notice
<1>2. CASE Settled("notice") # {} \/ shut
  <2>1. Handled /\ UNCHANGED notices
    BY <1>2 DEF Notice
  <2>2. /\ UNCHANGED <<site, follows, bound, shut, messages, notices, mirror, delivered, hand, crossed, unheard, faults, features>>
        /\ features \subseteq {"new", "changes"} /\ unheard \subseteq Events /\ DeliversMore
    BY <1>1, <2>1 DEF pasts, pollVars, spent, server, records, AnnouncementTypes, DeliversMore
  <2>3. \A e : ~Awaited(e)
    BY <1>1 DEF Awaited
  <2>4. QED
    BY <1>1, <2>1, <2>2, <2>3, EntryIsDone
<1>3. CASE ~(Settled("notice") # {} \/ shut)
  BY <1>1, <1>3, NoticeIsPosted DEF Notice
<1>4. QED
  BY <1>2, <1>3

LEMMA RecordNoticeHolds ==
  ASSUME AnnouncementsHold, RecordNotice
  PROVE  AnnouncementsHold'
<1>1. /\ AnnouncementTypes /\ WorkInv /\ cursor < Len(outbox) /\ cursor \in Nat /\ work \in Work
      /\ work.step = "recordNotice" /\ UNCHANGED <<pollVars, site, server, channel, mirror, hand, pasts>> /\ Handled
  BY SeekingHeld DEF RecordNotice
<1>2. PICK D : D = [entry |-> cursor + 1, purpose |-> "notice", message |-> work.message]
  OBVIOUS
<1>3. D \in Delivery /\ D.entry = cursor + 1 /\ D.purpose = "notice" /\ delivered' = delivered \cup {D}
  BY <1>1, <1>2 DEF RecordNotice, Delivers, Delivery, Work
<1>4. DeliversMore
  BY <1>3 DEF DeliversMore
<1>5. /\ UNCHANGED <<site, follows, bound, shut, messages, notices, mirror, hand, crossed, unheard, faults, features>>
      /\ features \subseteq {"new", "changes"} /\ unheard \subseteq Events
  BY <1>1 DEF pasts, pollVars, spent, server, channel, AnnouncementTypes
<1>6. \A e : ~Awaited(e)
  BY <1>1 DEF Awaited
<1>7. QED
  BY <1>1, <1>4, <1>5, <1>6, EntryIsDone

-----------------------------------------------------------------------------
(* An announcement is posted again.                                         *)

LEMMA PostsAgainHolds ==
  ASSUME AnnouncementsHold, NEW h0 \in Hands, PostsAgain(h0)
  PROVE  AnnouncementsHold'
<1>1. /\ AnnouncementTypes /\ LogInv /\ WorkInv /\ HeldInv /\ SaysInv
      /\ hand \in [Hands -> Press] /\ hand[h0] \in Press /\ cursor \in Nat /\ faults \in Nat
  BY DEF AnnouncementsHold, AnnouncementTypes
<1>2. /\ UNCHANGED <<event, pattern, outbox, follows, features, bound, shut, notices, mirror, delivered,
                     cursor, work, crossed, unheard, faults, Now>>
      /\ UNCHANGED <<site, records, handler, pasts>>
  BY DEF PostsAgain, Now, site, server, records, handler, pasts, pollVars, spent
<1>3. PICK p : p = hand[h0]
  OBVIOUS
<1>4. p \in Press /\ p.step = "act" /\ ~p.read.private /\ messages' = Announced(CardOf(p.of, p.read), 0)
      /\ hand' = [hand EXCEPT ![h0].step = "record", ![h0].message = Len(messages) + 1]
  BY <1>1, <1>3 DEF PostsAgain
<1>5. CardOf(p.of, p.read) \in Card
  BY <1>4, NothingIsTyped DEF CardOf, Card, Press
<1>6. PICK x : x = [shows |-> CardOf(p.of, p.read), entry |-> 0, gone |-> FALSE]
  OBVIOUS
<1>7. x \in Message /\ x.shows = CardOf(p.of, p.read) /\ x.entry = 0 /\ messages' = Append(messages, x)
  BY <1>4, <1>5, <1>6 DEF Message, Announced
<1>8. /\ messages' \in Seq(Message) /\ Len(messages) \in Nat
      /\ DOMAIN messages = 1..Len(messages) /\ DOMAIN messages' = 1..(Len(messages) + 1)
      /\ \A m \in DOMAIN messages : messages'[m] = messages[m] /\ m # Len(messages) + 1
      /\ messages'[Len(messages) + 1] = x
      /\ \A e \in Events : mirror[e] # Len(messages) + 1
      /\ \A m : Loose(m) \/ m = Len(messages) + 1 => Loose(m)'
      /\ \A n : x.entry # n => PostedFor(n)' = PostedFor(n)
  <2>1. \A e \in Events : mirror[e] # 0 => mirror[e] \in DOMAIN messages
    BY <1>1 DEF HeldInv
  <2>2. QED
    BY <1>1, <1>2, <1>7, <2>1, MessagesGrow
<1>9. PICK k \in Nat : k = Len(messages) + 1
  BY <1>8
<1>10. PICK new : new = [p EXCEPT !.step = "record", !.message = k]
  OBVIOUS
<1>11. /\ new \in Press /\ new.step = "record" /\ new.message = k /\ new.of = p.of /\ new.read = p.read
       /\ hand' = [hand EXCEPT ![h0] = new]
  BY <1>1, <1>3, <1>4, <1>9, <1>10 DEF Press
<1>12. hand' \in [Hands -> Press] /\ hand'[h0] = new /\ \A h \in Hands : h # h0 => hand'[h] = hand[h]
  BY <1>1, <1>11
<1>13. AnnouncementTypes'
  BY <1>1, <1>2, <1>8, <1>12 DEF AnnouncementTypes
<1>14. LogInv'
  <2>1. event[1].state # "none"
    BY <1>1, <1>3, <1>4 DEF LogInv, Unborn
  <2>2. QED
    BY <1>1, <1>2, <2>1, LogStands
<1>15. WorkInv'
  BY <1>1, <1>2 DEF WorkInv, Posting, NewEntry, HasNotice
<1>16. \A q : Settled(q)' = Settled(q)
  BY <1>2 DEF Settled
<1>17. HeldInv'
  <2>1. \A h \in Hands \ {h0} : hand[h].step = "record" =>
          /\ hand[h].message \in DOMAIN messages /\ hand[h].message # k
          /\ Loose(hand[h].message)
          /\ messages[hand[h].message].entry = 0
          /\ messages[hand[h].message].shows = CardOf(hand[h].of, hand[h].read)
          /\ ~hand[h].read.private
    BY <1>1, <1>8, <1>9 DEF HeldInv, Loose
  <2>2. ASSUME NEW h \in Hands, hand'[h].step = "record"
        PROVE  /\ Loose(hand[h].message)'
               /\ messages'[hand'[h].message].entry = 0
               /\ (messages[hand[h].message].shows = CardOf(hand[h].of, hand[h].read))'
               /\ ~hand'[h].read.private
    <3>1. PICK q : q = hand'[h]
      OBVIOUS
    <3>2. Loose(q.message)' /\ messages'[q.message].entry = 0 /\ messages'[q.message].shows = CardOf(q.of, q.read) /\ ~q.read.private
      <4>1. CASE h = h0
        BY <1>4, <1>7, <1>8, <1>9, <1>11, <1>12, <3>1, <4>1
      <4>2. CASE h # h0
        <5>1. q = hand[h]
          BY <1>12, <3>1, <4>2
        <5>2. q.message \in DOMAIN messages /\ Loose(q.message) /\ messages[q.message].entry = 0
              /\ messages[q.message].shows = CardOf(q.of, q.read) /\ ~q.read.private
          BY <2>1, <2>2, <3>1, <4>2, <5>1
        <5>3. QED
          BY <1>8, <5>2
      <4>3. QED
        BY <4>1, <4>2
    <3>3. QED
      BY <3>1, <3>2 DEF CardOf, Loose
  <2>3. \A g, h \in Hands : hand'[g].step = "record" /\ hand'[h].step = "record" /\ hand'[g].message = hand'[h].message => g = h
    BY <1>1, <1>11, <1>12, <2>1 DEF HeldInv
  <2>4. /\ \A e \in Events : mirror[e] # 0 => mirror[e] \in DOMAIN messages'
        /\ \A e, f \in Events : mirror[e] = mirror[f] /\ mirror[e] # 0 => e = f
    BY <1>1, <1>8 DEF HeldInv
  <2>5. Posted' => Loose(work.message)' /\ messages'[work'.message].entry = cursor' + 1 /\ messages'[work'.message].shows = work'.shows
    <3>1. PICK m : m = work.message
      OBVIOUS
    <3>2. Posted' => Posted
      BY <1>2 DEF Posted
    <3>3. Posted => Loose(m) /\ m \in DOMAIN messages /\ messages[m].entry = cursor + 1 /\ messages[m].shows = work.shows
      BY <1>1, <3>1 DEF HeldInv, Loose
    <3>4. Posted => Loose(m)' /\ messages'[m].entry = cursor + 1 /\ messages'[m].shows = work.shows
      BY <1>8, <3>3
    <3>5. QED
      BY <1>2, <3>1, <3>2, <3>4 DEF Loose
  <2>6. \A d \in Settled("post") : Loose(d.message)' /\ messages'[d.message].entry = cursor + 1
    <3>1. ASSUME NEW d \in Settled("post") PROVE Loose(d.message)' /\ messages'[d.message].entry = cursor + 1
      <4>1. PICK m : m = d.message
        OBVIOUS
      <4>2. Loose(m) /\ m \in DOMAIN messages /\ messages[m].entry = cursor + 1
        BY <1>1, <4>1 DEF HeldInv, Loose
      <4>3. QED
        BY <1>8, <4>1, <4>2
    <3>2. QED
      BY <3>1
  <2>7. work'.step = "edit" => /\ work'.message \in DOMAIN messages'
                               /\ (work.found \in AboutOf(Now))'
                               /\ \A e \in Events : mirror'[e] = work'.message => e = work'.found
                               /\ \A h \in Hands : hand'[h].step = "record" => hand'[h].message # work'.message
    <3>1. work.step = "edit" => /\ work.message \in DOMAIN messages /\ work.message # k
                                /\ work.found \in AboutOf(Now)
                                /\ \A e \in Events : mirror[e] = work.message => e = work.found
                                /\ \A h \in Hands : hand[h].step = "record" => hand[h].message # work.message
      BY <1>1, <1>8, <1>9 DEF HeldInv
    <3>2. QED
      BY <1>2, <1>8, <1>11, <1>12, <3>1 DEF AboutOf, SeriesEntry
  <2>8. QED
    BY <1>2, <1>16, <2>2, <2>3, <2>4, <2>5, <2>6, <2>7 DEF HeldInv
<1>18. SaysInv'
  <2>1. \A e \in Kept' : Awaited(e) => Awaited(e)'
    BY <1>2 DEF Awaited, NewEntry, AboutOf, SeriesEntry, Settled
  <2>2. (Seeking' => Seeking /\ work' = work) /\ (Posting' => Posting /\ work'.shows = work.shows)
        /\ (work.step = "recordRow" => work'.step = "recordRow")
    BY <1>2 DEF Seeking, Posting
  <2>3. UNCHANGED <<site, shut, mirror, cursor, crossed, unheard, faults>> /\ \A m \in DOMAIN messages : messages'[m] = messages[m]
    BY <1>2, <1>8
  <2>4. \A d \in Settled("post")' : d \in Settled("post")
    BY <1>16
  <2>5. QED
    BY <2>1, <2>2, <2>3, <2>4, SaysStands
<1>21. QED
  BY <1>13, <1>14, <1>15, <1>17, <1>18 DEF AnnouncementsHold

LEMMA RecordsAgainHolds ==
  ASSUME AnnouncementsHold, NEW h0 \in Hands, RecordsAgain(h0)
  PROVE  AnnouncementsHold'
<1>1. /\ AnnouncementTypes /\ LogInv /\ WorkInv /\ HeldInv /\ SaysInv
      /\ hand \in [Hands -> Press] /\ mirror \in [Events -> Nat] /\ cursor \in Nat /\ faults \in Nat
  BY DEF AnnouncementsHold, AnnouncementTypes
<1>2. /\ UNCHANGED <<event, pattern, outbox, follows, features, bound, shut, messages, notices, delivered,
                     cursor, work, unheard, faults, Now>>
      /\ UNCHANGED site
  BY DEF RecordsAgain, Now, site, server, channel, handler, pollVars, spent
<1>3. PICK p \in Press : p = hand[h0]
  BY <1>1
<1>4. PICK e0 \in Events : e0 = p.of
  BY DEF Press
<1>5. PICK m0 \in Nat : m0 = p.message
  BY DEF Press
<1>6. /\ p.step = "record" /\ Loose(m0) /\ m0 \in DOMAIN messages /\ messages[m0].entry = 0
      /\ messages[m0].shows = CardOf(e0, p.read) /\ ~p.read.private
  BY <1>1, <1>3, <1>4, <1>5 DEF HeldInv, RecordsAgain, Loose
<1>7. /\ mirror' = [mirror EXCEPT ![e0] = m0] /\ hand' = [hand EXCEPT ![h0] = NoHand]
      /\ crossed' = IF event[e0] # p.read THEN crossed \cup {m0} ELSE crossed
  BY <1>3, <1>4, <1>5 DEF RecordsAgain
<1>8. /\ mirror' \in [Events -> Nat] /\ mirror'[e0] = m0 /\ \A e \in Events : e # e0 => mirror'[e] = mirror[e]
      /\ hand' \in [Hands -> Press] /\ hand'[h0].step = "idle" /\ \A h \in Hands : h # h0 => hand'[h] = hand[h]
  BY <1>1, <1>7, NothingIsTyped
<1>9. crossed \subseteq crossed' /\ crossed' \subseteq DOMAIN messages /\ (m0 \notin crossed' => event[e0] = p.read)
  BY <1>1, <1>6, <1>7 DEF AnnouncementTypes
<1>10. m0 # 0
  BY <1>1, <1>6 DEF AnnouncementTypes
<1>11. \A q : Settled(q)' = Settled(q)
  BY <1>2 DEF Settled
<1>12. AnnouncementTypes'
  BY <1>1, <1>2, <1>8, <1>9 DEF AnnouncementTypes
<1>13. LogInv'
  <2>1. event[1].state # "none"
    BY <1>1, <1>3, <1>6 DEF LogInv, Unborn
  <2>2. QED
    BY <1>1, <1>2, <2>1, LogStands
<1>14. WorkInv'
  BY <1>1, <1>2 DEF WorkInv, Posting, NewEntry, HasNotice
<1>15. HeldInv'
  <2>1. \A m : Loose(m) /\ m # m0 => Loose(m)'
    BY <1>2, <1>8 DEF Loose
  <2>2. ASSUME NEW h \in Hands, hand'[h].step = "record"
        PROVE  /\ Loose(hand[h].message)'
               /\ messages'[hand'[h].message].entry = 0
               /\ (messages[hand[h].message].shows = CardOf(hand[h].of, hand[h].read))'
               /\ ~hand'[h].read.private
    <3>1. PICK q : q = hand[h]
      OBVIOUS
    <3>2. h # h0 /\ hand'[h] = q /\ q.step = "record" /\ q.message # m0
      BY <1>1, <1>3, <1>5, <1>6, <1>8, <2>2, <3>1 DEF HeldInv
    <3>3. Loose(q.message) /\ messages[q.message].entry = 0 /\ messages[q.message].shows = CardOf(q.of, q.read) /\ ~q.read.private
      BY <1>1, <3>1, <3>2 DEF HeldInv
    <3>4. QED
      BY <1>2, <2>1, <3>2, <3>3 DEF CardOf, Loose
  <2>3. \A g, h \in Hands : hand'[g].step = "record" /\ hand'[h].step = "record" /\ hand'[g].message = hand'[h].message => g = h
    BY <1>1, <1>8 DEF HeldInv
  <2>4. \A e \in Events : mirror'[e] # 0 => mirror'[e] \in DOMAIN messages'
    BY <1>1, <1>2, <1>6, <1>8 DEF HeldInv
  <2>5. \A e, f \in Events : mirror'[e] = mirror'[f] /\ mirror'[e] # 0 => e = f
    BY <1>1, <1>6, <1>8 DEF HeldInv, Loose
  <2>6. Posted' => Loose(work.message)' /\ messages'[work'.message].entry = cursor' + 1 /\ messages'[work'.message].shows = work'.shows
    <3>1. PICK m : m = work.message
      OBVIOUS
    <3>2. Posted' => Posted
      BY <1>2 DEF Posted
    <3>3. Posted => Loose(m) /\ m # m0 /\ messages[m].entry = cursor + 1 /\ messages[m].shows = work.shows
      BY <1>1, <1>6, <3>1 DEF HeldInv
    <3>4. QED
      BY <1>2, <2>1, <3>1, <3>2, <3>3 DEF Loose
  <2>7. \A d \in Settled("post") : Loose(d.message)' /\ messages'[d.message].entry = cursor + 1
    <3>1. \A d \in Settled("post") : Loose(d.message) /\ messages[d.message].entry = cursor + 1 /\ d.message # m0
      BY <1>1, <1>6 DEF HeldInv
    <3>2. QED
      BY <1>2, <1>8, <3>1 DEF Loose
  <2>8. work'.step = "edit" => /\ work'.message \in DOMAIN messages'
                               /\ (work.found \in AboutOf(Now))'
                               /\ \A e \in Events : mirror'[e] = work'.message => e = work'.found
                               /\ \A h \in Hands : hand'[h].step = "record" => hand'[h].message # work'.message
    <3>1. work.step = "edit" => /\ work.message \in DOMAIN messages /\ work.message # m0
                                /\ work.found \in AboutOf(Now)
                                /\ \A e \in Events : mirror[e] = work.message => e = work.found
                                /\ \A h \in Hands : hand[h].step = "record" => hand[h].message # work.message
      BY <1>1, <1>3, <1>5, <1>6 DEF HeldInv
    <3>2. QED
      BY <1>2, <1>8, <3>1 DEF AboutOf, SeriesEntry
  <2>9. QED
    BY <1>2, <1>11, <2>2, <2>3, <2>4, <2>5, <2>6, <2>7, <2>8 DEF HeldInv
<1>16. SaysInv'
  <2>1. \A e \in Events : e # e0 => ShownOf(e)' = ShownOf(e) /\ (messages[mirror[e]].entry)' = messages[mirror[e]].entry
    BY <1>2, <1>8 DEF ShownOf
  <2>2. PICK s : s = CardOf(e0, p.read)
    OBVIOUS
  <2>3. s.what = "event" /\ s.of = e0 /\ s.event = p.read
    BY <2>2, NothingIsTyped DEF CardOf, Card
  <2>4. ShownOf(e0)' = s
    BY <1>2, <1>6, <1>8, <2>2 DEF ShownOf
  <2>5. ASSUME NEW e \in Kept'
        PROVE  So(e)' \/ Overtaken(e, cursor + 1)' \/ Awaited(e)'
    <3>1. e \in Events
      BY DEF Kept
    <3>2. CASE e = e0
      <4>1. event[e0] = p.read
        BY <1>8, <1>9, <3>2 DEF Kept
      <4>2. Right(e, ShownOf(e))'
        BY <1>2, <1>6, <2>3, <2>4, <3>2, <4>1 DEF Right
      <4>3. QED
        BY <2>3, <2>4, <3>2, <4>2 DEF So
    <3>3. CASE e # e0
      <4>1. e \in Kept
        BY <1>2, <1>8, <1>9, <3>1, <3>3 DEF Kept
      <4>2. So(e) => So(e)'
        <5>1. faults <= faults' /\ faults' \in Nat
          BY <1>1, <1>2
        <5>2. ShownOf(e)' = ShownOf(e) /\ (messages[mirror[e]].entry)' = messages[mirror[e]].entry
          BY <2>1, <3>1, <3>3
        <5>3. QED
          BY <1>1, <1>2, <3>1, <5>1, <5>2, SoStands
      <4>3. Overtaken(e, cursor + 1) => Overtaken(e, cursor + 1)'
        BY <1>2 DEF Overtaken, NewEntry, AboutOf, SeriesEntry
      <4>4. Awaited(e) => Awaited(e)'
        BY <1>2, <1>8, <1>11, <3>1, <3>3 DEF Awaited, NewEntry, AboutOf, SeriesEntry
      <4>5. QED
        BY <1>1, <4>1, <4>2, <4>3, <4>4 DEF SaysInv, ShownInv
    <3>4. QED
      BY <3>2, <3>3
  <2>6. Seeking' => SeeksRightly'
    <3>1. Seeking' => Seeking /\ SeeksRightly
      BY <1>1, <1>2 DEF SaysInv, Seeking
    <3>2. QED
      BY <1>2, <1>6, <1>8, <3>1 DEF SeeksRightly, Right, Overtaken, AboutOf, SeriesEntry, NewEntry
  <2>7. Posting' => PostsRightly'
    BY <1>1, <1>2, SMTT(30) DEF SaysInv, Posting, PostsRightly, AsItWas, Right, Overtaken, AboutOf, SeriesEntry, NewEntry
  <2>8. SettledRightly'
    <3>1. SettledRightly
      BY <1>1 DEF SaysInv
    <3>2. QED
      BY <1>2, <1>11, <3>1, ZenonT(30) DEF SettledRightly, AsItWas, Right, Overtaken, AboutOf, SeriesEntry, NewEntry
  <2>9. FirstInv'
    BY <1>1, <1>2, <1>6, <1>8 DEF SaysInv, FirstInv
  <2>10. QED
    BY <2>5, <2>6, <2>7, <2>8, <2>9 DEF SaysInv, ShownInv
<1>19. QED
  BY <1>12, <1>13, <1>14, <1>15, <1>16 DEF AnnouncementsHold

-----------------------------------------------------------------------------
(* What holds however often an entry is taken again.                         *)

\* Whatever names a message or an entry names one there is.
NamedInv ==
  /\ \A e \in Events : mirror[e] # 0 => mirror[e] \in DOMAIN messages
  /\ \A h \in Hands : hand[h].step = "record" => hand[h].message \in DOMAIN messages
  /\ \A d \in delivered : d.entry \in DOMAIN outbox /\ (d.purpose = "post" => d.message \in DOMAIN messages)
  /\ \A i \in DOMAIN notices : notices[i] \in DOMAIN outbox

\* What the handler holds is of the entry after the cursor.
AtHand ==
  /\ cursor <= Len(outbox) /\ (work.step # "idle" => cursor < Len(outbox))
  /\ Posting => NewEntry(Now)
  /\ Posted => work.message \in DOMAIN messages
  /\ work.step = "recordNotice" => cursor + 1 \in Range(notices)
  /\ work.step \in {"edit", "recordEdit"} /\ HasNotice(Now) => mirror[Now.of] # 0

\* A message, or a notice, is posted for an entry once beyond the faults: the once is
\* recorded, or about to be.
One(b) == IF b THEN 1 ELSE 0
PostMade(n) == \/ \E d \in delivered : d.entry = n /\ d.purpose = "post"
               \/ n = cursor + 1 /\ work.step = "recordPost"
NoticeMade(n) == \/ \E d \in delivered : d.entry = n /\ d.purpose = "notice"
                 \/ n = cursor + 1 /\ work.step = "recordNotice"
OnceInv == \A n \in Nat \ {0} :
  /\ Cardinality(PostedFor(n)) <= faults + One(PostMade(n))
  /\ Cardinality(NoticesFor(n)) <= faults + One(NoticeMade(n))

\* A notice that is owed for an edit comes before the next entry.
Excused(n) == shut \/ outbox[n].of \in unheard \/ n \in Range(notices)
NoticeInv ==
  /\ \A d \in delivered : d.purpose = "notice" => d.entry \in Range(notices)
  /\ \A d \in delivered : d.purpose = "edit" /\ HasNotice(outbox[d.entry]) =>
       mirror[outbox[d.entry].of] # 0 /\ (d.entry <= cursor => Excused(d.entry))

Always == AnnouncementTypes /\ LogInv /\ NamedInv /\ AtHand /\ OnceInv /\ NoticeInv

\* A step that posts nothing: what it records is of the entry at hand, it forgets a
\* post that is not recorded only as something fails, and it goes on to the next
\* entry only where no notice is owed.
Fits(d) ==
  /\ d.entry = cursor + 1 /\ cursor < Len(outbox)
  /\ d.purpose = "post" => d.message \in DOMAIN messages
  /\ d.purpose = "notice" => cursor + 1 \in Range(notices)
  /\ d.purpose = "edit" /\ HasNotice(Now) => mirror[Now.of] # 0
Remembered(step, purpose) == work.step = step =>
  \/ work' = work /\ cursor' = cursor
  \/ faults' > faults
  \/ \E d \in delivered' : d.entry = cursor + 1 /\ d.purpose = purpose
Excuses ==
  /\ cursor' = cursor + 1
  /\ \A d \in delivered' : d.entry = cursor + 1 /\ d.purpose = "edit" /\ HasNotice(Now) =>
       shut' \/ Now.of \in unheard' \/ cursor + 1 \in Range(notices)
Careful ==
  /\ UNCHANGED <<site, notices>> /\ AnnouncementTypes' /\ AtHand'
  /\ Len(messages') = Len(messages) /\ \A m \in DOMAIN messages : messages'[m].entry = messages[m].entry
  /\ faults <= faults' /\ (shut => shut') /\ unheard \subseteq unheard'
  /\ \A e \in Events : mirror'[e] = mirror[e] \/ mirror'[e] \in DOMAIN messages
  /\ \A h \in Hands : hand'[h].step = "record" => hand'[h] = hand[h]
  /\ event[1].state = "none" => UNCHANGED mirror /\ \A h \in Hands : hand'[h].step = "idle"
  /\ delivered \subseteq delivered' /\ \A d \in delivered' \ delivered : Fits(d)
  /\ Remembered("recordPost", "post") /\ Remembered("recordNotice", "notice")
  /\ cursor' <= cursor \/ Excuses

LEMMA OnceStands ==
  ASSUME AnnouncementTypes, AnnouncementTypes', OnceInv, faults <= faults',
         \A n : PostedFor(n)' = PostedFor(n) /\ NoticesFor(n)' = NoticesFor(n),
         \A n \in Nat \ {0} : PostMade(n) => PostMade(n)' \/ faults' > faults,
         \A n \in Nat \ {0} : NoticeMade(n) => NoticeMade(n)' \/ faults' > faults
  PROVE  OnceInv'
<1>1. faults \in Nat /\ faults' \in Nat
  BY DEF AnnouncementTypes
<1>2. ASSUME NEW n \in Nat \ {0}
      PROVE  Cardinality(PostedFor(n)') <= faults' + One(PostMade(n)')
  <2>1. Cardinality(PostedFor(n)) \in Nat /\ Cardinality(PostedFor(n)) <= faults + One(PostMade(n))
    BY PostedAreFinite DEF OnceInv
  <2>2. One(PostMade(n)) <= One(PostMade(n)') \/ faults < faults'
    BY DEF One
  <2>3. One(PostMade(n)) \in 0..1 /\ One(PostMade(n)') \in 0..1
    BY DEF One
  <2>4. QED
    BY <1>1, <2>1, <2>2, <2>3
<1>3. ASSUME NEW n \in Nat \ {0}
      PROVE  Cardinality(NoticesFor(n)') <= faults' + One(NoticeMade(n)')
  <2>1. Cardinality(NoticesFor(n)) \in Nat /\ Cardinality(NoticesFor(n)) <= faults + One(NoticeMade(n))
    BY PostedAreFinite DEF OnceInv
  <2>2. One(NoticeMade(n)) <= One(NoticeMade(n)') \/ faults < faults'
    BY DEF One
  <2>3. One(NoticeMade(n)) \in 0..1 /\ One(NoticeMade(n)') \in 0..1
    BY DEF One
  <2>4. QED
    BY <1>1, <2>1, <2>2, <2>3
<1>4. QED
  BY <1>2, <1>3 DEF OnceInv, One

LEMMA CarefulHolds ==
  ASSUME Always, Careful
  PROVE  Always'
<1>1. /\ AnnouncementTypes /\ LogInv /\ NamedInv /\ AtHand /\ OnceInv /\ NoticeInv /\ AnnouncementTypes' /\ AtHand'
      /\ UNCHANGED <<event, pattern, outbox, notices>>
  BY DEF Always, Careful, site
<1>2. /\ messages \in Seq(Message) /\ messages' \in Seq(Message) /\ Len(messages') = Len(messages)
      /\ DOMAIN messages' = DOMAIN messages /\ faults \in Nat /\ faults' \in Nat /\ faults <= faults'
      /\ 0 \notin DOMAIN messages /\ cursor \in Nat /\ Len(outbox) \in Nat /\ DOMAIN outbox = 1..Len(outbox)
  BY <1>1 DEF AnnouncementTypes, Careful
<1>3. cursor' \in Nat /\ (cursor < Len(outbox) => cursor + 1 \in DOMAIN outbox)
  BY <1>1, <1>2 DEF AnnouncementTypes
<1>4. LogInv'
  BY <1>1, LogStands DEF Careful
<1>5. \A d \in delivered' : d \in delivered \/ Fits(d)
  BY DEF Careful
<1>6. NamedInv'
  <2>1. \A d \in delivered' : d.entry \in DOMAIN outbox /\ (d.purpose = "post" => d.message \in DOMAIN messages)
    BY <1>1, <1>3, <1>5 DEF NamedInv, Fits
  <2>2. \A h \in Hands : hand'[h].step = "record" => hand'[h].message \in DOMAIN messages
    BY <1>1 DEF Careful, NamedInv
  <2>3. \A e \in Events : mirror'[e] # 0 => mirror'[e] \in DOMAIN messages
    BY <1>1 DEF Careful, NamedInv
  <2>4. QED
    BY <1>1, <1>2, <2>1, <2>2, <2>3 DEF NamedInv
<1>7. OnceInv'
  <2>1. ASSUME NEW n \in Nat \ {0}
        PROVE  /\ PostMade(n) => PostMade(n)' \/ faults' > faults
               /\ NoticeMade(n) => NoticeMade(n)' \/ faults' > faults
    <3>1. ASSUME PostMade(n) PROVE PostMade(n)' \/ faults' > faults
      BY <3>1 DEF Careful, PostMade, Remembered
    <3>2. ASSUME NoticeMade(n) PROVE NoticeMade(n)' \/ faults' > faults
      BY <3>2 DEF Careful, NoticeMade, Remembered
    <3>3. QED
      BY <3>1, <3>2
  <2>2. \A n : PostedFor(n)' = PostedFor(n) /\ NoticesFor(n)' = NoticesFor(n)
    BY <1>1, <1>2 DEF PostedFor, NoticesFor, Careful
  <2>3. QED
    BY <1>1, <1>2, <2>1, <2>2, OnceStands
<1>8. NoticeInv'
  <2>1. \A d \in delivered' : d.purpose = "notice" => d.entry \in Range(notices)
    BY <1>1, <1>5 DEF NoticeInv, Fits
  <2>2. ASSUME NEW d \in delivered', d.purpose = "edit", HasNotice(outbox[d.entry])
        PROVE  /\ mirror'[outbox[d.entry].of] # 0
               /\ d.entry <= cursor' => shut' \/ outbox[d.entry].of \in unheard' \/ d.entry \in Range(notices)
    <3>1. d \in Delivery /\ d.entry \in Nat /\ Now = outbox[cursor + 1]
      BY <1>1 DEF AnnouncementTypes, Delivery, Now
    <3>2. d.entry \in DOMAIN outbox /\ outbox[d.entry].of \in Events
      <4>1. d.entry \in DOMAIN outbox
        BY <1>1, <1>3, <1>5 DEF NamedInv, Fits
      <4>2. PICK x \in Entry : x = outbox[d.entry]
        BY <1>1, <4>1 DEF AnnouncementTypes
      <4>3. x.of \in Events
        BY DEF Entry
      <4>4. QED
        BY <4>1, <4>2, <4>3
    <3>3. mirror[outbox[d.entry].of] # 0
      BY <1>1, <1>5, <2>2, <3>1 DEF NoticeInv, Fits
    <3>4. mirror'[outbox[d.entry].of] # 0
      BY <1>2, <3>2, <3>3 DEF Careful
    <3>5. ASSUME d.entry <= cursor'
          PROVE  shut' \/ outbox[d.entry].of \in unheard' \/ d.entry \in Range(notices)
      <4>1. CASE d.entry = cursor + 1
        <5>1. Excuses
          BY <1>2, <1>3, <3>5, <4>1 DEF Careful
        <5>2. QED
          BY <2>2, <3>1, <4>1, <5>1 DEF Excuses
      <4>2. CASE d.entry # cursor + 1
        <5>1. d \in delivered
          BY <1>5, <4>2 DEF Fits
        <5>2. d.entry <= cursor
          BY <1>2, <1>3, <3>1, <3>5, <4>2 DEF Careful, Excuses
        <5>3. QED
          BY <1>1, <2>2, <5>1, <5>2 DEF Careful, NoticeInv, Excused
      <4>3. QED
        BY <4>1, <4>2
    <3>6. QED
      BY <3>4, <3>5
  <2>3. QED
    BY <1>1, <2>1, <2>2 DEF NoticeInv, Excused, HasNotice
<1>9. QED
  BY <1>1, <1>4, <1>6, <1>7, <1>8 DEF Always

\* What fails, and whatever leaves the announcements alone.
LEMMA ForgettingHolds ==
  ASSUME Always, Forgets
  PROVE  Always'
<1>1. /\ AnnouncementTypes /\ AtHand /\ AnnouncementTypes'
      /\ cursor \in Nat /\ cursor' \in Nat /\ Len(outbox) \in Nat
      /\ UNCHANGED <<event, outbox, notices, mirror, delivered, unheard>>
      /\ DOMAIN messages' = DOMAIN messages
  BY DEF Always, Forgets, AnnouncementTypes, site, records, pasts
<1>2. AtHand'
  <2>1. CASE work' = work /\ cursor' = cursor
    BY <1>1, <2>1 DEF AtHand, Posting, Posted, Now, NewEntry, HasNotice
  <2>2. CASE work'.step = "idle" /\ cursor' <= cursor
    BY <1>1, <2>2 DEF AtHand, Posting, Posted
  <2>3. QED
    BY <1>1, <2>1, <2>2, NothingIsTyped DEF Forgets
<1>3. Remembered("recordPost", "post") /\ Remembered("recordNotice", "notice") /\ cursor' <= cursor
  BY <1>1 DEF Forgets, Remembered
<1>4. event[1].state = "none" => \A h \in Hands : hand'[h].step = "idle"
  BY DEF Forgets, Always, LogInv, Unborn
<1>5. Careful
  BY <1>1, <1>2, <1>3, <1>4 DEF Careful, Forgets
<1>6. QED
  BY <1>5, CarefulHolds

\* An entry is written.
LEMMA GrowingHolds ==
  ASSUME Always, NEW x \in Entry, Grows(x)
  PROVE  Always'
<1>1. /\ AnnouncementTypes /\ LogInv /\ NamedInv /\ AtHand /\ OnceInv /\ NoticeInv
      /\ AnnouncementTypes' /\ LogInv'
  BY TypesGrow, LogGrows DEF Always
<1>2. /\ Len(outbox') = Len(outbox) + 1 /\ Len(outbox) \in Nat
      /\ DOMAIN outbox = 1..Len(outbox) /\ DOMAIN outbox' = 1..(Len(outbox) + 1)
      /\ \A n \in DOMAIN outbox : outbox'[n] = outbox[n]
      /\ cursor \in Nat /\ (cursor < Len(outbox) => Now' = Now)
      /\ UNCHANGED <<shut, messages, notices, mirror, delivered, cursor, work, unheard, faults>>
      /\ \A h \in Hands : hand'[h] = hand[h] \/ hand'[h].step = "idle"
  BY <1>1, EntriesStand
<1>3. DOMAIN outbox \subseteq DOMAIN outbox'
  BY <1>2
<1>4. NamedInv'
  BY <1>1, <1>2, <1>3 DEF NamedInv
<1>5. AtHand'
  <2>1. cursor' <= Len(outbox') /\ (work'.step # "idle" => cursor' < Len(outbox') /\ Now' = Now)
    BY <1>1, <1>2 DEF AtHand
  <2>2. QED
    BY <1>1, <1>2, <2>1 DEF AtHand, Posting, Posted, NewEntry, HasNotice
<1>6. OnceInv'
  BY <1>1, <1>2 DEF OnceInv, PostedFor, NoticesFor, PostMade, NoticeMade
<1>7. NoticeInv'
  BY <1>1, <1>2 DEF NoticeInv, NamedInv, Excused, HasNotice
<1>8. QED
  BY <1>1, <1>4, <1>5, <1>6, <1>7 DEF Always

\* Where the handler is at an entry.
LEMMA AtEntry ==
  ASSUME Always, cursor < Len(outbox)
  PROVE  /\ AnnouncementTypes /\ LogInv /\ NamedInv /\ AtHand /\ OnceInv /\ NoticeInv
         /\ cursor \in Nat /\ Len(outbox) \in Nat /\ cursor + 1 <= Len(outbox)
         /\ Now \in Entry /\ Now.of \in Events /\ event[1].state # "none"
         /\ work \in Work /\ work.shows \in Card /\ work.shows.of \in Events
         /\ unheard \subseteq Events /\ features \subseteq {"new", "changes"}
         /\ mirror \in [Events -> Nat] /\ delivered \subseteq Delivery
<1>1. /\ AnnouncementTypes /\ LogInv /\ NamedInv /\ AtHand /\ OnceInv /\ NoticeInv
  BY DEF Always
<1>2. /\ cursor \in Nat /\ Len(outbox) \in Nat /\ work \in Work /\ unheard \subseteq Events
      /\ features \subseteq {"new", "changes"} /\ mirror \in [Events -> Nat] /\ delivered \subseteq Delivery
  BY <1>1 DEF AnnouncementTypes
<1>3. Now \in Entry /\ event[1].state # "none" /\ Now.of \in Events
  BY <1>1, SomethingIsOn DEF Entry
<1>4. work.shows \in Card /\ work.shows.of \in Events
  BY <1>2 DEF Work, Card
<1>5. QED
  BY <1>1, <1>2, <1>3, <1>4

\* The handler goes on to the next entry.
LEMMA GoingOnHolds ==
  ASSUME Always, cursor < Len(outbox), Handled,
         UNCHANGED <<site, follows, bound, shut, messages, notices, hand, faults>>,
         features' \subseteq {"new", "changes"}, crossed' = crossed,
         unheard \subseteq unheard', unheard' \subseteq Events,
         mirror' \in [Events -> Nat], \A e \in Events : mirror'[e] = mirror[e] \/ mirror'[e] \in DOMAIN messages,
         delivered \subseteq delivered', \A d \in delivered' \ delivered : d \in Delivery /\ Fits(d),
         work.step # "recordPost",
         work.step = "recordNotice" => \E d \in delivered' : d.entry = cursor + 1 /\ d.purpose = "notice",
         Excuses
  PROVE  Always'
<1>1. /\ AnnouncementTypes /\ cursor \in Nat /\ Len(outbox) \in Nat /\ event[1].state # "none" /\ delivered \subseteq Delivery
      /\ cursor + 1 <= Len(outbox)
  BY AtEntry
<1>2. /\ cursor' = cursor + 1 /\ work' = NoWork /\ work' \in Work /\ work'.step = "idle"
      /\ UNCHANGED <<event, pattern, outbox>>
  BY NothingIsTyped DEF Handled, site
<1>3. AnnouncementTypes'
  <2>1. delivered' \subseteq Delivery /\ cursor' \in Nat
    BY <1>1, <1>2
  <2>2. QED
    BY <1>1, <1>2, <2>1 DEF AnnouncementTypes
<1>4. AtHand'
  BY <1>1, <1>2 DEF AtHand, Posting, Posted
<1>5. Remembered("recordPost", "post") /\ Remembered("recordNotice", "notice")
  BY DEF Remembered
<1>6. faults <= faults'
  BY <1>1 DEF AnnouncementTypes
<1>7. Careful
  BY <1>1, <1>3, <1>4, <1>5, <1>6 DEF Careful
<1>8. QED
  BY <1>7, CarefulHolds

\* The handler turns to the next step of the entry.
LEMMA TurningHolds ==
  ASSUME Always, cursor < Len(outbox),
         UNCHANGED <<site, server, notices, mirror, cursor, hand, faults>>, crossed' = crossed,
         messages' \in Seq(Message), Len(messages') = Len(messages),
         \A m \in DOMAIN messages : messages'[m].entry = messages[m].entry,
         unheard \subseteq unheard', unheard' \subseteq Events,
         delivered \subseteq delivered', \A d \in delivered' \ delivered : d \in Delivery /\ Fits(d),
         work' \in Work, work.step # "recordNotice", work'.step # "recordNotice",
         work.step = "recordPost" => \E d \in delivered' : d.entry = cursor + 1 /\ d.purpose = "post",
         Posting' => NewEntry(Now), Posted' => work'.message \in DOMAIN messages,
         work'.step \in {"edit", "recordEdit"} /\ HasNotice(Now) => mirror[Now.of] # 0
  PROVE  Always'
<1>1. /\ AnnouncementTypes /\ cursor \in Nat /\ event[1].state # "none" /\ delivered \subseteq Delivery
  BY AtEntry
<1>2. UNCHANGED <<event, pattern, outbox, follows, features, bound, shut, Now>>
  BY DEF site, server, Now
<1>3. DOMAIN messages' = DOMAIN messages
  BY <1>1 DEF AnnouncementTypes
<1>4. AnnouncementTypes'
  <2>1. delivered' \subseteq Delivery
    BY <1>1
  <2>2. QED
    BY <1>1, <1>2, <1>3, <2>1 DEF AnnouncementTypes
<1>5. AtHand'
  BY <1>1, <1>2, <1>3 DEF AtHand, NewEntry, HasNotice
<1>6. Remembered("recordPost", "post") /\ Remembered("recordNotice", "notice")
  BY DEF Remembered
<1>7. faults <= faults' /\ cursor' <= cursor
  BY <1>1 DEF AnnouncementTypes
<1>8. Careful
  BY <1>1, <1>2, <1>4, <1>5, <1>6, <1>7 DEF Careful
<1>9. QED
  BY <1>8, CarefulHolds

LEMMA TakingHolds ==
  ASSUME Always, Takes
  PROVE  Always'
<1>1. work.step = "idle" /\ cursor < Len(outbox) /\ UNCHANGED <<pollVars, site, server, channel, records, hand, pasts>>
  BY DEF Takes
<1>2. /\ AnnouncementTypes /\ LogInv /\ NamedInv /\ unheard \subseteq Events /\ features \subseteq {"new", "changes"}
      /\ mirror \in [Events -> Nat] /\ messages \in Seq(Message)
  BY <1>1, AtEntry DEF AnnouncementTypes
<1>3. UNCHANGED <<site, server, follows, features, bound, shut, messages, notices, mirror, delivered, hand, crossed, unheard, faults>>
  BY <1>1 DEF pollVars, spent, server, channel, records, pasts
<1>4. IsNew <=> NewEntry(Now)
  BY DEF IsNew, NewEntry
<1>5. CASE \E r \in Reply : ~(IsNew /\ r.event.private)
  <2>1. PICK r \in Reply : work' = [NoWork EXCEPT !.step = IF IsNew THEN "post" ELSE "find", !.shows = r]
    BY <1>5 DEF Takes
  <2>2. r \in Card /\ cursor' = cursor
    BY <1>1, <1>2, <1>5, ReplyShows DEF Takes
  <2>3. work' \in Work /\ work'.step = (IF IsNew THEN "post" ELSE "find")
    BY <2>1, <2>2, NothingIsTyped DEF Work, WorkSteps
  <2>4. (Posting' => NewEntry(Now)) /\ ~Posted'
    BY <1>4, <2>3 DEF Posting, Posted
  <2>5. QED
    BY <1>1, <1>2, <1>3, <2>2, <2>3, <2>4, TurningHolds
<1>6. CASE ~\E r \in Reply : ~(IsNew /\ r.event.private)
  <2>1. Handled /\ cursor' = cursor + 1
    BY <1>6 DEF Takes, Handled
  <2>2. ~HasNotice(Now)
    BY <1>6 DEF HasNotice, Reply, IsNew
  <2>3. QED
    BY <1>1, <1>2, <1>3, <2>1, <2>2, GoingOnHolds DEF Excuses
<1>7. QED
  BY <1>5, <1>6

\* A message more is posted for the entry.
LEMMA PostingAgainHolds ==
  ASSUME Always, work.step = "post", Settled("post") = {},
         messages' = Announced(work.shows, cursor + 1),
         work' = [work EXCEPT !.step = "recordPost", !.message = Len(messages) + 1],
         UNCHANGED <<pollVars, site, features, follows, bound, shut, notices, mirror, delivered, hand, pasts, cursor>>
  PROVE  Always'
<1>1. cursor < Len(outbox)
  BY DEF Always, AtHand
<1>2. /\ AnnouncementTypes /\ LogInv /\ NamedInv /\ AtHand /\ OnceInv /\ NoticeInv /\ cursor \in Nat /\ Len(outbox) \in Nat
      /\ work \in Work /\ work.shows \in Card /\ event[1].state # "none" /\ messages \in Seq(Message) /\ faults \in Nat
  BY <1>1, AtEntry DEF AnnouncementTypes
<1>3. /\ UNCHANGED <<event, pattern, outbox, crossed, unheard, faults, Now>>
  BY DEF site, pasts, pollVars, spent, Now
<1>4. PICK x : x = [shows |-> work.shows, entry |-> cursor + 1, gone |-> FALSE]
  OBVIOUS
<1>5. x \in Message /\ x.entry = cursor + 1 /\ messages' = Append(messages, x)
  BY <1>2, <1>4 DEF Message, Announced
<1>6. /\ messages' \in Seq(Message) /\ Len(messages) \in Nat
      /\ DOMAIN messages = 1..Len(messages) /\ DOMAIN messages' = 1..(Len(messages) + 1)
      /\ \A n : x.entry # n => PostedFor(n)' = PostedFor(n)
      /\ \A n : x.entry = n => Cardinality(PostedFor(n)') = Cardinality(PostedFor(n)) + 1
  BY <1>2, <1>5, MessagesGrow DEF NamedInv
<1>7. work' \in Work /\ work'.step = "recordPost" /\ work'.message = Len(messages) + 1
  <2>1. PICK n \in Nat : n = Len(messages) + 1
    BY <1>6
  <2>2. work' = [work EXCEPT !.step = "recordPost", !.message = n]
    BY <2>1
  <2>3. QED
    BY <1>2, <2>1, <2>2 DEF Work, WorkSteps
<1>8. AnnouncementTypes'
  BY <1>2, <1>3, <1>6, <1>7 DEF AnnouncementTypes
<1>9. LogInv'
  BY <1>2, LogStands
<1>10. DOMAIN messages \subseteq DOMAIN messages' /\ Len(messages) + 1 \in DOMAIN messages'
  BY <1>6
<1>11. NamedInv'
  BY <1>2, <1>3, <1>10 DEF NamedInv
<1>12. AtHand'
  BY <1>2, <1>3, <1>7, <1>10 DEF AtHand, Posting, Posted, NewEntry
<1>13. OnceInv'
  <2>1. ASSUME NEW n \in Nat \ {0} PROVE Cardinality(PostedFor(n)') <= faults' + One(PostMade(n)')
    <3>1. Cardinality(PostedFor(n)) <= faults + One(PostMade(n)) /\ Cardinality(PostedFor(n)) \in Nat
      BY <1>2, PostedAreFinite DEF OnceInv
    <3>2. CASE n = cursor + 1
      <4>1. ~PostMade(n) /\ PostMade(n)'
        BY <1>3, <1>7, <3>2 DEF PostMade, Settled
      <4>2. Cardinality(PostedFor(n)') = Cardinality(PostedFor(n)) + 1
        BY <1>5, <1>6, <3>2
      <4>3. QED
        BY <1>2, <1>3, <3>1, <4>1, <4>2 DEF One
    <3>3. CASE n # cursor + 1
      BY <1>3, <1>5, <1>6, <3>1, <3>3 DEF PostMade
    <3>4. QED
      BY <3>2, <3>3
  <2>2. ASSUME NEW n \in Nat \ {0} PROVE Cardinality(NoticesFor(n)') <= faults' + One(NoticeMade(n)')
    BY <1>2, <1>3, <1>7 DEF OnceInv, NoticesFor, NoticeMade
  <2>3. QED
    BY <2>1, <2>2 DEF OnceInv
<1>14. NoticeInv'
  BY <1>2, <1>3 DEF NoticeInv, Excused, HasNotice
<1>15. QED
  BY <1>8, <1>9, <1>11, <1>12, <1>13, <1>14 DEF Always

LEMMA NewPostHolds ==
  ASSUME Always, PostNew
  PROVE  Always'
<1>1. /\ work.step = "post" /\ cursor < Len(outbox)
      /\ UNCHANGED <<pollVars, site, follows, bound, shut, managed, notices, delivered, hand, pasts>>
  BY DEF PostNew, Always, AtHand
<1>2. /\ NamedInv /\ unheard \subseteq Events /\ features \subseteq {"new", "changes"} /\ mirror \in [Events -> Nat]
      /\ work.shows.of \in Events /\ delivered \subseteq Delivery
  BY <1>1, AtEntry
<1>3. UNCHANGED <<crossed, unheard, faults>>
  BY <1>1 DEF pollVars, spent, pasts
<1>4. ~HasNotice(Now)
  BY <1>1 DEF Always, AtHand, Posting, NewEntry, HasNotice
<1>5. CASE Handled /\ features' \in {features, features \ {"new"}} /\ UNCHANGED <<messages, mirror>>
  <2>1. Excuses /\ features' \subseteq {"new", "changes"}
    BY <1>2, <1>4, <1>5 DEF Excuses, Handled
  <2>2. QED
    BY <1>1, <1>2, <1>3, <1>5, <2>1, GoingOnHolds
<1>6. ASSUME NEW d \in Settled("post"), mirror' = [mirror EXCEPT ![work.shows.of] = d.message], Handled,
             UNCHANGED <<features, messages>>
      PROVE  Always'
  <2>1. d.message \in DOMAIN messages /\ d.message \in Nat
    BY <1>2 DEF NamedInv, Settled, Delivery
  <2>2. /\ mirror' \in [Events -> Nat]
        /\ \A e \in Events : mirror'[e] = mirror[e] \/ mirror'[e] \in DOMAIN messages
    BY <1>2, <1>6, <2>1
  <2>3. Excuses
    BY <1>4, <1>6 DEF Excuses, Handled
  <2>4. QED
    BY <1>1, <1>2, <1>3, <1>6, <2>2, <2>3, GoingOnHolds
<1>7. CASE /\ Settled("post") = {} /\ messages' = Announced(work.shows, cursor + 1)
           /\ work' = [work EXCEPT !.step = "recordPost", !.message = Len(messages) + 1]
           /\ UNCHANGED <<features, mirror, cursor>>
  BY <1>1, <1>7, PostingAgainHolds
<1>8. QED
  <2>1. CASE ~follows \/ "new" \notin features
    BY <1>5, <2>1 DEF PostNew
  <2>2. CASE follows /\ "new" \in features /\ ~bound
    BY <1>5, <2>2 DEF PostNew
  <2>3. CASE follows /\ "new" \in features /\ bound /\ Settled("post") # {}
    BY <1>6, <2>3 DEF PostNew
  <2>4. CASE follows /\ "new" \in features /\ bound /\ Settled("post") = {} /\ shut
    BY <1>5, <2>4 DEF PostNew
  <2>5. CASE follows /\ "new" \in features /\ bound /\ Settled("post") = {} /\ ~shut
    BY <1>7, <2>5 DEF PostNew
  <2>6. QED
    BY <2>1, <2>2, <2>3, <2>4, <2>5

LEMMA PostRecordHolds ==
  ASSUME Always, RecordPost
  PROVE  Always'
<1>1. /\ work.step = "recordPost" /\ cursor < Len(outbox)
      /\ UNCHANGED <<pollVars, site, server, channel, mirror, cursor, hand, pasts>>
  BY DEF RecordPost, Always, AtHand
<1>2. /\ AtHand /\ cursor \in Nat /\ work \in Work /\ unheard \subseteq Events /\ messages \in Seq(Message)
  BY <1>1, AtEntry DEF AnnouncementTypes
<1>3. UNCHANGED <<messages, notices, crossed, unheard, faults>>
  BY <1>1 DEF pollVars, spent, pasts, channel
<1>4. PICK D : D = [entry |-> cursor + 1, purpose |-> "post", message |-> work.message]
  OBVIOUS
<1>5. /\ D \in Delivery /\ D.entry = cursor + 1 /\ D.purpose = "post" /\ D.message = work.message
      /\ delivered' = delivered \cup {D}
  BY <1>2, <1>4 DEF RecordPost, Delivers, Delivery, Work
<1>6. work' \in Work /\ work'.step = "recordRow" /\ work'.message = work.message
  BY <1>2 DEF RecordPost, Work, WorkSteps
<1>7. work.message \in DOMAIN messages /\ NewEntry(Now)
  BY <1>1, <1>2 DEF AtHand, Posted, Posting
<1>8. \A d \in delivered' \ delivered : d \in Delivery /\ Fits(d)
  BY <1>1, <1>5, <1>7 DEF Fits
<1>9. QED
  BY <1>1, <1>2, <1>3, <1>5, <1>6, <1>7, <1>8, TurningHolds

LEMMA RowRecordHolds ==
  ASSUME Always, RecordAnnouncement
  PROVE  Always'
<1>1. /\ work.step = "recordRow" /\ cursor < Len(outbox) /\ Handled /\ mirror' = [mirror EXCEPT ![work.shows.of] = work.message]
      /\ UNCHANGED <<pollVars, site, server, channel, delivered, hand, pasts>>
  BY DEF RecordAnnouncement, Always, AtHand
<1>2. /\ AtHand /\ work \in Work /\ unheard \subseteq Events /\ features \subseteq {"new", "changes"}
      /\ mirror \in [Events -> Nat] /\ work.shows.of \in Events
  BY <1>1, AtEntry
<1>3. UNCHANGED <<follows, features, bound, shut, messages, notices, crossed, unheard, faults>>
  BY <1>1 DEF pollVars, spent, pasts, channel, server
<1>4. work.message \in DOMAIN messages /\ NewEntry(Now) /\ work.message \in Nat
  BY <1>1, <1>2 DEF AtHand, Posted, Posting, Work
<1>5. /\ mirror' \in [Events -> Nat]
      /\ \A e \in Events : mirror'[e] = mirror[e] \/ mirror'[e] \in DOMAIN messages
  BY <1>1, <1>2, <1>4
<1>6. Excuses
  BY <1>1, <1>4 DEF Excuses, Handled, NewEntry, HasNotice
<1>7. QED
  BY <1>1, <1>2, <1>3, <1>5, <1>6, GoingOnHolds

LEMMA FindingHolds ==
  ASSUME Always, FindAnnouncement
  PROVE  Always'
<1>1. /\ work.step = "find" /\ cursor < Len(outbox) /\ UNCHANGED <<pollVars, site, server, channel, records, hand, crossed>>
  BY DEF FindAnnouncement, Always, AtHand
<1>2. /\ work \in Work /\ unheard \subseteq Events /\ features \subseteq {"new", "changes"} /\ Now \in Entry /\ Now.of \in Events
      /\ mirror \in [Events -> Nat] /\ messages \in Seq(Message)
  BY <1>1, AtEntry DEF AnnouncementTypes
<1>3. UNCHANGED <<server, follows, features, bound, shut, messages, notices, mirror, delivered, faults>>
  BY <1>1 DEF pollVars, spent, channel, server, records
<1> DEFINE rows == {e \in About : mirror[e] # 0}
<1>4. rows \subseteq Events /\ rows \subseteq Nat
  BY <1>2, AboutMeetings, EventsAreNumbers DEF About, AboutOf, IsSeries, SeriesEntry, SeriesTypes
<1>5. HasNotice(Now) => rows = {e \in {Now.of} : mirror[e] # 0}
  BY DEF HasNotice, About, IsSeries
<1>6. CASE follows /\ "changes" \in features /\ rows # {}
  <2>1. PICK first : first = CHOOSE e \in rows : \A d \in rows : e <= d
    OBVIOUS
  <2>2. first \in rows
    BY <1>4, <1>6, <2>1, Least
  <2>3. /\ work' = [work EXCEPT !.step = "edit", !.found = first, !.message = mirror[first]]
        /\ unheard' = unheard \cup (rows \ {first}) /\ cursor' = cursor
    BY <1>6, <2>1 DEF FindAnnouncement
  <2>4. PICK m \in Nat : m = mirror[first] /\ first \in Events
    BY <1>2, <1>4, <2>2
  <2>5. work' = [work EXCEPT !.step = "edit", !.found = first, !.message = m]
    BY <2>3, <2>4
  <2>6. work' \in Work /\ work'.step = "edit"
    BY <1>2, <2>4, <2>5 DEF Work, WorkSteps
  <2>7. HasNotice(Now) => mirror[Now.of] # 0
    BY <1>5, <1>6
  <2>8. ~Posting' /\ ~Posted' /\ unheard \subseteq unheard' /\ unheard' \subseteq Events
    BY <1>2, <1>4, <2>3, <2>6 DEF Posting, Posted
  <2>9. QED
    BY <1>1, <1>2, <1>3, <2>3, <2>6, <2>7, <2>8, TurningHolds
<1>7. CASE ~(follows /\ "changes" \in features /\ rows # {})
  <2>1. Handled /\ unheard' = unheard \cup rows /\ cursor' = cursor + 1
    BY <1>7 DEF FindAnnouncement, Handled
  <2>2. unheard \subseteq unheard' /\ unheard' \subseteq Events
    BY <1>2, <1>4, <2>1
  <2>3. Excuses
    <3>1. ASSUME NEW d \in delivered', d.entry = cursor + 1, d.purpose = "edit", HasNotice(Now)
          PROVE  Now.of \in unheard'
      <4>1. d \in delivered /\ Now = outbox[d.entry] /\ NoticeInv
        BY <1>3, <3>1 DEF Now, Always
      <4>2. mirror[Now.of] # 0
        BY <3>1, <4>1 DEF NoticeInv
      <4>3. QED
        BY <1>5, <2>1, <3>1, <4>2
    <3>2. QED
      BY <2>1, <3>1 DEF Excuses
  <2>4. QED
    BY <1>1, <1>2, <1>3, <2>1, <2>2, <2>3, GoingOnHolds
<1>8. QED
  BY <1>6, <1>7

\* After an edit that is settled.
LEMMA AfterEditHolds ==
  ASSUME Always, work.step \in {"edit", "recordEdit"}, AfterEdit,
         UNCHANGED <<pollVars, site, server, channel, mirror, hand, pasts>>,
         delivered \subseteq delivered', \A d \in delivered' \ delivered : d \in Delivery /\ Fits(d)
  PROVE  Always'
<1>1. cursor < Len(outbox)
  BY DEF Always, AtHand
<1>2. /\ work \in Work /\ unheard \subseteq Events /\ features \subseteq {"new", "changes"}
      /\ mirror \in [Events -> Nat] /\ messages \in Seq(Message)
  BY <1>1, AtEntry DEF AnnouncementTypes
<1>3. UNCHANGED <<follows, features, bound, shut, messages, notices, crossed, unheard, faults>>
  BY DEF pollVars, spent, pasts, channel, server
<1>4. CASE HasNotice(Now)
  <2>1. work' = [work EXCEPT !.step = "notice"] /\ cursor' = cursor
    BY <1>4 DEF AfterEdit
  <2>2. work' \in Work /\ work'.step = "notice" /\ ~Posting' /\ ~Posted'
    BY <1>2, <2>1 DEF Work, WorkSteps, Posting, Posted
  <2>3. QED
    BY <1>1, <1>2, <1>3, <2>1, <2>2, TurningHolds
<1>5. CASE ~HasNotice(Now)
  <2>1. Handled /\ Excuses
    BY <1>5 DEF AfterEdit, Handled, Excuses
  <2>2. QED
    BY <1>1, <1>2, <1>3, <2>1, GoingOnHolds
<1>6. QED
  BY <1>4, <1>5

LEMMA EditingHolds ==
  ASSUME Always, Edit
  PROVE  Always'
<1>1. /\ work.step = "edit" /\ cursor < Len(outbox) /\ UNCHANGED <<pollVars, site, server, notices, records, hand, pasts>>
  BY DEF Edit, Always, AtHand
<1>2. /\ AtHand /\ work \in Work /\ unheard \subseteq Events /\ messages \in Seq(Message) /\ work.shows \in Card
  BY <1>1, AtEntry DEF AnnouncementTypes
<1>3. UNCHANGED <<mirror, delivered, crossed, unheard, faults>>
  BY <1>1 DEF pollVars, spent, pasts, records
<1>4. CASE Settled("edit") # {}
  <2>1. AfterEdit /\ UNCHANGED channel
    BY <1>1, <1>4 DEF Edit, channel
  <2>2. QED
    BY <1>1, <1>3, <2>1, AfterEditHolds
<1>5. CASE Settled("edit") = {}
  <2>1. PICK m : m = work.message
    OBVIOUS
  <2>2. /\ work' = [work EXCEPT !.step = "recordEdit"] /\ cursor' = cursor
        /\ messages' = IF shut \/ messages[m].gone THEN messages ELSE [messages EXCEPT ![m].shows = work.shows]
    BY <1>5, <2>1 DEF Edit
  <2>3. /\ messages' \in Seq(Message) /\ Len(messages') = Len(messages)
        /\ \A k \in DOMAIN messages : messages'[k].entry = messages[k].entry
    <3>1. PICK new : new = [messages[m] EXCEPT !.shows = work.shows]
      OBVIOUS
    <3>2. messages' = messages \/ messages' = [messages EXCEPT ![m] = new]
      BY <2>2, <3>1
    <3>3. CASE m \notin DOMAIN messages
      <4>1. [messages EXCEPT ![m] = new] = messages
        BY <1>2, <3>3
      <4>2. QED
        BY <1>2, <3>2, <4>1
    <3>4. CASE m \in DOMAIN messages
      <4>1. new \in Message /\ new.entry = messages[m].entry
        <5>1. messages[m] \in Message
          BY <1>2, <3>4
        <5>2. QED
          BY <1>2, <3>1, <5>1 DEF Message
      <4>2. CASE messages' = messages
        BY <1>2, <4>2
      <4>3. CASE messages' = [messages EXCEPT ![m] = new]
        BY <1>2, <3>4, <4>1, <4>3
      <4>4. QED
        BY <3>2, <4>2, <4>3
    <3>5. QED
      BY <3>3, <3>4
  <2>4. work' \in Work /\ work'.step = "recordEdit" /\ ~Posting' /\ ~Posted'
    BY <1>2, <2>2 DEF Work, WorkSteps, Posting, Posted
  <2>5. HasNotice(Now) => mirror[Now.of] # 0
    BY <1>1, <1>2 DEF AtHand
  <2>6. QED
    BY <1>1, <1>2, <1>3, <2>2, <2>3, <2>4, <2>5, TurningHolds
<1>6. QED
  BY <1>4, <1>5

LEMMA EditRecordHolds ==
  ASSUME Always, RecordEdit
  PROVE  Always'
<1>1. /\ work.step = "recordEdit" /\ cursor < Len(outbox) /\ AfterEdit
      /\ UNCHANGED <<pollVars, site, server, channel, mirror, hand, pasts>>
  BY DEF RecordEdit, Always, AtHand
<1>2. AtHand /\ cursor \in Nat /\ work \in Work
  BY <1>1, AtEntry
<1>3. PICK D : D = [entry |-> cursor + 1, purpose |-> "edit", message |-> work.message]
  OBVIOUS
<1>4. D \in Delivery /\ D.entry = cursor + 1 /\ D.purpose = "edit" /\ delivered' = delivered \cup {D}
  BY <1>2, <1>3 DEF RecordEdit, Delivers, Delivery, Work
<1>5. Fits(D)
  BY <1>1, <1>2, <1>4 DEF Fits, AtHand
<1>6. QED
  BY <1>1, <1>4, <1>5, AfterEditHolds

\* A notice more is posted for the entry.
LEMMA NoticingAgainHolds ==
  ASSUME Always, work.step = "notice", Settled("notice") = {},
         notices' = Append(notices, cursor + 1), work' = [work EXCEPT !.step = "recordNotice"],
         UNCHANGED <<pollVars, site, server, messages, records, hand, pasts, cursor>>
  PROVE  Always'
<1>1. cursor < Len(outbox)
  BY DEF Always, AtHand
<1>2. /\ AnnouncementTypes /\ LogInv /\ NamedInv /\ AtHand /\ OnceInv /\ NoticeInv /\ cursor \in Nat /\ cursor + 1 <= Len(outbox)
      /\ work \in Work /\ event[1].state # "none" /\ notices \in Seq(Nat) /\ faults \in Nat /\ Len(outbox) \in Nat
      /\ DOMAIN outbox = 1..Len(outbox)
  BY <1>1, AtEntry DEF AnnouncementTypes
<1>3. UNCHANGED <<event, pattern, outbox, follows, features, bound, shut, mirror, delivered, crossed, unheard, faults, Now>>
  BY DEF Now, site, server, records, pasts, pollVars, spent
<1>4. /\ notices' \in Seq(Nat) /\ DOMAIN notices = 1..Len(notices) /\ Len(notices) \in Nat
      /\ DOMAIN notices' = 1..(Len(notices) + 1) /\ notices'[Len(notices) + 1] = cursor + 1
      /\ \A i \in DOMAIN notices : notices'[i] = notices[i] /\ i \in DOMAIN notices'
      /\ Len(notices) + 1 \in DOMAIN notices' /\ Len(notices) + 1 \notin DOMAIN notices
  BY <1>2
<1>5. work' \in Work /\ work'.step = "recordNotice"
  BY <1>2 DEF Work, WorkSteps
<1>6. cursor + 1 \in Range(notices') /\ Range(notices) \subseteq Range(notices') /\ cursor + 1 \in DOMAIN outbox
  BY <1>2, <1>4 DEF Range
<1>7. AnnouncementTypes'
  BY <1>2, <1>3, <1>4, <1>5 DEF AnnouncementTypes
<1>8. LogInv'
  BY <1>2, <1>3, LogStands
<1>9. NamedInv'
  <2>1. \A i \in DOMAIN notices' : notices'[i] \in DOMAIN outbox
    BY <1>2, <1>4, <1>6 DEF NamedInv
  <2>2. QED
    BY <1>2, <1>3, <2>1 DEF NamedInv
<1>10. AtHand'
  BY <1>2, <1>3, <1>5, <1>6 DEF AtHand, Posting, Posted
<1>11. OnceInv'
  <2>1. ASSUME NEW n \in Nat \ {0} PROVE Cardinality(NoticesFor(n)') <= faults' + One(NoticeMade(n)')
    <3>1. Cardinality(NoticesFor(n)) <= faults + One(NoticeMade(n)) /\ Cardinality(NoticesFor(n)) \in Nat
          /\ IsFiniteSet(NoticesFor(n))
      BY <1>2, PostedAreFinite DEF OnceInv
    <3>2. CASE n = cursor + 1
      <4>1. ~NoticeMade(n) /\ NoticeMade(n)'
        BY <1>3, <1>5, <3>2 DEF NoticeMade, Settled
      <4>2. NoticesFor(n)' = NoticesFor(n) \cup {Len(notices) + 1} /\ Len(notices) + 1 \notin NoticesFor(n)
        BY <1>4, <3>2 DEF NoticesFor
      <4>3. Cardinality(NoticesFor(n)') = Cardinality(NoticesFor(n)) + 1
        BY <3>1, <4>2, FS_AddElement
      <4>4. QED
        BY <1>2, <1>3, <3>1, <4>1, <4>3 DEF One
    <3>3. CASE n # cursor + 1
      <4>1. NoticesFor(n)' = NoticesFor(n)
        BY <1>4, <3>3 DEF NoticesFor
      <4>2. NoticeMade(n)' = NoticeMade(n)
        BY <1>3, <3>3 DEF NoticeMade
      <4>3. QED
        BY <1>3, <3>1, <4>1, <4>2
    <3>4. QED
      BY <3>2, <3>3
  <2>2. ASSUME NEW n \in Nat \ {0} PROVE Cardinality(PostedFor(n)') <= faults' + One(PostMade(n)')
    BY <1>2, <1>3, <1>5 DEF OnceInv, PostedFor, PostMade
  <2>3. QED
    BY <2>1, <2>2 DEF OnceInv
<1>12. NoticeInv'
  BY <1>2, <1>3, <1>6 DEF NoticeInv, Excused, HasNotice
<1>13. QED
  BY <1>7, <1>8, <1>9, <1>10, <1>11, <1>12 DEF Always

LEMMA NoticingHolds ==
  ASSUME Always, Notice
  PROVE  Always'
<1>1. /\ work.step = "notice" /\ cursor < Len(outbox) /\ UNCHANGED <<pollVars, site, server, messages, records, hand, pasts>>
  BY DEF Notice, Always, AtHand
<1>2. /\ NoticeInv /\ work \in Work /\ unheard \subseteq Events /\ features \subseteq {"new", "changes"} /\ mirror \in [Events -> Nat]
  BY <1>1, AtEntry
<1>3. UNCHANGED <<follows, features, bound, shut, mirror, delivered, crossed, unheard, faults>>
  BY <1>1 DEF pollVars, spent, pasts, records, server
<1>4. CASE Settled("notice") # {} \/ shut
  <2>1. Handled /\ UNCHANGED notices
    BY <1>4 DEF Notice
  <2>2. shut \/ cursor + 1 \in Range(notices)
    BY <1>2, <1>4 DEF NoticeInv, Settled
  <2>3. Excuses
    BY <1>3, <2>1, <2>2 DEF Excuses, Handled
  <2>4. QED
    BY <1>1, <1>2, <1>3, <2>1, <2>3, GoingOnHolds
<1>5. CASE ~(Settled("notice") # {} \/ shut)
  BY <1>1, <1>5, NoticingAgainHolds DEF Notice
<1>6. QED
  BY <1>4, <1>5

LEMMA NoticeRecordHolds ==
  ASSUME Always, RecordNotice
  PROVE  Always'
<1>1. /\ work.step = "recordNotice" /\ cursor < Len(outbox) /\ Handled
      /\ UNCHANGED <<pollVars, site, server, channel, mirror, hand, pasts>>
  BY DEF RecordNotice, Always, AtHand
<1>2. /\ AtHand /\ cursor \in Nat /\ work \in Work /\ unheard \subseteq Events /\ features \subseteq {"new", "changes"}
      /\ mirror \in [Events -> Nat]
  BY <1>1, AtEntry
<1>3. UNCHANGED <<follows, features, bound, shut, messages, notices, crossed, unheard, faults>>
  BY <1>1 DEF pollVars, spent, pasts, channel, server
<1>4. PICK D : D = [entry |-> cursor + 1, purpose |-> "notice", message |-> work.message]
  OBVIOUS
<1>5. D \in Delivery /\ D.entry = cursor + 1 /\ D.purpose = "notice" /\ delivered' = delivered \cup {D}
  BY <1>2, <1>4 DEF RecordNotice, Delivers, Delivery, Work
<1>6. cursor + 1 \in Range(notices)
  BY <1>1, <1>2 DEF AtHand
<1>7. Fits(D) /\ Excuses
  BY <1>1, <1>5, <1>6 DEF Fits, Excuses, Handled
<1>8. QED
  BY <1>1, <1>2, <1>3, <1>5, <1>7, GoingOnHolds

\* An announcement is posted again by hand, and recorded.
LEMMA ByHandHolds ==
  ASSUME Always, NEW h0 \in Hands, PostsAgain(h0)
  PROVE  Always'
<1>1. /\ AnnouncementTypes /\ LogInv /\ NamedInv /\ AtHand /\ OnceInv /\ NoticeInv
      /\ hand \in [Hands -> Press] /\ hand[h0] \in Press /\ messages \in Seq(Message)
  BY DEF Always, AnnouncementTypes
<1>2. /\ UNCHANGED <<event, pattern, outbox, follows, features, bound, shut, notices, mirror, delivered,
                     cursor, work, crossed, unheard, faults, Now>>
      /\ UNCHANGED <<site, records>>
  BY DEF PostsAgain, Now, site, server, records, handler, pasts, pollVars, spent
<1>3. PICK p : p = hand[h0]
  OBVIOUS
<1>4. p \in Press /\ p.step = "act" /\ messages' = Announced(CardOf(p.of, p.read), 0)
      /\ hand' = [hand EXCEPT ![h0].step = "record", ![h0].message = Len(messages) + 1]
  BY <1>1, <1>3 DEF PostsAgain
<1>5. CardOf(p.of, p.read) \in Card
  BY <1>4, NothingIsTyped DEF CardOf, Card, Press
<1>6. PICK x : x = [shows |-> CardOf(p.of, p.read), entry |-> 0, gone |-> FALSE]
  OBVIOUS
<1>7. x \in Message /\ x.entry = 0 /\ messages' = Append(messages, x)
  BY <1>4, <1>5, <1>6 DEF Message, Announced
<1>8. /\ messages' \in Seq(Message) /\ Len(messages) \in Nat
      /\ DOMAIN messages = 1..Len(messages) /\ DOMAIN messages' = 1..(Len(messages) + 1)
      /\ \A n : x.entry # n => PostedFor(n)' = PostedFor(n)
  BY <1>1, <1>7, MessagesGrow DEF NamedInv
<1>9. PICK k \in Nat : k = Len(messages) + 1 /\ k \in DOMAIN messages'
  BY <1>8
<1>10. PICK new : new = [p EXCEPT !.step = "record", !.message = k]
  OBVIOUS
<1>11. /\ new \in Press /\ new.step = "record" /\ new.message = k
       /\ hand' = [hand EXCEPT ![h0] = new]
  BY <1>1, <1>3, <1>4, <1>9, <1>10 DEF Press
<1>12. hand' \in [Hands -> Press] /\ hand'[h0] = new /\ \A h \in Hands : h # h0 => hand'[h] = hand[h]
  BY <1>1, <1>11
<1>13. AnnouncementTypes'
  BY <1>1, <1>2, <1>8, <1>12 DEF AnnouncementTypes
<1>14. LogInv'
  <2>1. event[1].state # "none"
    BY <1>1, <1>3, <1>4 DEF LogInv, Unborn
  <2>2. QED
    BY <1>1, <1>2, <2>1, LogStands
<1>15. DOMAIN messages \subseteq DOMAIN messages'
  BY <1>8
<1>16. NamedInv'
  <2>1. \A h \in Hands : hand'[h].step = "record" => hand'[h].message \in DOMAIN messages'
    BY <1>1, <1>9, <1>11, <1>12, <1>15 DEF NamedInv
  <2>2. QED
    BY <1>1, <1>2, <1>15, <2>1 DEF NamedInv
<1>17. AtHand'
  BY <1>1, <1>2, <1>15 DEF AtHand, Posting, Posted, NewEntry, HasNotice
<1>18. OnceInv'
  <2>1. \A n \in Nat \ {0} : PostedFor(n)' = PostedFor(n) /\ NoticesFor(n)' = NoticesFor(n)
                             /\ PostMade(n)' = PostMade(n) /\ NoticeMade(n)' = NoticeMade(n)
    BY <1>2, <1>7, <1>8 DEF NoticesFor, PostMade, NoticeMade
  <2>2. QED
    BY <1>1, <1>2, <2>1 DEF OnceInv
<1>19. NoticeInv'
  BY <1>1, <1>2 DEF NoticeInv, Excused, HasNotice
<1>20. QED
  BY <1>13, <1>14, <1>16, <1>17, <1>18, <1>19 DEF Always

LEMMA ByHandRecordHolds ==
  ASSUME Always, NEW h0 \in Hands, RecordsAgain(h0)
  PROVE  Always'
<1>1. /\ AnnouncementTypes /\ LogInv /\ NamedInv /\ AtHand /\ NoticeInv
      /\ hand \in [Hands -> Press] /\ hand[h0] \in Press /\ mirror \in [Events -> Nat] /\ cursor \in Nat
      /\ faults \in Nat /\ messages \in Seq(Message) /\ 0 \notin DOMAIN messages
  BY DEF Always, AnnouncementTypes
<1>2. /\ UNCHANGED <<event, pattern, outbox, follows, features, bound, shut, messages, notices, delivered,
                     cursor, work, unheard, faults, Now>>
      /\ UNCHANGED site
  BY DEF RecordsAgain, Now, site, server, channel, handler, pollVars, spent
<1>3. PICK p : p = hand[h0]
  OBVIOUS
<1>4. /\ p.message \in DOMAIN messages /\ p.message \in Nat /\ p.of \in Events
      /\ mirror' = [mirror EXCEPT ![p.of] = p.message] /\ hand' = [hand EXCEPT ![h0] = NoHand]
      /\ hand[h0].step = "record"
  BY <1>1, <1>3 DEF RecordsAgain, NamedInv, Press
<1>5. /\ mirror' \in [Events -> Nat]
      /\ \A e \in Events : mirror'[e] = mirror[e] \/ mirror'[e] \in DOMAIN messages
  BY <1>1, <1>4
<1>6. hand' \in [Hands -> Press] /\ \A h \in Hands : hand'[h].step = "record" => hand'[h] = hand[h]
  BY <1>1, <1>4, NothingIsTyped
<1>7. crossed' \subseteq DOMAIN messages
  BY <1>1, <1>3, <1>4 DEF RecordsAgain, AnnouncementTypes
<1>8. AnnouncementTypes'
  BY <1>1, <1>2, <1>5, <1>6, <1>7 DEF AnnouncementTypes
<1>9. AtHand'
  <2>1. mirror[Now.of] # 0 /\ Now.of \in Events => mirror'[Now.of] # 0
    BY <1>1, <1>5
  <2>2. work.step # "idle" => Now.of \in Events
    BY <1>1, AtEntry DEF AtHand
  <2>3. QED
    BY <1>1, <1>2, <2>1, <2>2 DEF AtHand, Posting, Posted, NewEntry, HasNotice
<1>10. event[1].state # "none"
  BY <1>1, <1>4 DEF LogInv, Unborn
<1>11. Remembered("recordPost", "post") /\ Remembered("recordNotice", "notice") /\ cursor' <= cursor /\ faults <= faults'
  BY <1>1, <1>2 DEF Remembered
<1>12. Careful
  BY <1>1, <1>2, <1>5, <1>6, <1>8, <1>9, <1>10, <1>11 DEF Careful
<1>13. QED
  BY <1>12, CarefulHolds

LEMMA AlwaysHolds ==
  ASSUME Always, [Next]_vars
  PROVE  Always'
<1>1. AnnouncementTypes /\ LogInv
  BY DEF Always
<1>2. CASE UNCHANGED vars
  BY <1>1, <1>2, PollStepsAreQuiet, ForgettingHolds DEF vars, Quiet
<1>3. CASE PollStep
  BY <1>1, <1>3, PollStepsAreQuiet, ForgettingHolds DEF PollStep, Quiet
<1>4. CASE CreatesRepeat
  <2>1. CASE \E x \in Entry : Grows(x)
    BY <2>1, GrowingHolds
  <2>2. CASE UNCHANGED <<site, server, channel, records, bot, pasts, faults>>
    BY <1>1, <1>4, <2>2, PollStepsAreQuiet, ForgettingHolds DEF CreatesRepeat, Quiet
  <2>3. QED
    BY <1>1, <1>4, <2>1, <2>2, RepeatGrows
<1>5. CASE Website
  BY <1>1, <1>5, WebsiteGrows, GrowingHolds
<1>6. CASE Manages
  BY <1>1, <1>6, ManagesIsQuiet, ForgettingHolds DEF Quiet
<1>7. CASE Handler
  BY <1>7, TakingHolds, NewPostHolds, PostRecordHolds, RowRecordHolds, FindingHolds,
     EditingHolds, EditRecordHolds, NoticingHolds, NoticeRecordHolds DEF Handler
<1>8. CASE AnnouncementFault \/ Stops
  BY <1>1, <1>8, FaultForgets, StopForgets, ForgettingHolds
<1>9. ASSUME NEW h \in Hands, Board(h)
      PROVE  Always'
  <2>1. CASE (\E e \in Events, act \in Acts : Presses(h, e, act)) \/ Refused(h)
    BY <1>1, <2>1, HandsAreQuiet, ForgettingHolds DEF Quiet
  <2>2. CASE Changes(h)
    BY <1>1, <2>2, ChangesGrow, GrowingHolds
  <2>3. CASE PostsAgain(h)
    BY <2>3, ByHandHolds
  <2>4. CASE RecordsAgain(h)
    BY <2>4, ByHandRecordHolds
  <2>5. QED
    BY <1>9, <2>1, <2>2, <2>3, <2>4 DEF Board
<1>10. QED
  BY <1>2, <1>3, <1>4, <1>5, <1>6, <1>7, <1>8, <1>9 DEF Next, Moves

-----------------------------------------------------------------------------
(* What is announced.                                                       *)

\* How far the handler had come, and what was redone.
Marks == reached \in Nat /\ reached <= Len(outbox) /\ redone \subseteq Events

LEMMA AnnouncementsStart == Init => AnnouncementsHold /\ ButtonsInv /\ Always /\ Marks
<1> SUFFICES ASSUME Init PROVE AnnouncementsHold /\ ButtonsInv /\ Always /\ Marks
  OBVIOUS
<1>1. /\ event = [e \in Events |-> NoMeeting] /\ pattern = 0 /\ outbox = <<>> /\ cursor = 0
      /\ follows = TRUE /\ features = {"new", "changes"} /\ bound = TRUE /\ shut = FALSE
      /\ messages = <<>> /\ notices = <<>> /\ mirror = [e \in Events |-> 0] /\ delivered = {}
      /\ work = NoWork /\ hand = [h \in Hands |-> NoHand] /\ crossed = {} /\ unheard = {} /\ faults = 0
  BY DEF Init, PollsInit
<1>2. /\ \A e \in Events : event[e].state = "none" /\ mirror[e] = 0
      /\ \A h \in Hands : hand[h].step = "idle"
      /\ work.step = "idle" /\ 1 \in Events /\ Len(outbox) = 0 /\ DOMAIN outbox = {} /\ DOMAIN messages = {} /\ DOMAIN notices = {}
  BY <1>1, NothingIsTyped, EventsAreNumbers
<1>3. AnnouncementTypes
  <2>1. event \in [Events -> Meeting] /\ mirror \in [Events -> Nat] /\ hand \in [Hands -> Press] /\ work \in Work
    BY <1>1, NothingIsTyped
  <2>2. outbox \in Seq(Entry) /\ messages \in Seq(Message) /\ notices \in Seq(Nat) /\ delivered \subseteq Delivery
    BY <1>1
  <2>3. /\ features \subseteq {"new", "changes"} /\ follows \in BOOLEAN /\ bound \in BOOLEAN /\ shut \in BOOLEAN
        /\ crossed \subseteq DOMAIN messages /\ unheard \subseteq Events /\ pattern \in Nat /\ cursor \in Nat /\ faults \in Nat
    BY <1>1
  <2>4. QED
    BY <2>1, <2>2, <2>3 DEF AnnouncementTypes
<1>4. LogInv
  BY <1>1, <1>2 DEF LogInv, Unborn
<1>5. WorkInv
  BY <1>1, <1>2 DEF WorkInv
<1>6. Settled("post") = {} /\ ~Posted /\ ~Posting /\ ~Seeking /\ Kept = {}
  BY <1>1, <1>2 DEF Settled, Posted, Posting, Seeking, Kept
<1>7. HeldInv
  BY <1>2, <1>6 DEF HeldInv
<1>8. SaysInv
  BY <1>2, <1>6 DEF SaysInv, ShownInv, SettledRightly, FirstInv
<1>11. ButtonsInv
  <2>1. accepts = {} /\ checked = {} /\ asking = FALSE /\ \A m \in Polls : poll[m].offer = <<>>
    BY DEF Init, PollsInit, NoPoll
  <2>2. \A m \in Polls : DOMAIN poll[m].offer = {}
    BY <2>1
  <2>3. asking \in BOOLEAN
    BY <2>1
  <2>4. QED
    BY <2>1, <2>2, <2>3 DEF ButtonsInv
<1>12. NamedInv /\ AtHand
  BY <1>1, <1>2, <1>6 DEF NamedInv, AtHand
<1>13. OnceInv /\ NoticeInv
  <2>1. \A n : PostedFor(n) = {} /\ NoticesFor(n) = {}
    BY <1>2 DEF PostedFor, NoticesFor
  <2>2. \A n : Cardinality(PostedFor(n)) = 0 /\ Cardinality(NoticesFor(n)) = 0
    BY <2>1, FS_EmptySet
  <2>3. \A n : faults + One(PostMade(n)) \in {0, 1} /\ faults + One(NoticeMade(n)) \in {0, 1}
    BY <1>1 DEF One
  <2>4. QED
    BY <1>1, <2>2, <2>3 DEF OnceInv, NoticeInv
<1>14. Marks
  BY <1>2 DEF Init, Marks
<1>15. QED
  BY <1>3, <1>4, <1>5, <1>7, <1>8, <1>11, <1>12, <1>13, <1>14 DEF AnnouncementsHold, Always

\* Every step but those that put the cursor back.
LEMMA AnnouncementStepsHold ==
  ASSUME AnnouncementsHold, [Next]_vars, ~(cursor' < cursor)
  PROVE  AnnouncementsHold'
<1>1. AnnouncementTypes /\ LogInv
  BY DEF AnnouncementsHold
<1>2. CASE UNCHANGED vars
  BY <1>1, <1>2, PollStepsAreQuiet, QuietHolds DEF vars
<1>3. CASE PollStep
  BY <1>1, <1>3, PollStepsAreQuiet, QuietHolds DEF PollStep
<1>4. CASE CreatesRepeat
  <2>1. CASE \E x \in Entry : Grows(x)
    BY <2>1, HoldGrows
  <2>2. CASE UNCHANGED <<site, server, channel, records, bot, pasts, faults>>
    BY <1>1, <1>4, <2>2, PollStepsAreQuiet, QuietHolds DEF CreatesRepeat
  <2>3. QED
    BY <1>1, <1>4, <2>1, <2>2, RepeatGrows
<1>5. CASE Website
  BY <1>1, <1>5, WebsiteGrows, HoldGrows
<1>6. CASE Manages
  BY <1>1, <1>6, ManagesIsQuiet, QuietHolds
<1>7. CASE Handler
  BY <1>7, TakesHolds, PostNewHolds, RecordPostHolds, RecordAnnouncementHolds, FindAnnouncementHolds,
     EditHolds, RecordEditHolds, NoticeHolds, RecordNoticeHolds DEF Handler
<1>8. CASE AnnouncementFault \/ Stops
  BY <1>1, <1>8, FaultForgets, StopForgets, QuietHolds DEF Quiet, Forgets
<1>9. ASSUME NEW h \in Hands, Board(h)
      PROVE  AnnouncementsHold'
  <2>1. CASE (\E e \in Events, act \in Acts : Presses(h, e, act)) \/ Refused(h)
    BY <1>1, <2>1, HandsAreQuiet, QuietHolds
  <2>2. CASE Changes(h)
    BY <1>1, <2>2, ChangesGrow, HoldGrows
  <2>3. CASE PostsAgain(h)
    BY <2>3, PostsAgainHolds
  <2>4. CASE RecordsAgain(h)
    BY <2>4, RecordsAgainHolds
  <2>5. QED
    BY <1>9, <2>1, <2>2, <2>3, <2>4 DEF Board
<1>10. QED
  BY <1>2, <1>3, <1>4, <1>5, <1>6, <1>7, <1>8, <1>9 DEF Next, Moves

\* The entries are only added to.
LEMMA MarksHold ==
  ASSUME Always, Marks, [Next]_vars
  PROVE  Marks' /\ (reached' = 0 => reached = 0 /\ ~(cursor' < cursor))
<1>1. /\ AnnouncementTypes /\ LogInv /\ cursor \in Nat /\ cursor <= Len(outbox) /\ Len(outbox) \in Nat
      /\ reached \in Nat /\ reached <= Len(outbox) /\ redone \subseteq Events
  BY DEF Always, AnnouncementTypes, AtHand, Marks
<1>2. cursor' \in Nat
  BY AlwaysHolds DEF Always, AnnouncementTypes
<1>3. Len(outbox') \in Nat /\ Len(outbox) <= Len(outbox')
  <2>1. CASE UNCHANGED outbox
    BY <1>1, <2>1
  <2>2. CASE \E x \in Entry : Grows(x)
    BY <1>1, <2>2, EntriesStand
  <2>3. CASE PollStep \/ Manages \/ Handler \/ AnnouncementFault \/ Stops \/ UNCHANGED vars
    <3>1. UNCHANGED site
      BY <2>3 DEF PollStep, Manages, Handler, AnnouncementFault, Stops, Takes, PostNew, RecordPost, RecordAnnouncement,
                  FindAnnouncement, Edit, RecordEdit, Notice, RecordNotice, vars
    <3>2. QED
      BY <2>1, <3>1 DEF site
  <2>4. CASE CreatesRepeat
    BY <1>1, <2>1, <2>2, <2>4, RepeatGrows DEF site
  <2>5. CASE Website
    BY <1>1, <2>2, <2>5, WebsiteGrows
  <2>6. ASSUME NEW h \in Hands, Board(h)
        PROVE  Len(outbox') \in Nat /\ Len(outbox) <= Len(outbox')
    <3>1. CASE Changes(h)
      BY <1>1, <2>2, <3>1, ChangesGrow
    <3>2. CASE ~Changes(h)
      <4>1. UNCHANGED site
        BY <2>6, <3>2 DEF Board, Presses, Refused, PostsAgain, RecordsAgain
      <4>2. QED
        BY <2>1, <4>1 DEF site
    <3>3. QED
      BY <3>1, <3>2
  <2>7. QED
    BY <2>3, <2>4, <2>5, <2>6 DEF Next, Moves
<1>4. CASE UNCHANGED vars
  BY <1>1, <1>4 DEF vars, replay, site, bot, handler, Marks
<1>5. CASE Remembers
  <2>1. reached' = IF cursor' < cursor /\ reached < cursor THEN cursor ELSE reached
    BY <1>5 DEF Remembers
  <2>2. redone' \subseteq Events
    BY <1>1, <1>5 DEF Remembers, Redrawn, Brought
  <2>3. QED
    BY <1>1, <1>2, <1>3, <2>1, <2>2 DEF Marks
<1>6. QED
  BY <1>4, <1>5 DEF Next

\* What holds of the announcements is what the runs check.
LEMMA HoldsType == PollsHold /\ ButtonsInv /\ Always /\ Marks => TypeOK
<1> SUFFICES ASSUME PollsHold, ButtonsInv, Always, Marks PROVE TypeOK
  OBVIOUS
<1>1. PollsTypeOK
  BY PollsAreTyped
<1>2. AnnouncementTypes /\ NamedInv
  BY DEF Always
<1>3. \A e \in Events : event[e].state \in {"none", "on", "gone"} /\ mirror[e] \in 0..Len(messages)
  <2>1. event \in [Events -> Meeting] /\ mirror \in [Events -> Nat] /\ messages \in Seq(Message)
    BY <1>2 DEF AnnouncementTypes
  <2>2. \A e \in Events : mirror[e] # 0 => mirror[e] \in DOMAIN messages
    BY <1>2 DEF NamedInv
  <2>3. DOMAIN messages = 1..Len(messages) /\ Len(messages) \in Nat
    BY <2>1
  <2>4. QED
    BY <2>1, <2>2, <2>3 DEF Meeting
<1>4. /\ features \subseteq {"new", "changes"} /\ {follows, bound, shut} \subseteq BOOLEAN
      /\ crossed \subseteq DOMAIN messages /\ unheard \subseteq Events
  BY <1>2 DEF AnnouncementTypes
<1>5. work.step \in WorkSteps /\ \A h \in Hands : hand[h].step \in {"idle", "act", "record"} /\ hand[h].act \in Acts \cup {"none"}
  BY <1>2 DEF AnnouncementTypes, Work, Press
<1>6. Range(notices) \subseteq DOMAIN outbox
  BY <1>2 DEF NamedInv, Range
<1>7. reached \in 0..Len(outbox) /\ redone \subseteq Events
  <2>1. Len(outbox) \in Nat
    BY <1>2 DEF AnnouncementTypes
  <2>2. QED
    BY <2>1 DEF Marks
<1>8. QED
  BY <1>1, <1>3, <1>4, <1>5, <1>6, <1>7 DEF TypeOK, WorkSteps

LEMMA AlwaysTellsOnce == Always => ToldOnce /\ NoticesFollow
<1> SUFFICES ASSUME Always PROVE ToldOnce /\ NoticesFollow
  OBVIOUS
<1>1. /\ AnnouncementTypes /\ OnceInv /\ NoticeInv
      /\ cursor \in Nat /\ faults \in Nat /\ DOMAIN outbox \subseteq Nat \ {0}
  BY DEF Always, AnnouncementTypes
<1>2. ToldOnce
  <2>1. ASSUME NEW n \in DOMAIN outbox
        PROVE  Cardinality(PostedFor(n)) <= 1 + faults /\ Cardinality(NoticesFor(n)) <= 1 + faults
    <3>1. Cardinality(PostedFor(n)) <= faults + One(PostMade(n)) /\ Cardinality(NoticesFor(n)) <= faults + One(NoticeMade(n))
      BY <1>1 DEF OnceInv
    <3>2. Cardinality(PostedFor(n)) \in Nat /\ Cardinality(NoticesFor(n)) \in Nat
      BY <1>1, PostedAreFinite
    <3>3. One(PostMade(n)) \in 0..1 /\ One(NoticeMade(n)) \in 0..1
      BY DEF One
    <3>4. QED
      BY <1>1, <3>1, <3>2, <3>3
  <2>2. QED
    BY <2>1 DEF ToldOnce, PostedFor, NoticesFor
<1>3. NoticesFollow
  <2>1. ASSUME NEW d \in delivered, d.purpose = "edit", HasNotice(outbox[d.entry]), ~(d.entry > cursor)
        PROVE  Excused(d.entry)
    <3>1. d.entry \in Nat /\ d.entry <= cursor
      BY <1>1, <2>1 DEF AnnouncementTypes, Delivery
    <3>2. QED
      BY <1>1, <2>1, <3>1 DEF NoticeInv
  <2>2. QED
    BY <2>1 DEF NoticesFollow, Excused
<1>4. QED
  BY <1>2, <1>3

LEMMA HoldsTellsAnnouncements == AnnouncementsHold /\ Always => AnnouncementsTell
<1> SUFFICES ASSUME AnnouncementsHold, Always PROVE AnnouncementsTell
  OBVIOUS
<1>1. /\ AnnouncementTypes /\ WorkInv /\ SaysInv
      /\ cursor \in Nat /\ faults \in Nat /\ outbox \in Seq(Entry) /\ DOMAIN outbox = 1..Len(outbox) /\ Len(outbox) \in Nat
  BY DEF AnnouncementsHold, AnnouncementTypes
<1>2. ASSUME Rests, NEW e \in Kept PROVE IsSo(e, ShownOf(e))
  <2>1. ~Overtaken(e, cursor + 1)
    BY <1>1, <1>2 DEF Rests, Overtaken
  <2>2. ~Awaited(e)
    BY <1>1, <1>2 DEF Rests, Awaited
  <2>3. So(e)
    BY <1>1, <2>1, <2>2 DEF SaysInv, ShownInv
  <2>4. QED
    BY <2>3 DEF So, Right, Borrowed, IsSo
<1>3. QED
  BY <1>2, AlwaysTellsOnce DEF AnnouncementsTell

\* Every variable of the polls, the repeats and the announcements stays what it is
\* said to be, wherever the handlers fail, the bot stops and the cursor is put back:
\* the buttons carry evenings that VIA has offered, and the row of a meeting names a
\* message that was posted (mirror/eventMirrors.ts).
THEOREM AnnouncementsAreTyped == Spec => []TypeOK
<1>1. Init => PollsHold /\ ButtonsInv /\ Always /\ Marks
  BY PollsStart, CreationStarts, AnnouncementsStart DEF PollsHold
<1>2. PollsHold /\ ButtonsInv /\ Always /\ Marks /\ [Next]_vars => (PollsHold /\ ButtonsInv /\ Always /\ Marks)'
  BY StepsHold, ButtonsHold, AlwaysHolds, MarksHold
<1>3. PollsHold /\ ButtonsInv /\ Always /\ Marks => TypeOK
  BY HoldsType
<1>4. QED
  BY <1>1, <1>2, <1>3, PTL DEF Spec

\* What was new or moved is said once beyond the failures (announce/handlers.ts:51-53),
\* and said at all unless the channel was closed, however often the cursor is put back
\* over entries that were handled (jobs/housekeeping.ts:186, :221).
THEOREM EntriesAreToldOnce == Spec => [](ToldOnce /\ NoticesFollow)
<1>1. Init => Always
  BY AnnouncementsStart
<1>2. Always /\ [Next]_vars => Always'
  BY AlwaysHolds
<1>3. Always => ToldOnce /\ NoticesFollow
  BY AlwaysTellsOnce
<1>4. QED
  BY <1>1, <1>2, <1>3, PTL DEF Spec

\* Until the cursor is put back over an entry, that is: whatever is published, changed
\* and deleted on VIA, whatever a board presses and a manager changes meanwhile, and
\* where a handler fails or the bot stops, an announcement that can still be kept
\* current shows the event as it is now once nothing is under way
\* (announce/handlers.ts:30-36).
THEOREM AnnouncementsAreTrue == Spec => [](reached = 0 => AnnouncementsTell)
<1> DEFINE Told0 == Always /\ Marks /\ (reached = 0 => AnnouncementsHold)
<1>1. Init => Told0
  BY AnnouncementsStart
<1>2. Told0 /\ [Next]_vars => Told0'
  <2> SUFFICES ASSUME Told0, [Next]_vars PROVE Told0'
    OBVIOUS
  <2>1. Always' /\ Marks' /\ (reached' = 0 => reached = 0 /\ ~(cursor' < cursor))
    BY AlwaysHolds, MarksHold
  <2>2. ASSUME reached' = 0 PROVE AnnouncementsHold'
    BY <2>1, <2>2, AnnouncementStepsHold
  <2>3. QED
    BY <2>1, <2>2
<1>3. Told0 => (reached = 0 => AnnouncementsTell)
  BY HoldsTellsAnnouncements
<1> HIDE DEF Told0
<1>4. QED
  BY <1>1, <1>2, <1>3, PTL DEF Spec
=============================================================================
