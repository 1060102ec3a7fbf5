---------------------------- MODULE MeetingPolls ----------------------------
(***************************************************************************)
(* When to meet, from the recommendation to the repeat: the command and the *)
(* buttons (commands/scheduler.ts), what a button carries                   *)
(* (scheduler/proposal.ts), the polls written down (scheduler/polls.ts) and *)
(* the job that closes them (jobs/schedulerPolls.ts).  The repeat is created *)
(* by a request that may find VIA busy or lose its answer (via/http.ts).     *)
(*                                                                         *)
(* One organization asks one question in one channel.  VIA may answer it    *)
(* differently each time, and a button pressed weeks later carries the      *)
(* answer of the day it was drawn.                                          *)
(***************************************************************************)
EXTENDS Integers, Sequences, SequencesExt, FiniteSets

CONSTANTS
  Evenings,    \* the evenings VIA may recommend: a time and a place each
  Words,       \* what a poll says of an evening, cut to what an answer may hold
  Offers,      \* what VIA may answer: [picks, options], sequences of [at, score]
  Shown,       \* how many evenings a recommendation shows
  Polled,      \* how many evenings a poll offers
  Polls,       \* the polls that may be opened, in the order they are
  MostVotes,   \* bound on the votes of an answer
  Scenes       \* [offers, answers, polls, votes, repeats, closes, faults, ...]: what VIA
               \* may answer at first and how often the answer changes, how many
               \* polls are opened, votes cast and repeats created, whether messages
               \* and the channel may go, and how often something fails

ASSUME MeetingPollsAssumption ==
  /\ {Shown, Polled} \subseteq Nat \ {0}
  /\ Polls \subseteq Nat \ {0}
  /\ MostVotes \in Nat
  /\ \A o \in Offers : {o.picks, o.options} \subseteq Seq([at : Evenings, score : Nat])
  /\ \A s \in Scenes : s.offers \subseteq Offers

VARIABLES
  offered,   \* VIA: what it answers now
  series,    \* VIA: the repeats created, each with the evening it was created from
  accepts,   \* Discord: the evenings on buttons that accept one
  names,     \* Discord: the evenings on buttons that name a repeat, and on their forms
  asking,    \* Discord: whether the button that asks in a poll is shown
  poll,      \* Discord: each poll, with the votes of each answer
  results,   \* Discord: the results posted for each poll
  reachable, \* Discord: whether the bot may use the channel
  row,       \* Scheduler_Polls: whether each poll is written down, and closed
  opening,   \* the poll that is posted and about to be written down, or 0
  pass,      \* the job: the polls it has still to close, and its step with the first
  call,      \* the request that creates a repeat: its step, and the evening it is of
  scene, answers, votes, faults,
  forms, told, \* history: the forms sent back, and how often somebody was told that
               \* the repeat was created, that VIA did not answer, that something
               \* went wrong, and nothing as the bot stopped
  checked,   \* history: the evenings VIA still recommended as one was accepted
  unsaved    \* history: the polls whose writing down failed

board    == <<accepts, names, asking>>
tally    == <<poll, results, reachable>>
pollJob  == <<row, opening, pass>>
creation == <<call, forms, told>>
spent    == <<scene, answers, votes, faults>>
pollVars == <<offered, series, board, tally, pollJob, creation, spent, checked, unsaved>>

\* A score is weighed in halves here, and a button carries whole ones: half is
\* rounded up.
Rounded(score) == (score + 1) \div 2
ProposalOf(candidate) == [at |-> candidate.at, score |-> Rounded(candidate.score)]
Proposals == {ProposalOf(c) : c \in UNION {Range(o.picks) \cup Range(o.options) : o \in Offers}}
Candidates == IF offered.picks # <<>> THEN offered.picks ELSE offered.options
FirstOf(list, n) == SubSeq(list, 1, IF n < Len(list) THEN n ELSE Len(list))

NoPoll == [state |-> "none", offer |-> <<>>, votes |-> <<>>, past |-> FALSE]
NoPass == [step |-> "idle", due |-> {}, counts |-> <<>>]

NoCall == [step |-> "none", of |-> ProposalOf([at |-> 0, score |-> 0])]

PollsInit ==
  /\ scene \in Scenes /\ offered \in scene.offers
  /\ series = <<>> /\ accepts = {} /\ names = {} /\ asking = FALSE
  /\ poll = [m \in Polls |-> NoPoll] /\ results = [m \in Polls |-> <<>>]
  /\ reachable = TRUE
  /\ row = [m \in Polls |-> "none"] /\ opening = 0 /\ pass = NoPass
  /\ call = NoCall /\ forms = 0 /\ told = [created |-> 0, lost |-> 0, wrong |-> 0, nothing |-> 0]
  /\ answers = 0 /\ votes = 0 /\ faults = 0
  /\ checked = {} /\ unsaved = {}

-----------------------------------------------------------------------------
(* What others do.                                                          *)

\* VIA's: rooms are booked, terms pass, and the answer is another.
AnswersAnew ==
  /\ answers < scene.answers
  /\ \E o \in Offers \ {offered} : offered' = o
  /\ answers' = answers + 1
  /\ UNCHANGED <<series, board, tally, pollJob, creation, scene, votes, faults, checked, unsaved>>

\* Discord's: a member answers, until the counts are final.
Votes(m) ==
  /\ poll[m].state \in {"open", "ended"}
  /\ votes < scene.votes
  /\ \E i \in DOMAIN poll[m].votes :
       /\ poll[m].votes[i] < MostVotes
       /\ poll' = [poll EXCEPT ![m].votes[i] = @ + 1]
  /\ votes' = votes + 1
  /\ UNCHANGED <<offered, series, board, results, reachable, pollJob, creation, scene, answers, faults, checked, unsaved>>

\* The hours of a poll are over; Discord counts once more and then says so.
Ends(m) ==
  /\ poll[m].state # "none" /\ ~poll[m].past
  /\ poll' = [poll EXCEPT ![m].past = TRUE, ![m].state = IF @ = "open" THEN "ended" ELSE @]
  /\ UNCHANGED <<offered, series, board, results, reachable, pollJob, creation, spent, checked, unsaved>>
Finalizes(m) ==
  /\ poll[m].state = "ended"
  /\ poll' = [poll EXCEPT ![m].state = "final"]
  /\ UNCHANGED <<offered, series, board, results, reachable, pollJob, creation, spent, checked, unsaved>>

\* Somebody deletes the message, or closes the channel to the bot.
Deletes(m) ==
  /\ scene.closes
  /\ poll[m].state \in {"open", "ended", "final"}
  /\ poll' = [poll EXCEPT ![m].state = "gone"]
  /\ UNCHANGED <<offered, series, board, results, reachable, pollJob, creation, spent, checked, unsaved>>
Closes ==
  /\ scene.closes /\ reachable
  /\ reachable' = FALSE
  /\ UNCHANGED <<offered, series, board, poll, results, pollJob, creation, spent, checked, unsaved>>

-----------------------------------------------------------------------------
(* The command and the buttons.                                             *)

Recommends ==
  /\ scene.polls > 0
  /\ Candidates # <<>>
  /\ accepts' = accepts \cup {ProposalOf(c) : c \in Range(FirstOf(Candidates, Shown))}
  /\ asking' = TRUE
  /\ UNCHANGED <<offered, series, names, tally, pollJob, creation, spent, checked, unsaved>>

\* The poll is posted first and written down afterwards.
PostPoll(m) ==
  /\ asking /\ reachable /\ opening = 0
  /\ poll[m].state = "none" /\ m <= scene.polls
  /\ \A n \in Polls : n < m => poll[n].state # "none"
  /\ Candidates # <<>>
  /\ LET offer == FirstOf(Candidates, Polled)
     IN  poll' = [poll EXCEPT ![m] = [state |-> "open", offer |-> offer,
                                      votes |-> [i \in DOMAIN offer |-> 0], past |-> FALSE]]
  /\ opening' = m
  /\ UNCHANGED <<offered, series, board, results, reachable, row, pass, creation, spent, checked, unsaved>>
SavePoll ==
  /\ opening # 0
  /\ row' = [row EXCEPT ![opening] = "open"]
  /\ opening' = 0
  /\ UNCHANGED <<offered, series, board, tally, pass, creation, spent, checked, unsaved>>

\* An evening is found again by its time and its place, whatever it scores now.
Matching(proposal) == {i \in DOMAIN Candidates : Candidates[i].at = proposal.at}
Still(proposal) == \E i \in Matching(proposal) :
  Rounded(Candidates[i].score) = proposal.score /\ \A j \in Matching(proposal) : i <= j

\* Accepting one asks VIA again: the same evening may be named, and a changed
\* one is shown as it now stands, to be accepted or not.
Accepts(proposal) ==
  /\ scene.repeats > 0
  /\ proposal \in accepts
  /\ \/ /\ Still(proposal)
        /\ names' = names \cup {proposal}
        /\ UNCHANGED accepts
     \/ /\ ~Still(proposal) /\ Candidates # <<>>
        /\ LET best == IF Matching(proposal) # {}
                         THEN CHOOSE i \in Matching(proposal) : \A j \in Matching(proposal) : i <= j
                         ELSE 1
           IN  accepts' = accepts \cup {ProposalOf(Candidates[best])}
        /\ UNCHANGED names
  /\ checked' = checked \cup {ProposalOf(c) : c \in Range(Candidates)}
  /\ UNCHANGED <<offered, series, asking, tally, pollJob, creation, spent, unsaved>>

\* The form that names a repeat creates it, and asks for no recommendation again.
Submits(proposal) ==
  /\ proposal \in names
  /\ call.step = "none" /\ forms < scene.repeats
  /\ forms' = forms + 1
  /\ call' = [step |-> "first", of |-> proposal]
  /\ UNCHANGED <<offered, series, board, tally, pollJob, told, spent, checked, unsaved>>

\* The request: VIA creates the repeat, refuses, or is busy.  A first busy answer
\* is waited out and the request sent again, a second one is told.
Sent == call.step \in {"first", "second"}
Creates ==
  /\ Sent
  /\ series' = Append(series, call.of)
  /\ call' = [call EXCEPT !.step = "created"]
  /\ UNCHANGED <<offered, board, tally, pollJob, forms, told, spent, checked, unsaved>>
Refuses ==
  /\ Sent
  /\ call' = NoCall
  /\ UNCHANGED <<offered, series, board, tally, pollJob, forms, told, spent, checked, unsaved>>
Busy ==
  /\ Sent
  /\ call' = IF call.step = "first" THEN [call EXCEPT !.step = "waiting"] ELSE NoCall
  /\ UNCHANGED <<offered, series, board, tally, pollJob, forms, told, spent, checked, unsaved>>
Retries ==
  /\ call.step = "waiting"
  /\ call' = [call EXCEPT !.step = "second"]
  /\ UNCHANGED <<offered, series, board, tally, pollJob, forms, told, spent, checked, unsaved>>
Tells ==
  /\ call.step = "created"
  /\ told' = [told EXCEPT !.created = @ + 1]
  /\ call' = NoCall
  /\ UNCHANGED <<offered, series, board, tally, pollJob, forms, spent, checked, unsaved>>

\* VIA cannot be reached, or its answer takes longer than is waited for: that it
\* did not answer is told whether the repeat was created or not, and nothing is
\* sent again.  An answer that is cut off as its body is read is no answer of VIA
\* to the command, which fails as it does for anything unforeseen.
Loses ==
  /\ call.step \in {"first", "second", "created"}
  /\ faults < scene.faults
  /\ faults' = faults + 1
  /\ \/ told' = [told EXCEPT !.lost = @ + 1]
     \/ told' = [told EXCEPT !.wrong = @ + 1]
  /\ call' = NoCall
  /\ UNCHANGED <<offered, series, board, tally, pollJob, forms, scene, answers, votes, checked, unsaved>>

-----------------------------------------------------------------------------
(* The job that closes the polls.                                           *)

Due == {m \in Polls : row[m] = "open" /\ poll[m].past}
StartPass ==
  /\ pass.step = "idle" /\ Due # {}
  /\ pass' = [NoPass EXCEPT !.step = "read", !.due = Due]
  /\ UNCHANGED <<offered, series, board, tally, row, opening, creation, spent, checked, unsaved>>

\* The polls are taken in the order they close, and the pass goes on without
\* the one it is at.
AtPoll == CHOOSE m \in pass.due : \A n \in pass.due : m <= n
NextPoll == IF pass.due = {AtPoll} THEN NoPass ELSE [NoPass EXCEPT !.step = "read", !.due = pass.due \ {AtPoll}]

\* What a count says about being the last one.
SettlesWhenOver(state) == state \in {"ended", "final"}
Settles(state) == state = "final"

ReadPoll ==
  /\ pass.step = "read"
  /\ LET held == poll[AtPoll]
     IN  pass' = CASE ~reachable \/ held.state = "gone" -> [pass EXCEPT !.step = "record"]
                   [] reachable /\ Settles(held.state)  -> [pass EXCEPT !.step = "post", !.counts = held.votes]
                   [] OTHER                             -> NextPoll
  /\ UNCHANGED <<offered, series, board, tally, row, opening, creation, spent, checked, unsaved>>

\* The first answer with more votes than any before it; an evening is found by
\* its words.
Winner(counts) == {i \in DOMAIN counts :
  /\ counts[i] > 0
  /\ \A j \in DOMAIN counts : counts[j] <= counts[i] /\ (j < i => counts[j] < counts[i])}
EveningOf(offer, i) ==
  offer[CHOOSE j \in DOMAIN offer : /\ Words[offer[j].at] = Words[offer[i].at]
                                    /\ \A k \in 1..(j - 1) : Words[offer[k].at] # Words[offer[i].at]]
WinnerAsOffered(offer, counts) == [votes |-> 0, button |-> offer[1]]
ResultOf(offer, counts) ==
  IF Winner(counts) = {}
    THEN [votes |-> 0, button |-> ProposalOf(offer[1])]
    ELSE LET i == CHOOSE i \in Winner(counts) : TRUE
         IN  [votes |-> counts[i], button |-> ProposalOf(EveningOf(offer, i))]

PostResult ==
  /\ pass.step = "post"
  /\ IF ~reachable THEN UNCHANGED <<results, accepts>>
     ELSE LET m == AtPoll
              result == ResultOf(poll[m].offer, pass.counts)
          IN  /\ results' = [results EXCEPT ![m] = Append(@, result)]
              /\ accepts' = accepts \cup {result.button}
  /\ pass' = [pass EXCEPT !.step = "record"]
  /\ UNCHANGED <<offered, series, names, asking, poll, reachable, row, opening, creation, spent, checked, unsaved>>

RecordClosed ==
  /\ pass.step = "record"
  /\ row' = [row EXCEPT ![AtPoll] = "closed"]
  /\ pass' = NextPoll
  /\ UNCHANGED <<offered, series, board, tally, opening, creation, spent, checked, unsaved>>

-----------------------------------------------------------------------------
(* What fails.  A poll that cannot be read is passed over; anything else     *)
(* ends the pass, or leaves a poll that nothing was written down of.         *)

Strikes == faults < scene.faults /\ faults' = faults + 1
NotSaved == IF opening = 0 THEN unsaved ELSE unsaved \cup {opening}

PollFault ==
  /\ Strikes
  /\ \/ /\ pass.step = "read"
        /\ pass' = NextPoll
        /\ UNCHANGED <<opening, unsaved>>
     \/ /\ pass.step # "idle"
        /\ pass' = NoPass
        /\ UNCHANGED <<opening, unsaved>>
     \/ /\ opening # 0
        /\ opening' = 0
        /\ unsaved' = NotSaved
        /\ UNCHANGED pass
  /\ UNCHANGED <<offered, series, board, tally, row, creation, scene, answers, votes, checked>>

\* The bot stops: whatever it was at has ended, and nobody is told what became of
\* a request.
PollsStop ==
  /\ Strikes
  /\ pass' = NoPass /\ opening' = 0 /\ unsaved' = NotSaved
  /\ call' = NoCall
  /\ told' = IF call.step = "none" THEN told ELSE [told EXCEPT !.nothing = @ + 1]
  /\ UNCHANGED <<offered, series, board, tally, row, forms, scene, answers, votes, checked>>

PollsMove ==
  \/ AnswersAnew \/ Closes \/ Recommends \/ SavePoll
  \/ Refuses \/ Busy \/ Retries \/ Tells \/ Loses
  \/ StartPass \/ ReadPoll \/ PostResult \/ RecordClosed \/ PollFault
  \/ \E m \in Polls : Votes(m) \/ Ends(m) \/ Finalizes(m) \/ Deletes(m) \/ PostPoll(m)
  \/ \E p \in Proposals : Accepts(p) \/ Submits(p)

-----------------------------------------------------------------------------
PollsTypeOK ==
  /\ offered \in Offers /\ Range(series) \subseteq Proposals
  /\ accepts \subseteq Proposals /\ names \subseteq Proposals /\ asking \in BOOLEAN
  /\ \A m \in Polls : /\ poll[m].state \in {"none", "open", "ended", "final", "gone"}
                      /\ DOMAIN poll[m].votes = DOMAIN poll[m].offer
                      /\ \A i \in DOMAIN results[m] : results[m][i].button \in Proposals
  /\ row \in [Polls -> {"none", "open", "closed"}]
  /\ opening \in Polls \cup {0}
  /\ pass.step \in {"idle", "read", "post", "record"} /\ pass.due \subseteq Polls
  /\ call.step \in {"none", "first", "waiting", "second", "created"}
  /\ call.step # "none" => call.of \in Proposals
  /\ unsaved \subseteq Polls

\* A result tells the most votes of the final count and carries the evening that
\* has them, or that nobody answered and the first evening.  An evening is found by
\* its words, so it is an earlier one of the poll where that one reads alike.
TellsTheCount(m, result) ==
  LET counts == poll[m].votes
      offer  == poll[m].offer
      EarlierAlike(i) == {j \in 1..(i - 1) : Words[offer[j].at] = Words[offer[i].at]}
  IN  /\ \A i \in DOMAIN counts : counts[i] <= result.votes
      /\ \E i \in DOMAIN counts :
           /\ counts[i] = result.votes
           /\ \E j \in {i} \cup EarlierAlike(i) : result.button = ProposalOf(offer[j])

\* The members are told what they chose (jobs/schedulerPolls.ts:25-27): each
\* result is that of the final count, it is posted once unless a step failed,
\* a poll is written off only if its result is posted or can no longer be, and
\* none is left open that nobody will close, unless writing it down failed.
\* And a repeat is created only from an evening that VIA still recommended, at
\* that score, as somebody accepted it (commands/scheduler.ts:330-335).
ResultsTell == \A m \in Polls :
  /\ \A i \in DOMAIN results[m] : TellsTheCount(m, results[m][i])
  /\ Len(results[m]) <= 1 + faults
  /\ row[m] = "closed" => results[m] # <<>> \/ poll[m].state = "gone" \/ ~reachable
  /\ poll[m].state # "none" /\ row[m] = "none" => opening = m \/ m \in unsaved
FailuresCost == Cardinality(unsaved) <= faults
RepeatsAreChecked == Range(series) \subseteq checked
\* No form creates two repeats, and whoever sent one back and was not told of the
\* repeat it created was told that VIA did not answer (via/http.ts:194-198) or
\* that something went wrong, or the bot stopped before it could tell.
AnswersAreTrue ==
  /\ Len(series) <= forms
  /\ LET untold == IF call.step = "created" THEN 1 ELSE 0
     IN  Len(series) - untold \in told.created..(told.created + told.lost + told.wrong + told.nothing)
PollsTell == ResultsTell /\ FailuresCost /\ RepeatsAreChecked /\ AnswersAreTrue
=============================================================================
