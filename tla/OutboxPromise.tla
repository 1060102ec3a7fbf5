---------------------------- MODULE OutboxPromise ----------------------------
(***************************************************************************)
(* What the outbox consumer promises the servers, without cursor, pages,   *)
(* attempts or crashes: entries are finished in the order they were        *)
(* written; a post is only made for an entry whose predecessors are all    *)
(* finished; a delivery is recorded only after it was made, and never made *)
(* again once it is recorded.                                              *)
(***************************************************************************)
EXTENDS Integers

CONSTANTS NumEntries, Targets

Entry == 1..NumEntries
Key == Entry \X Targets

VARIABLES
  sent,      \* how often each delivery was made
  recorded,  \* the deliveries known to have been made
  passed     \* the entries that are finished

promiseVars == <<sent, recorded, passed>>

Init ==
  /\ sent = [k \in Key |-> 0]
  /\ recorded = {}
  /\ passed = {}

Send(k) ==
  /\ k \notin recorded
  /\ \A d \in Entry : d < k[1] => d \in passed
  /\ sent' = [sent EXCEPT ![k] = @ + 1]
  /\ UNCHANGED <<recorded, passed>>

Confirm(k) ==
  /\ sent[k] > 0
  /\ recorded' = recorded \cup {k}
  /\ UNCHANGED <<sent, passed>>

Pass(e) ==
  /\ \A d \in Entry : d < e => d \in passed
  /\ passed' = passed \cup {e}
  /\ UNCHANGED <<sent, recorded>>

Next ==
  \/ \E k \in Key : Send(k)
  \/ \E k \in Key : Confirm(k)
  \/ \E e \in Entry : Pass(e)

Spec == Init /\ [][Next]_promiseVars
=============================================================================
