--------------------------- MODULE MCOutboxConsumer ---------------------------
(***************************************************************************)
(* Instances of OutboxConsumer for TLC: a few entries and two channels.    *)
(***************************************************************************)
EXTENDS OutboxConsumer

CONSTANTS chanA, chanB

MCTargets == {chanA, chanB}

\* The servers may come and go between two handlings of the first entry, and
\* every handling of the others finds both channels.
MCAudience ==
  [e \in 1..NumEntries |-> IF e = 1 THEN SUBSET MCTargets ELSE {MCTargets}]

\* The second entry is of a kind nothing handles.
MCUnhandled == {2}

\* The first entry's post into one channel is refused every time.
MCPoison == {<<1, chanA>>}
=============================================================================
