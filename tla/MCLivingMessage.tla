--------------------------- MODULE MCLivingMessage ---------------------------
(***************************************************************************)
(* Instances of LivingMessage for TLC: the hourly job and the outbox       *)
(* handlers, and two channels a manager may bind.                          *)
(***************************************************************************)
EXTENDS LivingMessage

CONSTANTS job, handler, chanA, chanB

MCJob == {job}
MCBoth == {job, handler}
MCChannels == {chanA, chanB}

\* Both loops while a channel is bound once more, and the job alone while the
\* channels are bound away and back twice.
MCScenes == {[actors |-> MCBoth, rebinds |-> 1], [actors |-> MCJob, rebinds |-> 4]}
=============================================================================
