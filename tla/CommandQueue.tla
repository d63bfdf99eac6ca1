---------------------------- MODULE CommandQueue ----------------------------
(***************************************************************************)
(* What the launcher promises about the commands that run in its main      *)
(* thread: they wait in one queue, are served one at a time and in the     *)
(* order they were accepted, each at most once, and none is taken after    *)
(* the launcher has closed.  It promises neither that a taken command is   *)
(* carried out to its end (an interrupt may end or drop it) nor that the   *)
(* commands left in the queue when it closes are ever served.              *)
(***************************************************************************)
EXTENDS Sequences

CONSTANT Item

VARIABLES queue,    \* commands accepted and not yet taken, oldest first
          serving,  \* <<m>> while m is being served, <<>> otherwise
          closed    \* no command is taken any more

vars == <<queue, serving, closed>>

Init == queue = <<>> /\ serving = <<>> /\ closed = FALSE

Accept == /\ \E m \in Item : queue' = Append(queue, m)
          /\ UNCHANGED <<serving, closed>>

Take == /\ ~closed
        /\ serving = <<>>
        /\ queue # <<>>
        /\ serving' = <<Head(queue)>>
        /\ queue' = Tail(queue)
        /\ closed' = closed

\* The command served is over, or an interrupt dropped it.
Release == /\ serving # <<>>
           /\ serving' = <<>>
           /\ UNCHANGED <<queue, closed>>

\* A launcher may close while it still serves a command (quit, last of all).
Close == closed' = TRUE /\ UNCHANGED <<queue, serving>>

\* An interrupt that drops the command served and closes the launcher.
Abandon == /\ serving # <<>>
           /\ serving' = <<>>
           /\ closed' = TRUE
           /\ queue' = queue

Next == Accept \/ Take \/ Release \/ Close \/ Abandon

Spec == Init /\ [][Next]_vars
=============================================================================
