---------------------------- MODULE MCAttackLog -----------------------------
(* Instances of AttackLog for TLC.                                         *)
EXTENDS AttackLog

CONSTANTS worker, intel

FinishersOne == {worker}

\* Two attacks with updates and a clear or a flash call that goes wrong; or up to
\* six of which none is reported before the last is logged.
ManyOrDisturbed ==
    \/ atts' <= 2 /\ nextId' <= 3 /\ clears' + faults' <= 1
    \/ /\ clears' + faults' = 0 /\ intelHand' = {} /\ nextId' = atts' + 1
       /\ 1 .. atts' \subseteq todo' \cup {h.id : h \in held'}

=============================================================================
