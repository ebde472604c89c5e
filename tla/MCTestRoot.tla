---------------------------- MODULE MCTestRoot ----------------------------
EXTENDS TestRoot, TLC

CONSTANTS x, y, z, u, v, w, s, t

Move(from, to) == [source |-> from, destination |-> to]

\* One request moves three files, the second wants one of its destinations and one of
\* its sources, the third uses the key of the first for another file.
MCRequests == {[key |-> "k1", items |-> <<Move(x, y), Move(u, v), Move(s, t)>>],
               [key |-> "k2", items |-> <<Move(w, y), Move(u, z)>>],
               [key |-> "k1", items |-> <<Move(w, z)>>]}

Symmetry == Permutations(Callers)

\* What still matters of a call, to a guard or to a property: nothing once it has
\* answered; where its files were at the start as long as it is alone, moves, and has
\* not failed to move one back.
Matters(k) ==
  IF k.stage = "idle" THEN Idle
  ELSE IF k.alone /\ ~ k.stuck /\ k.stage \in {"inspect", "check", "move", "undo"}
    THEN [k EXCEPT !.before = [l \in Paths(k.plan) |-> k.before[l]]]
  ELSE [k EXCEPT !.before = None, !.stuck = k.alone /\ k.stuck]

\* Of what was reconciled only the moves are asked for, by a compensation.
Underway ==
  <<where, [c \in Callers |-> Matters(call[c])], receipts, confirmed,
    {plan \in reconciled : plan.operation = "move"}, raced>>
=============================================================================
