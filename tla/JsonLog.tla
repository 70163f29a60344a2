------------------------------- MODULE JsonLog -------------------------------
(***************************************************************************)
(* An append-only file of JSON lines, as the admin agent and the shell UI  *)
(* write and read theirs. A piece is what one Write left in the file. One  *)
(* that failed may leave a beginning of its line, possibly all but the     *)
(* newline, and what is written next then continues that line.             *)
(***************************************************************************)
EXTENDS Naturals, Sequences

Written(log, entry) == Append(log, [entry |-> entry, whole |-> TRUE, newline |-> TRUE])

\* What a failed Write may leave: nothing, or the beginning of the line.
WriteFailed(log, entry) ==
  {log} \cup {Append(log, [entry |-> entry, whole |-> w, newline |-> FALSE]) : w \in BOOLEAN}

\* The beginning of a piece: what was not whole does not become so.
Torn(piece, w) == [piece EXCEPT !.whole = @ /\ w, !.newline = FALSE]

\* What may be left when the power fails: everything that was synced, and any
\* beginning of what was not.
AfterPowerFailure(log, synced) ==
  {SubSeq(log, 1, n) : n \in synced..Len(log)}
    \cup {Append(SubSeq(log, 1, n), Torn(log[n + 1], w)) : n \in synced..(Len(log) - 1), w \in BOOLEAN}

\* Piece i has its line for itself.
Intact(log, i) ==
  /\ log[i].whole
  /\ i > 1 => log[i - 1].newline
  /\ i < Len(log) => log[i].newline

\* A reader that goes through all lines gives up at the first it cannot decode.
Decodes(log) == \A i \in DOMAIN log : Intact(log, i)

\* Bug: the last line counts only if it ends in a newline.
FindsTerminated(log, wanted) ==
  \E i \in DOMAIN log : log[i].newline /\ log[i].entry \in wanted /\ \A k \in 1..i : Intact(log, k)

\* One that looks for an entry stops as soon as it finds one.
Finds(log, wanted) ==
  \E i \in DOMAIN log : log[i].entry \in wanted /\ \A k \in 1..i : Intact(log, k)

Entries(log) == {log[i].entry : i \in {j \in DOMAIN log : log[j].whole}}

=============================================================================
