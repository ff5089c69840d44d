------------------------------ MODULE Journal ------------------------------
(***************************************************************************)
(* What the recorder promises of its files: one file per session, that     *)
(* only grows, by lines that are in no file yet.                           *)
(***************************************************************************)
EXTENDS Naturals, Sequences

CONSTANT Sessions

VARIABLE file   \* the lines of each session's recording, in their order

Lines(s) == {file[s][i] : i \in DOMAIN file[s]}

Init == file = [s \in Sessions |-> <<>>]

\* The file of s grows by a batch of lines, each of them new.
Grow(s) ==
  /\ \A t \in Sessions \ {s} : file'[t] = file[t]
  /\ Len(file'[s]) > Len(file[s])
  /\ \A i \in 1 .. Len(file[s]) : file'[s][i] = file[s][i]
  /\ \A i \in Len(file[s]) + 1 .. Len(file'[s]) :
       /\ \A t \in Sessions : file'[s][i] \notin Lines(t)
       /\ \A j \in i + 1 .. Len(file'[s]) : file'[s][i] # file'[s][j]

Next == \E s \in Sessions : Grow(s)

Spec == Init /\ [][Next]_file
=============================================================================
