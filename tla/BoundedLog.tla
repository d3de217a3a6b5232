------------------------------ MODULE BoundedLog ------------------------------
(***************************************************************************)
(* What the log buffer promises: the last Size captured lines, oldest      *)
(* first.  Lines are numbered 1, 2, 3... in the order they were captured.  *)
(***************************************************************************)
EXTENDS Integers, Sequences

CONSTANT Size

VARIABLE log

Newest == IF log = <<>> THEN 0 ELSE log[Len(log)]

Init == log = <<>>

\* A line is captured; when the log is full the oldest one makes room for it.
Capture ==
  log' = IF Len(log) < Size
         THEN Append(log, Newest + 1)
         ELSE Append(SubSeq(log, 2, Size), Newest + 1)

Spec == Init /\ [][Capture]_log
==============================================================================
