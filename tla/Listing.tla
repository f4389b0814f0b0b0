------------------------------ MODULE Listing ------------------------------
(***************************************************************************)
(* What .list() promises while nobody changes the collection: the caller   *)
(* is handed its rows one by one, in order, each once, and is told it has  *)
(* reached the end only when it has, or when it has the max_items it asked *)
(* for.  Pages are not visible.                                            *)
(***************************************************************************)
EXTENDS Naturals, Sequences

VARIABLES
  rows,       \* what the caller is entitled to see
  max_items,  \* how much of it was asked for
  results,    \* what it was handed so far
  ended       \* "no", "end" or "raised"

vars == <<rows, max_items, results, ended>>

Init ==
  /\ results = <<>>
  /\ ended = "no"

Hand ==
  /\ ended = "no"
  /\ Len(results) < Len(rows) /\ Len(results) < max_items
  /\ results' = Append(results, rows[Len(results) + 1])
  /\ ended' = IF Len(results') >= max_items THEN "end" ELSE "no"
  /\ UNCHANGED <<rows, max_items>>

End ==
  /\ ended = "no"
  /\ results = rows
  /\ ended' = "end"
  /\ UNCHANGED <<rows, max_items, results>>

Raise ==
  /\ ended = "no"
  /\ ended' = "raised"
  /\ UNCHANGED <<rows, max_items, results>>

Next == Hand \/ End \/ Raise

\* The caller that keeps iterating comes to an end.
Spec == Init /\ [][Next]_vars /\ WF_vars(Next)

=============================================================================
