-------------------------- MODULE UndoableDocument --------------------------
(***************************************************************************)
(* What an editor with a bounded undo promises: the last Limit documents   *)
(* are kept whole, each undo brings the latest of them back, and opening a *)
(* document forgets them.                                                  *)
(***************************************************************************)
EXTENDS Naturals, Sequences

CONSTANT Limit

VARIABLES doc, past  \* the document, and those before it, the oldest first

Latest(s) == IF Len(s) > Limit THEN Tail(s) ELSE s

UInit == past = <<>>

Edit == past' = Latest(Append(past, doc))

Undo ==
  /\ past # <<>>
  /\ doc' = past[Len(past)]
  /\ past' = SubSeq(past, 1, Len(past) - 1)

Open == past' = <<>>

USpec == UInit /\ [][Edit \/ Undo \/ Open]_<<doc, past>>

=============================================================================
