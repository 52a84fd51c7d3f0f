------------------------------ MODULE Sequence ------------------------------
(***************************************************************************)
(* What a list promises its callers: "when created it has a capacity. if   *)
(* it's full. it reallocates a bigger mem block" (utils.h:28-30).  The     *)
(* capacity is nobody's business: a caller sees a sequence to which        *)
(* elements are appended, inserted, removed and swapped, and from which    *)
(* the others never disappear.                                             *)
(***************************************************************************)
EXTENDS Integers, Sequences, SequencesExt

CONSTANT Elements

VARIABLE seq

Init == seq = <<>>

DoAppend(e) == seq' = Append(seq, e)
DoInsert(position, e) == seq' = InsertAt(seq, position + 1, e)
DoRemove(index) == seq' = RemoveAt(seq, index + 1)
DoSwap(pos1, pos2) ==
  seq' = [seq EXCEPT ![pos1 + 1] = seq[pos2 + 1], ![pos2 + 1] = seq[pos1 + 1]]
DoClear == seq' = <<>>

Index == 0 .. Len(seq) - 1

Next ==
  \/ \E e \in Elements : DoAppend(e)
  \/ \E position \in Index, e \in Elements : DoInsert(position, e)
  \/ \E index \in Index : DoRemove(index)
  \/ \E pos1, pos2 \in Index : DoSwap(pos1, pos2)
  \/ DoClear

Spec == Init /\ [][Next]_seq
=============================================================================
