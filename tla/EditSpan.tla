------------------------------- MODULE EditSpan -------------------------------
(***************************************************************************)
(* The edit between two texts of a file that try_incremental_parse gives   *)
(* to tree-sitter: compute_edit_span takes the common start off both texts *)
(* and then the common end, and byte_to_point finds the row and column of  *)
(* the three ends of what is left.                                         *)
(***************************************************************************)
EXTENDS Naturals, Sequences, FiniteSets

CONSTANTS
    Bytes,
    Newline,
    MaxLen      \* bytes of a text: a bound

ASSUME EditAssumption == Newline \in Bytes /\ MaxLen \in Nat

VARIABLES
    old, new,               \* the two texts
    prefix,                 \* bytes of the common start
    oldSuffix, newSuffix,   \* bytes before the common end
    pc

vars == <<old, new, prefix, oldSuffix, newSuffix, pc>>

Texts == UNION {[1..n -> Bytes] : n \in 0..MaxLen}

(* Texts that are equal are not compared any further.                       *)
Init ==
    /\ old \in Texts /\ new \in Texts
    /\ old # new
    /\ prefix = 0
    /\ oldSuffix = Len(old) /\ newSuffix = Len(new)
    /\ pc = "prefix"

InPrefix ==
    /\ prefix < Len(old) /\ prefix < Len(new)
    /\ old[prefix + 1] = new[prefix + 1]

(* Mutant: the suffix of the new text may run into the prefix. *)
InSuffixOverlapping ==
    /\ oldSuffix > prefix /\ newSuffix > 0
    /\ old[oldSuffix] = new[newSuffix]

InSuffix ==
    /\ oldSuffix > prefix /\ newSuffix > prefix
    /\ old[oldSuffix] = new[newSuffix]

ExtendPrefix ==
    /\ pc = "prefix"
    /\ InPrefix
    /\ prefix' = prefix + 1
    /\ UNCHANGED <<old, new, oldSuffix, newSuffix, pc>>

EndPrefix ==
    /\ pc = "prefix"
    /\ ~InPrefix
    /\ pc' = "suffix"
    /\ UNCHANGED <<old, new, prefix, oldSuffix, newSuffix>>

ExtendSuffix ==
    /\ pc = "suffix"
    /\ InSuffix
    /\ oldSuffix' = oldSuffix - 1
    /\ newSuffix' = newSuffix - 1
    /\ UNCHANGED <<old, new, prefix, pc>>

EndSuffix ==
    /\ pc = "suffix"
    /\ ~InSuffix
    /\ pc' = "done"
    /\ UNCHANGED <<old, new, prefix, oldSuffix, newSuffix>>

Next == ExtendPrefix \/ EndPrefix \/ ExtendSuffix \/ EndSuffix
Spec == Init /\ [][Next]_vars

-----------------------------------------------------------------------------
(* Points *)

(* Mutant: the newline is counted in the column of its row. *)
PointFrom1(text, n) ==
    LET at[i \in 0..n] ==
          IF i = 0 THEN [row |-> 0, column |-> 0]
          ELSE IF text[i] = Newline THEN [row |-> at[i - 1].row + 1, column |-> 1]
          ELSE [at[i - 1] EXCEPT !.column = @ + 1]
    IN at[n]

(* byte_to_point: the loop over the first n bytes.                          *)
Point(text, n) ==
    LET at[i \in 0..n] ==
          IF i = 0 THEN [row |-> 0, column |-> 0]
          ELSE IF text[i] = Newline THEN [row |-> at[i - 1].row + 1, column |-> 0]
          ELSE [at[i - 1] EXCEPT !.column = @ + 1]
    IN at[n]

Edit == [start |-> Point(old, prefix),
         oldEnd |-> Point(old, oldSuffix),
         newEnd |-> Point(new, newSuffix)]

-----------------------------------------------------------------------------
(* Properties *)

TypeOK ==
    /\ old \in Texts /\ new \in Texts /\ old # new
    /\ prefix \in 0..MaxLen /\ oldSuffix \in 0..MaxLen /\ newSuffix \in 0..MaxLen
    /\ pc \in {"prefix", "suffix", "done"}

(* What was taken off is common to both texts and does not overlap in       *)
(* either of them.                                                          *)
CommonEnds ==
    /\ prefix <= oldSuffix /\ oldSuffix <= Len(old)
    /\ prefix <= newSuffix /\ newSuffix <= Len(new)
    /\ \A i \in 1..prefix : old[i] = new[i]
    /\ Len(old) - oldSuffix = Len(new) - newSuffix
    /\ \A k \in 1..(Len(old) - oldSuffix) : old[oldSuffix + k] = new[newSuffix + k]

(* How far the search has come: nothing is taken off the end before the     *)
(* start is done with, and both are as long as they can be.                 *)
Progress ==
    /\ pc = "prefix" => oldSuffix = Len(old) /\ newSuffix = Len(new)
    /\ pc # "prefix" => prefix = Len(old) \/ prefix = Len(new)
                        \/ old[prefix + 1] # new[prefix + 1]
    /\ pc = "done" => ~InSuffix

(* The inductive invariant.                                                 *)
EditInv == TypeOK /\ CommonEnds /\ Progress

(* Replacing the span of the old text by that of the new text gives the new *)
(* text: what tree-sitter is told is the change that happened.              *)
SpanIsTheChange ==
    pc = "done" =>
        new = SubSeq(old, 1, prefix) \o SubSeq(new, prefix + 1, newSuffix)
                \o SubSeq(old, oldSuffix + 1, Len(old))

(* It is the smallest change: what is left of the texts starts and ends     *)
(* with different bytes, unless one of them has nothing left, and they are  *)
(* never both empty.                                                        *)
SpanIsMinimal ==
    pc = "done" =>
        /\ prefix < oldSuffix \/ prefix < newSuffix
        /\ prefix < oldSuffix /\ prefix < newSuffix =>
             /\ old[prefix + 1] # new[prefix + 1]
             /\ old[oldSuffix] # new[newSuffix]

(* The newlines among the first n bytes, and the bytes before the line that *)
(* the next byte is in.                                                     *)
Newlines(text, n) == Cardinality({i \in 1..n : text[i] = Newline})
BeginsLine(text, n, m) ==
    /\ m = 0 \/ text[m] = Newline
    /\ \A i \in (m + 1)..n : text[i] # Newline
LineBegin(text, n) == CHOOSE m \in 0..n : BeginsLine(text, n, m)

(* The points agree with the bytes and with each other: rows and columns    *)
(* are those of the text, the start is one point in both texts, and both    *)
(* ends have the same rest of a line and the same rows after them.          *)
PointsFitSpan ==
    LET point(text, n) == [row |-> Newlines(text, n), column |-> n - LineBegin(text, n)]
        rowsAfter(text, n) == Newlines(text, Len(text)) - Newlines(text, n)
    IN pc = "done" =>
        /\ Edit.start = point(old, prefix) /\ Edit.start = point(new, prefix)
        /\ Edit.oldEnd = point(old, oldSuffix)
        /\ Edit.newEnd = point(new, newSuffix)
        /\ rowsAfter(old, oldSuffix) = rowsAfter(new, newSuffix)

=============================================================================
