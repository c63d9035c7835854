----------------------------- MODULE LexicalIndex -----------------------------
(***************************************************************************)
(* What searches may rely on of the persisted lexical index of a project:  *)
(* a rebuild or a search has it alone, so that a search reads all that one *)
(* extraction left there.  Only a removal takes it from under its user, in *)
(* whole or in part, and only a rebuild that lost it so may replace what   *)
(* comes next.                                                             *)
(***************************************************************************)

CONSTANTS
    Readers,      \* the searches
    Extractions   \* the sets of documents that a rebuild may leave

VARIABLES
    state,
    docs,
    readers,      \* searches that opened the index and have not closed it
    contested     \* whether a rebuild that lost the index still goes on

vars == <<state, docs, readers, contested>>

Init ==
    /\ state \in {"absent", "whole"}
    /\ docs \in Extractions
    /\ state = "absent" => docs = {}
    /\ readers = {}
    /\ contested = FALSE

(* Who keeps the lock of an index that was partly removed has the new one.  *)
New == {"whole"} \union (IF readers # {} THEN {"read"} ELSE {})
               \union (IF contested THEN {"rebuilding"} ELSE {})

Create ==
    /\ state = "absent"
    /\ state' \in New
    /\ contested' \in {contested, FALSE}
    /\ UNCHANGED <<docs, readers>>

(* A rebuild empties the index, and then puts into it what it has.          *)
Empty ==
    /\ state = "whole"
    /\ state' = "rebuilding" /\ docs' = {}
    /\ UNCHANGED <<readers, contested>>

Fill ==
    /\ state = "rebuilding"
    /\ state' = "whole" /\ docs' \in Extractions
    /\ UNCHANGED <<readers, contested>>

(* A rebuild that fails leaves what is there.                               *)
GiveUp ==
    /\ state = "rebuilding"
    /\ state' = "whole"
    /\ UNCHANGED <<docs, readers, contested>>

(* A search opens an index that nobody else has, and creates what is absent *)
(* since it looked.                                                         *)
Open ==
    /\ state \in {"absent", "whole"}
    /\ state' = "read"
    /\ \E r \in Readers \ readers : readers' = readers \union {r}
    /\ UNCHANGED <<docs, contested>>

(* The index is free again, unless the search had lost it: then another     *)
(* search that reads may have it, or whoever came next.                     *)
Close ==
    /\ \E r \in readers : readers' = readers \ {r}
    /\ \/ state = "read" /\ state' = "whole"
       \/ (state = "read" => readers' # {}) /\ state' = state
    /\ UNCHANGED <<docs, contested>>

(* Whoever has the index loses it, or only the lock when the removal fails  *)
(* before it gets further.                                                  *)
Remove ==
    /\ state' = "absent" /\ docs' = {}
    /\ contested' \in BOOLEAN
    /\ contested' => contested \/ state # "absent"
    /\ UNCHANGED readers

Unlock ==
    /\ state # "absent" /\ state' = "whole"
    /\ contested' \in BOOLEAN
    /\ UNCHANGED <<docs, readers>>

(* A rebuild that lost the index replaces the one that came after it, or    *)
(* what is left of its own, or ends.                                        *)
Replace ==
    /\ contested
    /\ IF state = "absent" THEN state' \in New ELSE state' = state
    /\ docs' \in Extractions /\ contested' \in BOOLEAN
    /\ UNCHANGED readers

Settle ==
    /\ contested /\ ~contested'
    /\ UNCHANGED <<state, docs, readers>>

(* The process of all searches dies, and of some rebuilds: nobody keeps an  *)
(* index that was read.                                                     *)
Crash ==
    /\ readers' = {}
    /\ \/ state \in {"read", "rebuilding"} /\ state' = "whole"
       \/ state # "read" /\ state' = state
    /\ contested' \in {contested, FALSE}
    /\ UNCHANGED docs

Next ==
    \/ Create \/ Empty \/ Fill \/ GiveUp \/ Open \/ Close
    \/ Remove \/ Unlock \/ Replace \/ Settle \/ Crash

Spec == Init /\ [][Next]_vars

=============================================================================
