------------------------------- MODULE MCFiles -------------------------------
(* Instances of Chunking, with EditSpan, and of Ranking for TLC.  They are  *)
(* algorithms without shared state: a behaviour is one of either, and the   *)
(* variables of the other stay as they are.                                 *)
EXTENDS Chunking, Ranking

CONSTANTS a, mid, sl, cr, nl, i1, i2, gone

(* Every text of up to five bytes, and longer ones after two lines that end *)
(* with a carriage return.                                                  *)
TextsUpTo(n) == UNION {{t \in [1..k -> Bytes] : IsText(t)} : k \in 0..n}
MCNewTexts == TextsUpTo(5) \union {<<cr, nl, cr, nl>> \o t : t \in TextsUpTo(3)}

(* Two chunks on the same lines with the same symbol share an id.           *)
TwoSharing == <<[id |-> i1, symbol |-> "chunk"], [id |-> i2, symbol |-> "parse"],
                [id |-> i2, symbol |-> "parse"]>>

NoFile ==
    /\ old = <<>> /\ new = <<>> /\ prefix = 0 /\ oldSuffix = 0 /\ newSuffix = 0
    /\ pc = "none" /\ stage = "none" /\ tree = <<Root>> /\ at = 1 /\ level = 0
    /\ chunks = <<>>

NoSearch ==
    /\ tier = "fast" /\ query \in {CHOOSE q \in Queries : TRUE} /\ topK = 0
    /\ lexical = <<>> /\ semantic = <<>> /\ ordered = <<>> /\ results = <<>>
    /\ ranking = "none"

FilesInit == (FileInit /\ NoSearch) \/ (NoFile /\ RankInit)

FilesNext ==
    \/ FileNext /\ UNCHANGED rankVars
    \/ RankNext /\ UNCHANGED <<vars, walkVars>>

FilesSpec == FilesInit /\ [][FilesNext]_<<vars, walkVars, rankVars>>

=============================================================================
