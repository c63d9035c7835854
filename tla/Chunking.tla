------------------------------- MODULE Chunking -------------------------------
(***************************************************************************)
(* What the watcher does with a changed file after it compared its texts:  *)
(* it parses the new text, walks the tree with a cursor, and makes a chunk *)
(* of every node of the right kind, together with the comment above it.  A *)
(* file that was not known before is parsed without a comparison.          *)
(***************************************************************************)
EXTENDS EditSpan, FiniteSetsExt

CONSTANTS
    Return,     \* the byte of a carriage return, the one blank there is
    Comment,    \* stands for the two bytes that begin a comment
    Inner,      \* a byte inside a character, after its first
    NewTexts,   \* texts of files that are not compared: a bound
    MaxNodes    \* nodes below the root: a bound, and 1 of the longer texts

ASSUME ChunkingAssumption ==
    /\ Return \in Bytes \ {Newline}
    /\ Comment \in Bytes \ {Newline, Return}
    /\ Inner \in Bytes \ {Newline, Return, Comment}
    /\ NewTexts \subseteq Seq(Bytes)
    /\ MaxNodes \in Nat \ {0}

VARIABLES
    stage,      \* of the file: compared, parsed, chunked
    tree,       \* the nodes in document order, the root first
    at,         \* the node under the cursor
    level,      \* how deep collect_chunks calls itself
    chunks

walkVars == <<stage, tree, at, level, chunks>>
editVars == <<old, prefix, oldSuffix, newSuffix, pc>>

-----------------------------------------------------------------------------
(* Characters *)

(* A file is read with read_to_string.                                      *)
IsText(text) ==
    \A i \in 1..Len(text) : text[i] = Inner =>
        i > 1 /\ text[i - 1] \notin {Newline, Return, Comment}

(* is_char_boundary.                                                        *)
Boundary(text, p) == p + 1 \in 1..Len(text) => text[p + 1] # Inner

-----------------------------------------------------------------------------
(* Trees *)

(* A node ends where the next one begins that is not inside it.             *)
Node == [start : Nat, depth : Nat, candidate : BOOLEAN]
Root == [start |-> 0, depth |-> 0, candidate |-> FALSE]

(* is_chunk_candidate tells some kinds of node from the others.  The root   *)
(* may leave out blanks that the file begins with.                          *)
Trees(text) ==
    LET most == IF Len(text) <= MaxLen THEN MaxNodes ELSE 1
        starts == {s \in 0..(Len(text) - 1) : Boundary(text, s)}
        roots == {[Root EXCEPT !.start = s] : s \in
                    {m \in 0..Len(text) : \A i \in 1..m : text[i] \in {Newline, Return}}}
        below == UNION {
            {nodes \in [1..n -> [start : starts, depth : 1..n, candidate : BOOLEAN]] :
                \A i \in 1..n :
                    /\ nodes[i].depth <= IF i = 1 THEN 1 ELSE nodes[i - 1].depth + 1
                    /\ i > 1 => nodes[i - 1].start <= nodes[i].start}
            : n \in 0..most}
    IN  {t \in UNION {{<<root>> \o nodes : nodes \in below} : root \in roots} :
            Len(t) > 1 => t[1].start <= t[2].start}

Child(i) == i + 1
HasChild(i) == i < Len(tree) /\ tree[i + 1].depth = tree[i].depth + 1

(* The nodes after i that are no deeper; its sibling is the first of them.  *)
Outside(i) == {j \in (i + 1)..Len(tree) : tree[j].depth <= tree[i].depth}
HasSibling(i) == Outside(i) # {} /\ tree[Min(Outside(i))].depth = tree[i].depth
Sibling(i) == Min(Outside(i))
Parent(i) == Max({j \in 1..(i - 1) : tree[j].depth < tree[i].depth})
EndOf(i) == IF Outside(i) = {} THEN Len(new) ELSE tree[Min(Outside(i))].start

-----------------------------------------------------------------------------
(* The comment above a node *)

(* str::lines of the text before a node, by where they start: a line that   *)
(* is empty is none when the text ends with it.                             *)
LineStarts(text, n) == {s \in 0..(n - 1) : s = 0 \/ text[s] = Newline}
LineEnd(text, s, n) == Min({e \in (s + 1)..n : text[e] = Newline} \union {n + 1})

(* Its length, without the newline and the carriage return before that.     *)
LineLength(text, s, n) ==
    LET end == LineEnd(text, s, n)
    IN  IF end <= n /\ end - 1 > s /\ text[end - 1] = Return
        THEN end - 2 - s ELSE end - 1 - s

(* trim, and then nothing or the start of a comment.                        *)
Leads(text, s, n) ==
    LET inked == {i \in (s + 1)..(LineEnd(text, s, n) - 1) : text[i] # Return}
    IN  inked # {} => text[Min(inked)] = Comment

(* The lines before the comment: down to the last that is none.             *)
Before(text, n) == {s \in LineStarts(text, n) :
                      \E t \in LineStarts(text, n) : s <= t /\ ~Leads(text, t, n)}

(* Mutant: a newline is not counted for the lines before. *)
LeadingStartTight(text, n) ==
    LET bytes[m \in 0..n] ==
          IF m = 0 THEN 0
          ELSE bytes[m - 1] + (IF m - 1 \in Before(text, n) THEN LineLength(text, m - 1, n) ELSE 0)
    IN  Min({n, bytes[n]})

(* with_leading_comment_start: the lines before the comment, each with a    *)
(* newline of one byte; bytes[m] is of those that begin before m.           *)
LeadingStart(text, n) ==
    LET bytes[m \in 0..n] ==
          IF m = 0 THEN 0
          ELSE bytes[m - 1] + (IF m - 1 \in Before(text, n)
                               THEN LineLength(text, m - 1, n) + 1 ELSE 0)
    IN  Min({n, bytes[n]})

-----------------------------------------------------------------------------
(* Extraction *)

(* node_chunk: a range that begins inside a character is no text, and the   *)
(* content of the chunk is empty.                                           *)
NodeChunk(i) ==
    LET start == LeadingStart(new, tree[i].start)
    IN  [node |-> i, start |-> start, end |-> EndOf(i), lost |-> ~Boundary(new, start)]

(* file_chunk, of no node: the content is all of the text.                  *)
FileChunk == [node |-> 0, start |-> tree[1].start, end |-> Len(new), lost |-> FALSE]

NoComparison ==
    /\ old' = <<>> /\ prefix' = 0 /\ oldSuffix' = 0 /\ newSuffix' = 0
    /\ pc' = "none"

(* The outcome of the comparison is dropped, and the new text parsed.       *)
Parse ==
    /\ stage = "compared" /\ pc \in {"done", "none"}
    /\ stage' = "visit"
    /\ tree' \in Trees(new)
    /\ NoComparison
    /\ UNCHANGED <<new, at, level, chunks>>

ParseFails ==
    /\ stage = "compared" /\ pc \in {"done", "none"}
    /\ stage' = "failed"
    /\ NoComparison
    /\ UNCHANGED <<new, tree, at, level, chunks>>

(* The node under the cursor, and then its children.                        *)
Visit ==
    /\ stage = "visit"
    /\ chunks' = IF tree[at].candidate THEN Append(chunks, NodeChunk(at)) ELSE chunks
    /\ IF HasChild(at)
       THEN at' = Child(at) /\ level' = level + 1 /\ UNCHANGED stage
       ELSE stage' = "next" /\ UNCHANGED <<at, level>>
    /\ UNCHANGED <<new, tree, editVars>>

(* goto_next_sibling.                                                       *)
NextSibling ==
    /\ stage = "next"
    /\ HasSibling(at)
    /\ at' = Sibling(at)
    /\ stage' = "visit"
    /\ UNCHANGED <<new, tree, level, chunks, editVars>>

(* Mutant: the cursor stays where the call left it. *)
ReturnWithoutParent ==
    /\ stage = "next"
    /\ ~HasSibling(at) /\ level > 0
    /\ level' = level - 1
    /\ UNCHANGED <<new, stage, tree, at, chunks, editVars>>

(* A call of collect_chunks ends, and its caller goes back to the parent.   *)
ReturnToParent ==
    /\ stage = "next"
    /\ ~HasSibling(at) /\ level > 0
    /\ at' = Parent(at)
    /\ level' = level - 1
    /\ UNCHANGED <<new, stage, tree, chunks, editVars>>

(* The last call ends; without a chunk the file is one.                     *)
Finish ==
    /\ stage = "next"
    /\ ~HasSibling(at) /\ level = 0
    /\ stage' = "chunked"
    /\ chunks' = IF chunks = <<>> THEN <<FileChunk>> ELSE chunks
    /\ UNCHANGED <<new, tree, at, level, editVars>>

(* A file is changed, or new.                                               *)
FileInit ==
    /\ \/ Init /\ IsText(old)
       \/ /\ old = <<>> /\ new \in NewTexts
          /\ prefix = 0 /\ oldSuffix = 0 /\ newSuffix = 0
          /\ pc = "none"
    /\ IsText(new)
    /\ stage = "compared" /\ tree = <<Root>> /\ at = 1 /\ level = 0
    /\ chunks = <<>>

FileNext ==
    \/ Next /\ UNCHANGED walkVars
    \/ Parse \/ ParseFails \/ Visit \/ NextSibling \/ ReturnToParent \/ Finish

FileSpec == FileInit /\ [][FileNext]_<<vars, walkVars>>

-----------------------------------------------------------------------------
(* Properties *)

(* The chunks are those of the candidates among the first n nodes, each     *)
(* once and in the order of the document.                                   *)
AreChunksUpTo(n) ==
    /\ {chunks[k].node : k \in 1..Len(chunks)} = {i \in 1..n : tree[i].candidate}
    /\ \A k \in 1..Len(chunks) : chunks[k] = NodeChunk(chunks[k].node)
    /\ \A j, k \in 1..Len(chunks) : j < k => chunks[j].node < chunks[k].node

(* The walk comes by every node: the chunks are those of the candidates,    *)
(* each once and in the order of the document, or one of the whole file.    *)
WalkFindsCandidates ==
    stage = "chunked" =>
        IF \E i \in 1..Len(tree) : tree[i].candidate
        THEN AreChunksUpTo(Len(tree)) ELSE chunks = <<FileChunk>>

(* What this rests on.  A node is the child of one before it, and only the  *)
(* root is of depth 0; a node that is to be visited comes after the nodes   *)
(* that were, and one that was visited with all below it has its last       *)
(* descendant for the last of them.                                         *)
TreeGrowsDown ==
    /\ tree # <<>> /\ tree[1].depth = 0
    /\ \A i \in 2..Len(tree) : tree[i].depth \in 1..(tree[i - 1].depth + 1)

LastBelow(i) == IF Outside(i) = {} THEN Len(tree) ELSE Min(Outside(i)) - 1

WalkInv ==
    /\ tree \in Seq(Node) /\ at \in 1..Len(tree)
    /\ stage \in {"compared", "visit", "next", "chunked", "failed"}
    /\ TreeGrowsDown
    /\ chunks \in Seq({NodeChunk(i) : i \in 1..Len(tree)} \union {FileChunk})
    /\ stage = "compared" => at = 1 /\ level = 0 /\ chunks = <<>>
    /\ stage \in {"visit", "next"} => level = tree[at].depth
    /\ stage = "visit" => AreChunksUpTo(at - 1)
    /\ stage = "next" => AreChunksUpTo(LastBelow(at))
    /\ WalkFindsCandidates

(* What the texts of chunks rest on: nodes begin with a character.          *)
OnCharacters ==
    /\ IsText(new)
    /\ \A i \in 1..Len(tree) : Boundary(new, tree[i].start)

(* From p on there is nothing but blanks and comments down to n.            *)
BeginsComment(text, n, p) ==
    /\ p \in {0, n} \/ text[p] = Newline
    /\ \A q \in (p + 1)..n : text[q] \notin {Newline, Return, Comment} =>
          \E r \in (p + 1)..(q - 1) :
              text[r] = Comment /\ \A i \in r..q : text[i] # Newline

Returns(text, n) == {i \in 2..n : text[i] = Newline /\ text[i - 1] = Return}

(* A chunk begins at the first line from which there is nothing but blank   *)
(* lines and comments down to its node.  Every line before that ends with a *)
(* carriage return may put the begin one byte too far up, and nothing else  *)
(* moves it.  Only a chunk that begins too far up can lose its text: inside *)
(* a character.                                                             *)
ChunksTakeTheirComments ==
    \A k \in 1..Len(chunks) : chunks[k].node # 0 =>
        LET n == tree[chunks[k].node].start
            begin == Min({p \in 0..n : BeginsComment(new, n, p)})
        IN  /\ chunks[k].start <= begin
            /\ begin - chunks[k].start <= Cardinality(Returns(new, n))
            /\ chunks[k].lost => chunks[k].start < begin

=============================================================================
