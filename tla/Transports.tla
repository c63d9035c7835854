------------------------------- MODULE Transports -------------------------------
(***************************************************************************)
(* What a client sees of the MCP server: JSON-RPC lines over a keep-alive  *)
(* HTTP connection, a WebSocket or the stdio process, which all go through *)
(* mcp_handler one line at a time, and searches told as a stream of        *)
(* server-sent events.  What a search finds is left to SearchRequests; here *)
(* it is an outcome, and it may panic, because trim_snippet cuts a snippet *)
(* at a byte count that need not be the end of a character.                *)
(***************************************************************************)
EXTENDS Naturals, Sequences, FiniteSets, SequencesExt

CONSTANTS
    Conns,
    Kind,        \* of each connection: "http", "ws" or "stdio"
    Streams,     \* requests of /mcp/sse
    TokenSet,    \* MCP_API_TOKEN is set
    Lines,       \* what the clients send
    MaxOpen,     \* connections that are opened: a bound
    MaxLines,    \* lines of one connection: a bound
    MaxItems     \* results of one search: a bound

AllLines == {"ignored", "malformed", "garbled", "ping", "initialize", "list", "search", "open",
             "callSearch", "callOpen", "callOther", "unknown"}

ASSUME TransportsAssumption ==
    /\ Kind \in [Conns -> {"http", "ws", "stdio"}]
    /\ TokenSet \in BOOLEAN
    /\ Lines \subseteq AllLines
    /\ MaxOpen \in Nat /\ MaxLines \in Nat /\ MaxItems \in Nat

VARIABLES
    sent,      \* per connection, the lines in the order they were sent
    taken,     \* per connection, how many of them the server is through with
    answers,   \* per connection, what came back
    pc,        \* per connection, where the server is with the line it is at
    left,      \* per connection, whether the client is still there
    recorded,  \* the lines and streams whose latency was recorded
    streamPc,
    found,     \* results of a stream's search
    told       \* per stream, the events that came back

connVars == <<sent, taken, answers, pc, left>>
streamVars == <<streamPc, found, told>>
transportVars == <<connVars, recorded, streamVars>>

-----------------------------------------------------------------------------
(* Values *)

Searching == {"search", "callSearch"}

(* A tool tells its failure in a result, the arguments it cannot parse are  *)
(* an error of the call.                                                    *)
ToolOutcomes == {"result", "toolError", "invalidParams"}

(* How mcp_handler may answer a request it takes.                           *)
Outcomes(what) ==
    CASE what = "ping"       -> {"result"}
      [] what = "initialize" -> {"result", "invalidParams"}
      [] what = "list"       -> {"result", "internal"}
      [] what = "search"     -> {"result", "invalidParams", "indexUnavailable", "timeout"}
      [] what = "open"       -> {"result", "invalidParams"}
      [] what \in {"callSearch", "callOpen"} -> ToolOutcomes
      [] what = "callOther"  -> {"invalidParams"}
      [] what = "unknown"    -> {"methodNotFound"}
      [] OTHER               -> {}

(* What is no request of an authorized client is answered with a plain text *)
(* that has no id: by the extractor of the body, or for want of a token,    *)
(* which only an HTTP client can give.                                      *)
Line == [what : Lines, token : BOOLEAN]
Authorized(c, line) == TokenSet => Kind[c] = "http" /\ line.token
Served(c, line) ==
    line.what \notin {"ignored", "malformed", "garbled"} /\ Authorized(c, line)

(* Bytes that are no UTF-8 are an error of the loop's read; only an HTTP    *)
(* body is read by the extractor.                                           *)
Breaks(c, line) == line.what = "garbled" /\ Kind[c] # "http"

Answer == [id : 0..MaxLines,
           kind : {"text", "result", "toolError", "invalidParams", "methodNotFound",
                   "indexUnavailable", "timeout", "internal"}]

Error == <<"error", 0>>
Done == <<"done", 0>>
Event == {Error, Done} \cup ({"result"} \X (1..MaxItems))

TransportsTypeOK ==
    /\ sent \in [Conns -> Seq(Line)]
    /\ taken \in [Conns -> 0..MaxLines]
    /\ answers \in [Conns -> Seq(Answer)]
    /\ pc \in [Conns -> {"idle", "search", "record", "closed", "panicked"}]
    /\ left \in [Conns -> {"no", "eof", "gone"}]
    /\ recorded \subseteq (Conns \X (1..MaxLines)) \cup (Streams \X {0})
    /\ streamPc \in [Streams -> {"new", "search", "tell", "closed", "gone"}]
    /\ found \in [Streams -> 0..MaxItems]
    /\ told \in [Streams -> Seq(Event)]
    /\ \A c \in Conns :
         /\ taken[c] <= Len(sent[c]) /\ Len(sent[c]) <= MaxLines
         /\ pc[c] \in {"search", "record"} =>
              /\ taken[c] < Len(sent[c])
              /\ sent[c][taken[c] + 1].what \in Searching
              /\ Authorized(c, sent[c][taken[c] + 1])

TransportsInit ==
    /\ sent = [c \in Conns |-> <<>>]
    /\ taken = [c \in Conns |-> 0]
    /\ answers = [c \in Conns |-> <<>>]
    /\ \E open \in SUBSET Conns :
         /\ Cardinality(open) = MaxOpen
         /\ pc = [c \in Conns |-> IF c \in open THEN "idle" ELSE "closed"]
    /\ left = [c \in Conns |-> "no"]
    /\ recorded = {}
    /\ streamPc = [s \in Streams |-> "new"]
    /\ found = [s \in Streams |-> 0]
    /\ told = [s \in Streams |-> <<>>]

-----------------------------------------------------------------------------
(* Clients *)

(* Only the two loops pass over something: a blank line of stdin, a frame   *)
(* that is no text.                                                         *)
Send(c) ==
    /\ left[c] = "no"
    /\ pc[c] \notin {"closed", "panicked"}
    /\ Len(sent[c]) < MaxLines
    /\ \E line \in Line :
         /\ line.what = "ignored" => Kind[c] # "http"
         /\ sent' = [sent EXCEPT ![c] = Append(@, line)]
    /\ UNCHANGED <<taken, answers, pc, left, recorded, streamVars>>

(* The end of stdin, a close frame: the client still reads its answers.     *)
EndOfInput(c) ==
    /\ left[c] = "no" /\ pc[c] # "closed"
    /\ Kind[c] # "http"
    /\ left' = [left EXCEPT ![c] = "eof"]
    /\ UNCHANGED <<sent, taken, answers, pc, recorded, streamVars>>

(* The client is gone.  hyper drops the future of an HTTP request; the      *)
(* other two loops only notice at their next read or write.                 *)
Disconnect(c) ==
    /\ left[c] # "gone" /\ pc[c] # "closed"
    /\ left' = [left EXCEPT ![c] = "gone"]
    /\ pc' = IF Kind[c] = "http" /\ pc[c] # "panicked" THEN [pc EXCEPT ![c] = "closed"]
             ELSE pc
    /\ UNCHANGED <<sent, taken, answers, recorded, streamVars>>

-----------------------------------------------------------------------------
(* The server *)

Id(c) == taken[c] + 1
AtLine(c) == sent[c][Id(c)]

(* The answer to the line at hand.  The WebSocket ignores that it cannot be *)
(* sent, the stdio process ends.                                            *)
Reply(c, id, kind) ==
    /\ taken' = [taken EXCEPT ![c] = @ + 1]
    /\ answers' = IF left[c] = "gone" THEN answers
                  ELSE [answers EXCEPT ![c] = Append(@, [id |-> id, kind |-> kind])]
    /\ pc' = [pc EXCEPT ![c] =
                IF left[c] = "gone" /\ Kind[c] = "stdio" THEN "closed" ELSE "idle"]

Pass(c) ==
    /\ pc[c] = "idle" /\ taken[c] < Len(sent[c])
    /\ AtLine(c).what = "ignored"
    /\ taken' = [taken EXCEPT ![c] = @ + 1]
    /\ UNCHANGED <<sent, answers, pc, left, recorded, streamVars>>

Refuse(c) ==
    /\ pc[c] = "idle" /\ taken[c] < Len(sent[c])
    /\ AtLine(c).what # "ignored" /\ ~Breaks(c, AtLine(c)) /\ ~Served(c, AtLine(c))
    /\ Reply(c, 0, "text")
    /\ UNCHANGED <<sent, left, recorded, streamVars>>

(* Mutant: a failure before the handler ran is answered with no id. *)
AnswerAtOnceNoId(c) ==
    /\ pc[c] = "idle" /\ taken[c] < Len(sent[c])
    /\ Served(c, AtLine(c)) /\ AtLine(c).what \notin Searching
    /\ \E kind \in Outcomes(AtLine(c).what) :
         Reply(c, IF kind = "invalidParams" THEN 0 ELSE Id(c), kind)
    /\ UNCHANGED <<sent, left, recorded, streamVars>>

AnswerAtOnce(c) ==
    /\ pc[c] = "idle" /\ taken[c] < Len(sent[c])
    /\ Served(c, AtLine(c)) /\ AtLine(c).what \notin Searching
    /\ \E kind \in Outcomes(AtLine(c).what) : Reply(c, Id(c), kind)
    /\ UNCHANGED <<sent, left, recorded, streamVars>>

StartSearch(c) ==
    /\ pc[c] = "idle" /\ taken[c] < Len(sent[c])
    /\ Served(c, AtLine(c)) /\ AtLine(c).what \in Searching
    /\ pc' = [pc EXCEPT ![c] = "search"]
    /\ UNCHANGED <<sent, taken, answers, left, recorded, streamVars>>

(* The search is done; its latency waits for the lock.                      *)
SearchFinds(c) ==
    /\ pc[c] = "search"
    /\ pc' = [pc EXCEPT ![c] = "record"]
    /\ UNCHANGED <<sent, taken, answers, left, recorded, streamVars>>

SearchFails(c) ==
    /\ pc[c] = "search"
    /\ \E kind \in Outcomes(AtLine(c).what) \ {"result"} : Reply(c, Id(c), kind)
    /\ UNCHANGED <<sent, left, recorded, streamVars>>

(* Mutant: the lock of the latencies is not given back. *)
RecordLatencyLocked(c) ==
    /\ pc[c] = "record"
    /\ recorded = {}
    /\ recorded' = recorded \cup {<<c, Id(c)>>}
    /\ Reply(c, Id(c), "result")
    /\ UNCHANGED <<sent, left, streamVars>>

RecordLatency(c) ==
    /\ pc[c] = "record"
    /\ recorded' = recorded \cup {<<c, Id(c)>>}
    /\ Reply(c, Id(c), "result")
    /\ UNCHANGED <<sent, left, streamVars>>

(* The panic ends the task of the connection, or the stdio process.         *)
SearchPanics(c) ==
    /\ pc[c] = "search"
    /\ pc' = [pc EXCEPT ![c] = "panicked"]
    /\ UNCHANGED <<sent, taken, answers, left, recorded, streamVars>>

(* Mutant: the loop ends at the end of its input, whatever is still to do. *)
CloseAtOnce(c) ==
    /\ pc[c] = "idle"
    /\ left[c] # "no"
    /\ pc' = [pc EXCEPT ![c] = "closed"]
    /\ UNCHANGED <<sent, taken, answers, left, recorded, streamVars>>

(* Mutant: the loop ends only at a close frame or the end of stdin. *)
CloseWhenTold(c) ==
    /\ pc[c] = "idle"
    /\ left[c] = "eof"
    /\ taken[c] = Len(sent[c])
    /\ pc' = [pc EXCEPT ![c] = "closed"]
    /\ UNCHANGED <<sent, taken, answers, left, recorded, streamVars>>

(* The loop's read fails.                                                   *)
Break(c) ==
    /\ pc[c] = "idle" /\ taken[c] < Len(sent[c])
    /\ Breaks(c, AtLine(c))
    /\ pc' = [pc EXCEPT ![c] = "closed"]
    /\ UNCHANGED <<sent, taken, answers, left, recorded, streamVars>>

(* The loops end at the end of their input, which comes after its lines; a  *)
(* lost WebSocket may lose lines.                                           *)
Close(c) ==
    /\ pc[c] = "idle"
    /\ left[c] # "no"
    /\ taken[c] = Len(sent[c]) \/ (Kind[c] = "ws" /\ left[c] = "gone")
    /\ pc' = [pc EXCEPT ![c] = "closed"]
    /\ UNCHANGED <<sent, taken, answers, left, recorded, streamVars>>

-----------------------------------------------------------------------------
(* Streams *)

(* Without a token or a project there is nothing but an error to tell.      *)
StreamRefused(s) ==
    /\ streamPc[s] = "new"
    /\ told' = [told EXCEPT ![s] = <<Error>>]
    /\ streamPc' = [streamPc EXCEPT ![s] = "closed"]
    /\ UNCHANGED <<found, recorded, connVars>>

StreamStarts(s) ==
    /\ streamPc[s] = "new"
    /\ streamPc' = [streamPc EXCEPT ![s] = "search"]
    /\ UNCHANGED <<found, told, recorded, connVars>>

(* A stream records the latency of a search that found nothing, too.        *)
StreamSearched(s) ==
    /\ streamPc[s] = "search"
    /\ recorded' = recorded \cup {<<s, 0>>}
    /\ \E n \in 0..MaxItems :
         IF n = 0 THEN /\ told' = [told EXCEPT ![s] = <<Error>>]
                       /\ streamPc' = [streamPc EXCEPT ![s] = "closed"]
                       /\ UNCHANGED found
                  ELSE /\ found' = [found EXCEPT ![s] = n]
                       /\ streamPc' = [streamPc EXCEPT ![s] = "tell"]
                       /\ UNCHANGED told
    /\ UNCHANGED connVars

(* One result at each tick of the interval.                                 *)
StreamTells(s) ==
    /\ streamPc[s] = "tell"
    /\ Len(told[s]) < found[s]
    /\ told' = [told EXCEPT ![s] = Append(@, <<"result", Len(@) + 1>>)]
    /\ UNCHANGED <<streamPc, found, recorded, connVars>>

(* Mutant: the done event is merged with the ticks, not chained after them. *)
StreamDoneMerged(s) ==
    /\ streamPc[s] = "tell"
    /\ told' = [told EXCEPT ![s] = Append(@, Done)]
    /\ streamPc' = [streamPc EXCEPT ![s] = "closed"]
    /\ UNCHANGED <<found, recorded, connVars>>

StreamDone(s) ==
    /\ streamPc[s] = "tell"
    /\ Len(told[s]) = found[s]
    /\ told' = [told EXCEPT ![s] = Append(@, Done)]
    /\ streamPc' = [streamPc EXCEPT ![s] = "closed"]
    /\ UNCHANGED <<found, recorded, connVars>>

(* The client goes, or the search panics.                                   *)
StreamLost(s) ==
    /\ streamPc[s] \in {"new", "search", "tell"}
    /\ streamPc' = [streamPc EXCEPT ![s] = "gone"]
    /\ UNCHANGED <<found, told, recorded, connVars>>

-----------------------------------------------------------------------------
ServeLine(c) ==
    \/ Pass(c) \/ Refuse(c) \/ AnswerAtOnce(c) \/ StartSearch(c) \/ SearchFinds(c)
    \/ SearchFails(c) \/ RecordLatency(c) \/ SearchPanics(c) \/ Break(c) \/ Close(c)

Tell(s) ==
    \/ StreamRefused(s) \/ StreamStarts(s) \/ StreamSearched(s) \/ StreamTells(s)
    \/ StreamDone(s)

TransportsNext ==
    \/ \E c \in Conns : Send(c) \/ EndOfInput(c) \/ Disconnect(c)
    \/ \E c \in Conns : \/ Pass(c) \/ Refuse(c) \/ AnswerAtOnce(c) \/ StartSearch(c)
                        \/ SearchFinds(c) \/ SearchFails(c) \/ RecordLatency(c)
                        \/ SearchPanics(c) \/ Break(c) \/ Close(c)
    \/ \E s \in Streams : \/ StreamRefused(s) \/ StreamStarts(s) \/ StreamSearched(s)
                          \/ StreamTells(s) \/ StreamDone(s) \/ StreamLost(s)

TransportsSpec == TransportsInit /\ [][TransportsNext]_transportVars

(* The runtime polls every connection's task, and a search's awaits end.    *)
FairSpec ==
    /\ TransportsSpec
    /\ \A c \in Conns : WF_transportVars(ServeLine(c))
    /\ \A s \in Streams : WF_transportVars(Tell(s))

-----------------------------------------------------------------------------
(* Properties *)

(* The lines that call for an answer, and how many of them there are up to  *)
(* the n-th line: its answer is the one of that number.                     *)
IsDue(c, n) == sent[c][n].what # "ignored"
DueUpTo(c, n) == Cardinality({m \in 1..n : IsDue(c, m)})

Fits(c, n, answer) ==
    IF Served(c, sent[c][n])
    THEN /\ answer.id = n /\ answer.kind \in Outcomes(sent[c][n].what)
         /\ sent[c][n].what \in Searching =>
                (answer.kind = "result" <=> <<c, n>> \in recorded)
    ELSE answer = [id |-> 0, kind |-> "text"]

AnswersFit(c) ==
    /\ Len(answers[c]) <= DueUpTo(c, taken[c])
    /\ left[c] # "gone" => Len(answers[c]) = DueUpTo(c, taken[c])
    /\ \A n \in 1..taken[c] :
         IsDue(c, n) /\ DueUpTo(c, n) <= Len(answers[c]) =>
             Fits(c, n, answers[c][DueUpTo(c, n)])

(* Whatever the searches take and however the clients come and go: a        *)
(* connection's answers come one for each line, in the order of the lines,  *)
(* a request's answer carries its id, and the latency of a search is        *)
(* recorded when its answer has results and at no other; while the client   *)
(* is there no answer is missing.                                           *)
AnswersFitLines == \A c \in Conns : AnswersFit(c)

(* A stdio process or WebSocket whose client ended its input, but still     *)
(* reads, closes only when it has answered all lines, or all before one it  *)
(* cannot read.                                                             *)
InputIsDrained ==
    \A c \in Conns : pc[c] = "closed" /\ left[c] = "eof" =>
        \/ taken[c] = Len(sent[c])
        \/ Breaks(c, AtLine(c))

(* A stream that was told to its end is one error or all results in their   *)
(* order and then done; before that it is a part of it.                     *)
StreamsTellAll ==
    \A s \in Streams :
        LET all == [n \in 1..found[s] |-> <<"result", n>>]
        IN /\ streamPc[s] = "closed" => told[s] \in {<<Error>>, Append(all, Done)}
           /\ streamPc[s] # "closed" => IsPrefix(told[s], all)
           /\ found[s] > 0 => <<s, 0>> \in recorded

(* What these rest on: a latency is recorded only with the answer to its    *)
(* line, and a stream tells the results of its search from the first on.    *)
RecordedIsTaken ==
    \A c \in Conns, n \in 1..MaxLines : <<c, n>> \in recorded => n <= taken[c]

StreamsInOrder ==
    \A s \in Streams :
        /\ streamPc[s] \in {"new", "search"} => told[s] = <<>> /\ found[s] = 0
        /\ streamPc[s] = "tell" => found[s] > 0
        /\ streamPc[s] \in {"tell", "gone"} =>
             /\ Len(told[s]) <= found[s]
             /\ \A n \in 1..Len(told[s]) : told[s][n] = <<"result", n>>

TransportsInv ==
    /\ TransportsTypeOK
    /\ RecordedIsTaken
    /\ StreamsInOrder
    /\ AnswersFitLines
    /\ InputIsDrained
    /\ StreamsTellAll

(* Every line that is sent is served, unless its connection ends before.    *)
LinesAreServed ==
    \A c \in Conns : \A n \in 1..MaxLines :
        Len(sent[c]) >= n ~> (taken[c] >= n \/ pc[c] \in {"closed", "panicked"})

(* Every stream ends, and so does every connection whose client has left.   *)
StreamsEnd ==
    /\ \A s \in Streams : <>(streamPc[s] \in {"closed", "gone"})
    /\ \A c \in Conns : left[c] # "no" ~> pc[c] \in {"closed", "panicked"}

=============================================================================
