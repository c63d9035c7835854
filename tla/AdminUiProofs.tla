---------------------------- MODULE AdminUiProofs ----------------------------
(***************************************************************************)
(* Theorems about AdminUi, for any number of requests at once and whatever *)
(* other processes do between them: what the page shows of its last search, *)
(* that the parts of an answer agree, and what a count of an index action  *)
(* says of the stores.                                                     *)
(***************************************************************************)
EXTENDS AdminUi, TLAPS

-----------------------------------------------------------------------------
(* The inductive invariant *)

Asking == {"search", "smoke", "agent"}

(* The steps of each kind of request, and what it has to show for them.     *)
TaskFits(t) ==
    /\ t.pc = "idle" => t = NoTask
    /\ t.pc \in {"idle", "send", "wait", "done"} \/ t.kind \notin Asking
    /\ t.pc \in {"send", "wait"} =>
            t.kind \in Asking /\ Len(t.answers) < Len(Calls[t.kind])
    /\ t.pc = "done" /\ t.kind \in Asking =>
            Len(t.answers) = Len(Calls[t.kind])
    /\ t.kind \notin Asking => t.answers = << >>
    /\ t.counted => t.kind = "start" /\ t.pc \in {"respond", "done"}
    /\ t.pc \in {"save", "lexical", "vectors"} => t.kind = "start"

(* What every part of an answer is about, if nothing comes between.         *)
Told(kind, i) ==
    IF up /\ Indexed(selected) THEN {selected}
    ELSE IF up /\ Calls[kind][i] # "sse" THEN {selected, NoProject}
    ELSE {NoProject}

(* A request that nothing disturbed finds the selection and the stores as   *)
(* it has left them.                                                        *)
Keeps(t) ==
    /\ t.pc \in {"send", "wait"} => t.filter = selected
    /\ t.pc = "wait" => t.header = selected
    /\ \A i \in DOMAIN t.answers : t.answers[i] \in Told(t.kind, i)
    /\ t.project \in Projects =>
        /\ t.pc = "lexical" => stored[t.project] = {"entry", "index"}
        /\ t.pc = "vectors" => stored[t.project] = {"entry", "index", "lexical"}
    /\ t.counted => stored[t.project] = Stores

(* The page shows the answers of the last search as they come, and no other *)
(* search is on the way to it.                                              *)
Shows(c) ==
    LET answers == task[c].answers
    IN  /\ task[c].kind = "search" /\ ~At(c, "idle")
        /\ \A d \in Clicks \ {c} : task[d].kind = "search" => ~Running(d)
        /\ Len(answers) >= 1 => page.rows = [by |-> c, of |-> answers[1]]
        /\ Len(answers) >= 2 => /\ page.stream = [by |-> c, of |-> answers[2]]
                                /\ page.searching = "complete"

TasksFit == \A c \in Clicks : TaskFits(task[c])
UndisturbedKeep == \A c \in Clicks \ disturbed : Keeps(task[c])
LastIsShown == last # NoClick /\ ~overlapped => Shows(last)

UiInv == TypeOK /\ TasksFit /\ UndisturbedKeep /\ LastIsShown

-----------------------------------------------------------------------------
(* Types *)

LEMMA CallsOf ==
    /\ Len(Calls["search"]) = 2
    /\ Calls["search"][1] = "rpc" /\ Calls["search"][2] = "sse"
    /\ Len(Calls["smoke"]) = 3
    /\ Calls["smoke"][1] = "rpc"
    /\ Len(Calls["agent"]) = 4
    /\ Calls["agent"][1] = "rpc"
BY DEF Calls, Kinds

LEMMA OpensThird ==
    ASSUME NEW kind \in Asking, NEW n \in Nat, n < Len(Calls[kind]),
           Calls[kind][n + 1] = "open"
    PROVE  n = 2 /\ kind \in {"smoke", "agent"}
<1>1. CASE kind = "search"
  <2>1. n + 1 = 1 \/ n + 1 = 2
    BY <1>1, CallsOf
  <2> QED  BY <1>1, <2>1, CallsOf
<1>2. CASE kind = "smoke"
  <2>1. Calls["smoke"] = <<"rpc", "sse", "open">>
    BY DEF Calls, Kinds
  <2>2. n + 1 = 1 \/ n + 1 = 2 \/ n = 2
    BY <1>2, CallsOf
  <2>3. <<"rpc", "sse", "open">>[1] # "open" /\ <<"rpc", "sse", "open">>[2] # "open"
    OBVIOUS
  <2> QED  BY <1>2, <2>1, <2>2, <2>3
<1>3. CASE kind = "agent"
  <2>1. Calls["agent"] = <<"rpc", "rpc", "open", "sse">>
    BY DEF Calls, Kinds
  <2>2. n + 1 = 1 \/ n + 1 = 2 \/ n + 1 = 4 \/ n = 2
    BY <1>3, CallsOf
  <2>3. /\ <<"rpc", "rpc", "open", "sse">>[1] # "open"
        /\ <<"rpc", "rpc", "open", "sse">>[2] # "open"
        /\ <<"rpc", "rpc", "open", "sse">>[4] # "open"
    OBVIOUS
  <2> QED  BY <1>3, <2>1, <2>2, <2>3
<1> QED  BY <1>1, <1>2, <1>3 DEF Asking

LEMMA NoTaskFits ==
    /\ NoTask \in Task /\ NoTask.pc = "idle" /\ NoTask.kind = "search"
    /\ NoTask.project = NoProject /\ NoTask.answers = << >>
    /\ NoTask.counted = FALSE
    /\ TaskFits(NoTask)
<1>1. << >> \in Seq(Paths)
  OBVIOUS
<1>2. NoTask \in Task
  BY <1>1 DEF NoTask, Task, Kinds, Phases, Paths
<1>3. /\ NoTask.pc = "idle" /\ NoTask.kind = "search"
      /\ NoTask.project = NoProject /\ NoTask.answers = << >>
      /\ NoTask.counted = FALSE
  BY DEF NoTask
<1> QED  BY <1>2, <1>3 DEF TaskFits, Asking

(* The location that is opened is of an answer to a search, if there is one.*)
LEMMA TargetIsFound ==
    ASSUME TypeOK, NEW c \in Clicks, TaskFits(task[c]), task[c].pc = "wait",
           Call(c) = "open"
    PROVE  \/ /\ Target(c) = NoProject
              /\ 1 \in DOMAIN task[c].answers
              /\ task[c].answers[1] = NoProject
           \/ \E i \in DOMAIN task[c].answers : Target(c) = task[c].answers[i]
<1> DEFINE answers == task[c].answers
           found == {i \in DOMAIN answers : /\ Calls[task[c].kind][i] = "rpc"
                                            /\ answers[i] # NoProject}
<1>1. /\ answers \in Seq(Paths) /\ Len(answers) \in Nat
      /\ DOMAIN answers = 1..Len(answers)
  BY DEF TypeOK, Task
<1>2. /\ task[c].kind \in Asking
      /\ Len(answers) < Len(Calls[task[c].kind])
      /\ Calls[task[c].kind][Len(answers) + 1] = "open"
  BY DEF TaskFits, Call
<1>3. Len(answers) = 2 /\ task[c].kind \in {"smoke", "agent"}
  BY <1>1, <1>2, OpensThird
<1>4. Calls[task[c].kind][1] = "rpc" /\ DOMAIN answers = {1, 2}
  BY <1>1, <1>3, CallsOf
<1>5. CASE found = {}
  <2>1. 1 \notin found
    BY <1>5
  <2> QED  BY <1>4, <1>5, <2>1 DEF Target
<1>6. CASE found # {}
  <2>1. \E i \in found : \A j \in found : i <= j
    BY <1>4, <1>6
  <2>2. Target(c) = answers[CHOOSE i \in found : \A j \in found : i <= j]
    BY <1>6 DEF Target
  <2> QED  BY <2>1, <2>2
<1> QED  BY <1>5, <1>6

LEMMA NoOutputType == NoOutput \in Output
BY DEF NoOutput, Output, Paths

LEMMA UiInit == Init => UiInv
<1> SUFFICES ASSUME Init PROVE UiInv
  OBVIOUS
<1>1. \A c \in Clicks : task[c] = NoTask
  BY DEF Init
<1>2. Before \in Paths /\ NoProject \in Paths
  BY UiAssumption DEF Paths
<1>3. page \in Page
  BY <1>2, NoOutputType DEF Init, Page
<1>4. telemetry \in [Channels -> [pc : {"ready", "sent", "closed"},
                                  snapshot : Snapshot]]
  BY <1>2 DEF Init, Snapshot, Failure, Channels
<1>5. TypeOK
  <2>1. stored \in [Paths -> SUBSET Stores]
    BY DEF Init
  <2>2. task \in [Clicks -> Task] /\ up \in BOOLEAN /\ overlapped \in BOOLEAN
    BY NoTaskFits DEF Init
  <2>3. /\ selected \in Paths /\ outside \in 0..MaxOutside
        /\ disturbed \subseteq Clicks /\ last \in Clicks \union {NoClick}
        /\ cached \subseteq Repeated
    BY <1>2, UiAssumption DEF Init
  <2> QED  BY <1>3, <1>4, <2>1, <2>2, <2>3 DEF TypeOK
<1>6. TasksFit /\ UndisturbedKeep
  BY <1>1, NoTaskFits, UiAssumption DEF TasksFit, UndisturbedKeep, Keeps
<1>7. LastIsShown
  BY DEF Init, LastIsShown
<1> QED  BY <1>5, <1>6, <1>7 DEF UiInv

(* One request becomes another record that fits.                            *)
LEMMA TaskStep ==
    ASSUME TypeOK, TasksFit, NEW c \in Clicks, NEW t \in Task, TaskFits(t),
           task' = [task EXCEPT ![c] = t]
    PROVE  /\ task' \in [Clicks -> Task] /\ TasksFit'
           /\ task'[c] = t
           /\ \A d \in Clicks \ {c} : task'[d] = task[d]
BY DEF TypeOK, TasksFit

LEMMA BeginTypes ==
    ASSUME TypeOK, TasksFit, NEW c \in Clicks, NEW kind \in Asking, Begin(c, kind)
    PROVE  /\ task' \in [Clicks -> Task] /\ TasksFit'
           /\ task'[c].kind = kind /\ task'[c].pc = "send"
           /\ task'[c].answers = << >> /\ task'[c].filter = selected
           /\ task'[c].project = NoProject /\ ~task'[c].counted
           /\ \A d \in Clicks \ {c} : task'[d] = task[d]
<1> DEFINE t == [task[c] EXCEPT !.kind = kind, !.pc = "send",
                                !.filter = selected]
<1>1. task[c] = NoTask /\ task[c] \in Task
  BY NoTaskFits DEF Begin, At, TasksFit, TaskFits, TypeOK
<1>2. /\ t \in Task /\ t.kind = kind /\ t.pc = "send"
      /\ t.filter = selected /\ t.answers = << >>
      /\ t.project = NoProject
  BY <1>1, NoTaskFits DEF TypeOK, Task, Kinds, Phases, Asking
<1>3. t.counted = FALSE
  BY <1>1, NoTaskFits DEF Task
<1>4. task' = [task EXCEPT ![c] = t]
  BY DEF Begin
<1>5. TaskFits(t)
  BY <1>2, <1>3, CallsOf DEF TaskFits, Asking
<1> HIDE DEF t
<1> QED  BY <1>2, <1>3, <1>4, <1>5, TaskStep

LEMMA AnswerType ==
    ASSUME TypeOK, TasksFit, NEW c \in Clicks, task[c].pc = "wait",
           NEW answer \in Answers(c)
    PROVE  answer \in Paths
<1>1. TaskFits(task[c]) /\ task[c] \in Task /\ NoProject \in Paths
  BY DEF TasksFit, TypeOK, Paths
<1>2. Call(c) = "open" => Target(c) \in Paths
  BY <1>1, TargetIsFound DEF Task
<1>3. ScopeOf(c) \in Paths
  BY <1>1 DEF ScopeOf, Task, TypeOK
<1> QED  BY <1>1, <1>2, <1>3 DEF Answers, Found, Cached

(* A request receives this answer of those it may get.                      *)
Gets(c, answer) ==
    /\ At(c, "wait")
    /\ task' = [task EXCEPT ![c].answers = Append(@, answer),
            ![c].pc = IF Len(task[c].answers) + 1 = Len(Calls[task[c].kind])
                      THEN "done" ELSE "send",
            ![c].header = NoProject,
            ![c].filter = IF Len(task[c].answers) + 1 = Len(Calls[task[c].kind])
                          THEN NoProject ELSE @]
    /\ page' = Render(c, answer)
    /\ Remember(c, answer)
    /\ UNCHANGED <<selected, stored, up, telemetry, outside, disturbed, searches>>

LEMMA ReceiveGets ==
    ASSUME NEW c \in Clicks, Receive(c)
    PROVE  \E answer \in Answers(c) : Gets(c, answer)
BY Zenon DEF Receive, Gets

LEMMA ReceiveTypes ==
    ASSUME TypeOK, TasksFit, NEW c \in Clicks, NEW answer \in Answers(c),
           Gets(c, answer)
    PROVE  /\ TypeOK' /\ TasksFit'
           /\ task'[c].kind = task[c].kind /\ task[c].kind \in Asking
           /\ task'[c].pc \in {"send", "done"}
           /\ task'[c].answers = Append(task[c].answers, answer)
           /\ task'[c].pc = "send" => task'[c].filter = task[c].filter
           /\ task'[c].project = task[c].project
           /\ task'[c].counted = task[c].counted
           /\ \A d \in Clicks \ {c} : task'[d] = task[d]
<1> DEFINE answers == Append(task[c].answers, answer)
           over == Len(task[c].answers) + 1 = Len(Calls[task[c].kind])
           t == [task[c] EXCEPT !.answers = answers,
                    !.pc = IF over THEN "done" ELSE "send",
                    !.header = NoProject,
                    !.filter = IF over THEN NoProject ELSE @]
<1>1. /\ task[c] \in Task /\ TaskFits(task[c]) /\ task[c].pc = "wait"
      /\ answer \in Paths /\ NoProject \in Paths
  BY AnswerType DEF TypeOK, TasksFit, Gets, At, Paths
<1>2. /\ answers \in Seq(Paths) /\ Len(answers) = Len(task[c].answers) + 1
      /\ Len(task[c].answers) \in Nat
  BY <1>1 DEF Task
<1>3. /\ t \in Task /\ t.kind = task[c].kind
      /\ t.pc = (IF over THEN "done" ELSE "send") /\ t.answers = answers
      /\ t.pc = "send" => t.filter = task[c].filter
      /\ t.project = task[c].project
  BY <1>1, <1>2 DEF Task, Phases
<1>4. t.counted = task[c].counted /\ task[c].counted = FALSE
  BY <1>1 DEF Task, TaskFits
<1>5. /\ task[c].kind \in Asking
      /\ Len(task[c].answers) < Len(Calls[task[c].kind])
      /\ Len(Calls[task[c].kind]) \in Nat
  BY <1>1, CallsOf DEF TaskFits, Asking
<1>6. TaskFits(t)
  BY <1>2, <1>3, <1>4, <1>5 DEF TaskFits, Asking
<1>7. task' = [task EXCEPT ![c] = t]
  BY DEF Gets
<1>8. Render(c, answer) \in Page
  <2>1. [by |-> c, of |-> answer] \in Output
    BY <1>1 DEF Output
  <2> QED  BY <2>1 DEF Render, TypeOK, Page
<1> HIDE DEF t
<1>9. cached' \subseteq Repeated
  BY DEF Gets, Remember, TypeOK
<1>10. TypeOK'
  BY <1>3, <1>6, <1>7, <1>8, <1>9, TaskStep DEF TypeOK, Gets, searches
<1> QED  BY <1>3, <1>4, <1>5, <1>6, <1>7, <1>10, TaskStep

(* The steps of select, start and clear.                                    *)
IndexPhases == {"truncate", "write", "save", "lexical", "vectors", "remove",
                "drop", "respond", "done"}

(* An index action stays one, of its project and without answers.           *)
LEMMA IndexTask ==
    ASSUME TypeOK, TasksFit, NEW c \in Clicks, NEW t \in Task,
           task' = [task EXCEPT ![c] = t],
           t.pc \in IndexPhases, t.kind \notin Asking, t.answers = << >>,
           t.counted => t.kind = "start" /\ t.pc \in {"respond", "done"},
           t.pc \in {"save", "lexical", "vectors"} => t.kind = "start"
    PROVE  /\ task' \in [Clicks -> Task] /\ TasksFit' /\ task'[c] = t
           /\ \A d \in Clicks \ {c} : task'[d] = task[d]
<1>1. TaskFits(t)
  BY DEF TaskFits, IndexPhases
<1> QED  BY <1>1, TaskStep

LEMMA ClickTypes ==
    ASSUME TypeOK, TasksFit, NEW c \in Clicks,
           \/ \E p \in Projects : ClickSelect(c, p)
           \/ \E kind \in {"start", "clear"} : ClickIndex(c, kind)
    PROVE  /\ TypeOK' /\ TasksFit'
           /\ task'[c].kind \notin Asking /\ task'[c].pc = "truncate"
           /\ task'[c].answers = << >> /\ ~task'[c].counted
           /\ \A d \in Clicks \ {c} : task'[d] = task[d]
<1>1. PICK kind \in {"select", "start", "clear"}, p \in Paths :
        task' = [task EXCEPT ![c] = [@ EXCEPT !.kind = kind, !.pc = "truncate",
                                              !.project = p]]
  <2>1. ASSUME NEW p \in Projects, ClickSelect(c, p)
        PROVE  task' = [task EXCEPT ![c] = [@ EXCEPT !.kind = "select",
                                    !.pc = "truncate", !.project = p]]
    BY <2>1 DEF ClickSelect
  <2>2. ASSUME NEW kind \in {"start", "clear"}, ClickIndex(c, kind)
        PROVE  \E p \in Paths :
                task' = [task EXCEPT ![c] = [@ EXCEPT !.kind = kind,
                                    !.pc = "truncate", !.project = p]]
    <3> DEFINE p == IF page.input = NoProject THEN selected ELSE page.input
    <3>1. p \in Paths
      BY DEF TypeOK, Page
    <3>2. task' = [task EXCEPT ![c] = [@ EXCEPT !.kind = kind,
                                    !.pc = "truncate", !.project = p]]
      BY <2>2 DEF ClickIndex, TypeOK
    <3> QED  BY <3>1, <3>2
  <2> QED  BY <2>1, <2>2 DEF Paths
<1> DEFINE t == [task[c] EXCEPT !.kind = kind, !.pc = "truncate", !.project = p]
<1>2. task[c] = NoTask /\ task[c] \in Task
  BY NoTaskFits DEF ClickSelect, ClickIndex, At, TasksFit, TaskFits, TypeOK
<1>3. /\ t \in Task /\ t.kind = kind /\ t.pc = "truncate"
      /\ t.answers = << >>
  BY <1>2, NoTaskFits DEF Task, Kinds, Phases
<1>4. t.counted = FALSE
  BY <1>2, NoTaskFits DEF Task
<1>5. task' = [task EXCEPT ![c] = t]
  BY <1>1
<1> HIDE DEF t
<1>6. /\ task' \in [Clicks -> Task] /\ TasksFit' /\ task'[c] = t
      /\ \A d \in Clicks \ {c} : task'[d] = task[d]
  BY <1>3, <1>4, <1>5, IndexTask DEF IndexPhases, Asking
<1>7. page' \in Page
  BY DEF ClickSelect, ClickIndex, TypeOK, Page, Paths
<1>8. TypeOK'
  BY <1>6, <1>7 DEF TypeOK, ClickSelect, ClickIndex, searches, server
<1> QED  BY <1>3, <1>4, <1>6, <1>8 DEF Asking

LEMMA IndexTypes ==
    ASSUME TypeOK, TasksFit, NEW c \in Clicks,
           \/ Truncate(c) \/ Write(c) \/ SelectFails(c)
           \/ Save(c) \/ PersistLexical(c) \/ PersistVectors(c)
           \/ IndexFails(c) \/ Remove(c) \/ DropVectors(c) \/ Respond(c)
    PROVE  /\ TypeOK' /\ TasksFit'
           /\ task[c].kind \notin Asking /\ task'[c].kind = task[c].kind
           /\ task'[c].answers = << >>
           /\ task'[c].project = task[c].project
           /\ task'[c].counted =>
                task[c].counted \/ PersistVectors(c)
           /\ \A d \in Clicks \ {c} : task'[d] = task[d]
<1>1. /\ task[c] \in Task /\ TaskFits(task[c])
      /\ task[c].pc \in IndexPhases \ {"done"}
  BY DEF TypeOK, TasksFit, Truncate, Write, SelectFails, Save, PersistLexical,
         PersistVectors, IndexFails, Remove, DropVectors, Respond, At,
         IndexPhases
<1>2. /\ task[c].kind \in Kinds \ Asking /\ task[c].answers = << >>
      /\ task[c].project \in Paths
      /\ task[c].counted =>
            task[c].kind = "start" /\ task[c].pc \in {"respond", "done"}
  BY <1>1 DEF TaskFits, IndexPhases, Task
<1>3. PICK pc \in IndexPhases, counted \in BOOLEAN :
        /\ task' = [task EXCEPT ![c] = [@ EXCEPT !.pc = pc, !.counted = counted]]
        /\ counted => task[c].kind = "start" /\ pc \in {"respond", "done"}
        /\ counted => task[c].counted \/ PersistVectors(c)
        /\ pc \in {"save", "lexical", "vectors"} => task[c].kind = "start"
  <2>1. ASSUME NEW pc \in IndexPhases, task' = [task EXCEPT ![c].pc = pc],
               pc \in {"respond", "done"} \/ ~task[c].counted,
               pc \in {"save", "lexical", "vectors"} => task[c].kind = "start"
        PROVE  \E k \in IndexPhases, counted \in BOOLEAN :
                /\ task' = [task EXCEPT ![c] = [@ EXCEPT !.pc = k,
                                                         !.counted = counted]]
                /\ counted => task[c].kind = "start" /\ k \in {"respond", "done"}
                /\ counted => task[c].counted \/ PersistVectors(c)
                /\ k \in {"save", "lexical", "vectors"} => task[c].kind = "start"
    <3>1. [task[c] EXCEPT !.pc = pc] =
            [task[c] EXCEPT !.pc = pc, !.counted = task[c].counted]
      BY <1>1 DEF Task
    <3>2. task[c].counted \in BOOLEAN
      BY <1>1 DEF Task
    <3> QED  BY <1>2, <2>1, <3>1, <3>2
  <2>2. CASE Truncate(c)
    BY <1>1, <1>2, <2>1, <2>2 DEF Truncate, At, IndexPhases
  <2>3. CASE Write(c) \/ SelectFails(c)
    BY <1>1, <1>2, <2>1, <2>3
    DEF Write, SelectFails, AfterSelection, At, IndexPhases
  <2>4. CASE Save(c) \/ PersistLexical(c) \/ DropVectors(c)
    BY <1>1, <1>2, <2>1, <2>4
    DEF Save, PersistLexical, DropVectors, At, IndexPhases, TaskFits
  <2>7. CASE Remove(c)
    <3>1. PICK pc \in {"drop", "respond"} : task' = [task EXCEPT ![c].pc = pc]
      BY <2>7, Zenon DEF Remove
    <3>2. ~task[c].counted
      BY <1>2, <2>7 DEF Remove, At
    <3> QED  BY <2>1, <3>1, <3>2 DEF IndexPhases
  <2>5. CASE IndexFails(c) \/ Respond(c)
    BY <1>1, <1>2, <2>1, <2>5 DEF IndexFails, Respond, At, IndexPhases
  <2>6. CASE PersistVectors(c)
    <3>1. task[c].kind = "start"
      BY <1>1, <2>6 DEF PersistVectors, At, TaskFits
    <3>2. (task[c].project \in Projects) \in BOOLEAN
      OBVIOUS
    <3>3. task' = [task EXCEPT ![c] = [@ EXCEPT !.pc = "respond",
                        !.counted = task[c].project \in Projects]]
      BY <2>6, Zenon DEF PersistVectors
    <3> QED  BY <2>6, <3>1, <3>2, <3>3 DEF IndexPhases
  <2> QED  BY <2>2, <2>3, <2>4, <2>5, <2>6, <2>7
<1> DEFINE t == [task[c] EXCEPT !.pc = pc, !.counted = counted]
<1>4. /\ t \in Task /\ t.kind = task[c].kind /\ t.pc = pc
      /\ t.answers = << >> /\ t.project = task[c].project
  BY <1>1, <1>2 DEF Task, IndexPhases, Phases
<1>5. t.counted = counted
  BY <1>1 DEF Task
<1>6. task' = [task EXCEPT ![c] = t]
  BY <1>3
<1> HIDE DEF t
<1>7. /\ task' \in [Clicks -> Task] /\ TasksFit' /\ task'[c] = t
      /\ \A d \in Clicks \ {c} : task'[d] = task[d]
  <2>1. t.counted => t.kind = "start" /\ t.pc \in {"respond", "done"}
    BY <1>3, <1>4, <1>5
  <2>2. /\ t.pc \in IndexPhases /\ t.kind \notin Asking
        /\ t.pc \in {"save", "lexical", "vectors"} => t.kind = "start"
    BY <1>2, <1>3, <1>4
  <2> QED  BY <1>4, <1>6, <2>1, <2>2, IndexTask
<1>8. selected' \in Paths /\ disturbed' \subseteq Clicks
  BY <1>2
  DEF TypeOK, Truncate, Write, SelectFails, Save, PersistLexical,
      PersistVectors, IndexFails, Remove, DropVectors, Respond, StoreInto,
      Disturb, Paths
<1>9. stored' \in [Paths -> SUBSET Stores]
  <2>1. ASSUME NEW stores \in SUBSET Stores, StoreInto(c, stores)
        PROVE  stored' \in [Paths -> SUBSET Stores]
    BY <1>2, <2>1 DEF StoreInto, TypeOK
  <2>2. stored[task[c].project] \in SUBSET Stores
    BY <1>2 DEF TypeOK
  <2>3. CASE Save(c)
    <3>1. {"entry"} \in SUBSET Stores /\ {"entry", "index"} \in SUBSET Stores
      BY DEF Stores
    <3> QED  BY <2>1, <2>3, <3>1 DEF Save
  <2>4. CASE PersistLexical(c) \/ PersistVectors(c)
    <3>1. /\ stored[task[c].project] \union {"lexical"} \in SUBSET Stores
          /\ stored[task[c].project] \union {"vectors"} \in SUBSET Stores
      BY <2>2 DEF Stores
    <3> QED  BY <2>1, <2>4, <3>1 DEF PersistLexical, PersistVectors
  <2>5. CASE Remove(c) \/ DropVectors(c)
    <3>1. \A S : /\ stored[task[c].project] \intersect S \in SUBSET Stores
                /\ stored[task[c].project] \ S \in SUBSET Stores
      BY <2>2
    <3> QED  BY <2>1, <2>5, <3>1 DEF Remove, DropVectors
  <2>6. CASE Truncate(c) \/ Write(c) \/ SelectFails(c) \/ IndexFails(c) \/ Respond(c)
    BY <2>6 DEF Truncate, Write, SelectFails, IndexFails, Respond, TypeOK
  <2> QED  BY <2>3, <2>4, <2>5, <2>6
<1>10. page' \in Page
  BY <1>2
  DEF TypeOK, Truncate, Write, SelectFails, Save, PersistLexical,
      PersistVectors, IndexFails, Remove, DropVectors, Respond, StoreInto, Page
<1>11. UNCHANGED <<up, cached, telemetry, outside, last, overlapped>>
  BY DEF Truncate, Write, SelectFails, Save, PersistLexical,
      PersistVectors, IndexFails, Remove, DropVectors, Respond, StoreInto,
      searches, server
<1>12. TypeOK'
  BY <1>7, <1>8, <1>9, <1>10, <1>11 DEF TypeOK
<1> QED  BY <1>2, <1>3, <1>4, <1>5, <1>7, <1>12

-----------------------------------------------------------------------------
(* What a step of one request leaves to the others                          *)

LEMMA OthersKeep ==
    ASSUME UndisturbedKeep, NEW c \in Clicks,
           \A d \in Clicks \ {c} :
                /\ task'[d] = task[d]
                /\ d \notin disturbed' =>
                        d \notin disturbed /\ UNCHANGED <<selected, stored, up>>,
           c \notin disturbed' => Keeps(task[c])'
    PROVE  UndisturbedKeep'
<1> SUFFICES ASSUME NEW d \in Clicks, d \notin disturbed'
             PROVE  Keeps(task[d])'
  BY DEF UndisturbedKeep
<1>1. CASE d = c
  BY <1>1
<1>2. CASE d # c
  <2>1. Keeps(task[d]) /\ task'[d] = task[d]
    BY <1>2 DEF UndisturbedKeep
  <2> QED  BY <1>2, <2>1 DEF Keeps, Told, Indexed
<1> QED  BY <1>1, <1>2

(* Steps that leave the rows, the stream and all searches as they are.      *)
LEMMA StillShown ==
    ASSUME LastIsShown, last \in Clicks \union {NoClick},
           UNCHANGED <<last, overlapped>>,
           /\ page'.rows = page.rows /\ page'.stream = page.stream
           /\ page'.searching = page.searching,
           \A d \in Clicks :
            /\ task'[d].kind = "search" /\ Running(d)' =>
                    task[d].kind = "search" /\ Running(d)
            /\ task[d].kind = "search" /\ ~At(d, "idle") =>
                /\ task'[d].kind = "search" /\ ~At(d, "idle")'
                /\ task'[d].answers = task[d].answers
    PROVE  LastIsShown'
BY DEF LastIsShown, Shows, At

LEMMA ClickSearchStep ==
    ASSUME UiInv, NEW c \in Clicks, ClickSearch(c)
    PROVE  UiInv'
<1>1. TypeOK /\ TasksFit /\ UndisturbedKeep /\ Begin(c, "search")
  BY DEF UiInv, ClickSearch
<1>2. /\ task' \in [Clicks -> Task] /\ TasksFit'
      /\ task'[c].kind = "search" /\ task'[c].pc = "send"
      /\ task'[c].answers = << >> /\ task'[c].filter = selected
      /\ task'[c].project = NoProject /\ ~task'[c].counted
      /\ \A d \in Clicks \ {c} : task'[d] = task[d]
  BY <1>1, BeginTypes DEF Asking
<1>3. TypeOK'
  BY <1>1, <1>2 DEF TypeOK, ClickSearch, Begin, Page, server
<1>4. UndisturbedKeep'
  <2>1. /\ selected' = selected /\ stored' = stored /\ up' = up
        /\ disturbed' = disturbed \ {c}
    BY <1>1 DEF Begin, server
  <2>2. Keeps(task[c])'
    BY <1>2, <2>1, UiAssumption DEF Keeps
  <2> QED  BY <1>1, <1>2, <2>1, <2>2, OthersKeep
<1>5. LastIsShown'
  <2> SUFFICES ASSUME ~overlapped' PROVE Shows(c)'
    BY DEF LastIsShown, ClickSearch
  <2>1. \A d \in Clicks : task[d].kind = "search" => ~Running(d)
    BY DEF ClickSearch
  <2> QED  BY <1>2, <2>1 DEF Shows, At, Running
<1> QED  BY <1>2, <1>3, <1>4, <1>5 DEF UiInv

LEMMA RunTestStep ==
    ASSUME UiInv, NEW c \in Clicks, NEW kind \in {"smoke", "agent"},
           RunTest(c, kind)
    PROVE  UiInv'
<1>1. TypeOK /\ TasksFit /\ UndisturbedKeep /\ LastIsShown /\ Begin(c, kind)
  BY DEF UiInv, RunTest
<1>2. /\ task' \in [Clicks -> Task] /\ TasksFit'
      /\ task'[c].kind = kind /\ task'[c].pc = "send"
      /\ task'[c].answers = << >> /\ task'[c].filter = selected
      /\ task'[c].project = NoProject /\ ~task'[c].counted
      /\ \A d \in Clicks \ {c} : task'[d] = task[d]
  BY <1>1, BeginTypes DEF Asking
<1>3. /\ UNCHANGED <<selected, stored, up, cached, page, telemetry, outside,
                     last, overlapped>>
      /\ disturbed' = disturbed \ {c} /\ task[c].pc = "idle"
  BY <1>1 DEF RunTest, Begin, At, searches, server
<1>4. TypeOK'
  BY <1>1, <1>2, <1>3 DEF TypeOK
<1>5. UndisturbedKeep'
  <2>1. Keeps(task[c])'
    BY <1>2, <1>3, UiAssumption DEF Keeps
  <2> QED  BY <1>1, <1>2, <1>3, <2>1, OthersKeep
<1>6. LastIsShown'
  <2>1. last \in Clicks \union {NoClick}
    BY <1>1 DEF TypeOK
  <2> QED
    BY <1>1, <1>2, <1>3, <2>1, StillShown DEF Running, At
<1> QED  BY <1>2, <1>4, <1>5, <1>6 DEF UiInv

LEMMA SendStep ==
    ASSUME UiInv, NEW c \in Clicks, Send(c)
    PROVE  UiInv'
<1> DEFINE t == [task[c] EXCEPT !.pc = "wait", !.header = selected]
<1>1. /\ TypeOK /\ TasksFit /\ UndisturbedKeep /\ LastIsShown
      /\ task[c] \in Task /\ TaskFits(task[c]) /\ task[c].pc = "send"
  BY DEF UiInv, TypeOK, TasksFit, Send, At
<1>2. /\ t \in Task /\ t.kind = task[c].kind /\ t.pc = "wait"
      /\ t.answers = task[c].answers /\ t.project = task[c].project
      /\ t.filter = task[c].filter /\ t.header = selected
  BY <1>1 DEF Task, Phases, TypeOK
<1>3. t.counted = task[c].counted /\ task[c].counted = FALSE
  BY <1>1 DEF Task, TaskFits
<1>4. task' = [task EXCEPT ![c] = t]
  BY DEF Send
<1> HIDE DEF t
<1>5. TaskFits(t)
  BY <1>1, <1>2, <1>3 DEF TaskFits
<1>6. /\ task' \in [Clicks -> Task] /\ TasksFit' /\ task'[c] = t
      /\ \A d \in Clicks \ {c} : task'[d] = task[d]
  BY <1>1, <1>2, <1>4, <1>5, TaskStep
<1>7. UNCHANGED <<selected, stored, up, cached, page, telemetry, outside,
                  disturbed, last, overlapped>>
  BY DEF Send, searches, server
<1>8. TypeOK'
  BY <1>1, <1>6, <1>7 DEF TypeOK
<1>9. UndisturbedKeep'
  <2>1. c \notin disturbed => Keeps(task[c])
    BY <1>1 DEF UndisturbedKeep
  <2>2. c \notin disturbed => Keeps(task[c])'
    BY <1>1, <1>2, <1>3, <1>6, <1>7, <2>1 DEF Keeps, Told, Indexed
  <2> QED  BY <1>1, <1>6, <1>7, <2>2, OthersKeep
<1>10. LastIsShown'
  <2>1. last \in Clicks \union {NoClick}
    BY <1>1 DEF TypeOK
  <2> QED
    BY <1>1, <1>2, <1>6, <1>7, <2>1, StillShown DEF Running, At
<1> QED  BY <1>6, <1>8, <1>9, <1>10 DEF UiInv

(* An undisturbed request gets what the others of its answers were of.      *)
LEMMA AnswerIsTold ==
    ASSUME TypeOK, NEW c \in Clicks, TaskFits(task[c]), task[c].pc = "wait",
           Keeps(task[c]), NEW answer \in Answers(c)
    PROVE  answer \in Told(task[c].kind, Len(task[c].answers) + 1)
<1> DEFINE n == Len(task[c].answers) + 1
           kind == task[c].kind
<1>1. /\ task[c].filter = selected /\ task[c].header = selected
      /\ \A i \in DOMAIN task[c].answers : task[c].answers[i] \in Told(kind, i)
      /\ Call(c) = Calls[kind][n]
  BY DEF Keeps, Call
<1>2. CASE ~up
  BY <1>2 DEF Answers, Told
<1>3. CASE up /\ Call(c) = "open"
  <2>1. answer = Target(c)
    BY <1>3 DEF Answers
  <2>2. \E i \in DOMAIN task[c].answers : Target(c) = task[c].answers[i]
    BY <1>3, TargetIsFound
  <2>3. PICK i \in DOMAIN task[c].answers : answer \in Told(kind, i)
    BY <1>1, <2>1, <2>2
  <2>4. Calls[kind][n] # "sse"
    BY <1>1, <1>3
  <2> QED  BY <1>3, <2>3, <2>4 DEF Told
<1>4. CASE up /\ Call(c) # "open"
  <2>1. ScopeOf(c) = selected
    BY <1>1 DEF ScopeOf
  <2>2. answer \in {Found(c)} \union Cached(c)
    BY <1>4 DEF Answers
  <2>3. CASE Indexed(selected)
    BY <1>4, <2>1, <2>2, <2>3 DEF Found, Cached, Told
  <2>4. CASE ~Indexed(selected) /\ Call(c) # "rpc"
    <3>1. answer = NoProject
      BY <2>1, <2>2, <2>4 DEF Found, Cached
    <3> QED  BY <2>4, <3>1 DEF Told
  <2>5. CASE ~Indexed(selected) /\ Call(c) = "rpc"
    <3>1. answer \in {selected, NoProject}
      BY <2>1, <2>2, <2>5 DEF Found, Cached
    <3>2. Calls[kind][n] # "sse"
      BY <1>1, <2>5
    <3> QED  BY <1>4, <2>5, <3>1, <3>2 DEF Told
  <2> QED  BY <2>3, <2>4, <2>5
<1> QED  BY <1>2, <1>3, <1>4

(* The answer of a search goes to its place on the page.                    *)
LEMMA ReceiveShows ==
    ASSUME TypeOK, TasksFit, NEW c \in Clicks, NEW answer \in Answers(c),
           Gets(c, answer), Shows(c),
           task[c].kind = "search"
    PROVE  Shows(c)'
<1> DEFINE answers == task[c].answers
           n == Len(answers)
<1>1. /\ task'[c].kind = "search" /\ task'[c].pc \in {"send", "done"}
      /\ task'[c].answers = Append(answers, answer)
      /\ \A d \in Clicks \ {c} : task'[d] = task[d]
  BY ReceiveTypes
<1>2. /\ task[c] \in Task /\ TaskFits(task[c]) /\ task[c].pc = "wait"
      /\ answer \in Paths
  BY AnswerType DEF TypeOK, TasksFit, Gets, At
<1>3. answers \in Seq(Paths) /\ n \in Nat /\ n < 2
  BY <1>2, CallsOf DEF Task, TaskFits, Asking
<1>4. /\ Len(task'[c].answers) = n + 1 /\ task'[c].answers[n + 1] = answer
      /\ n = 1 => task'[c].answers[1] = answers[1]
  BY <1>1, <1>2, <1>3
<1>5. page' = Render(c, answer) /\ page \in Page
  BY DEF Gets, TypeOK
<1>6. \A d \in Clicks \ {c} : task'[d].kind = "search" => ~Running(d)'
  BY <1>1 DEF Shows, Running, At
<1>7. CASE n = 0
  <2>1. page' = [page EXCEPT !.rows = [by |-> c, of |-> answer]]
    BY <1>5, <1>7, CallsOf DEF Render, Call
  <2>2. page'.rows = [by |-> c, of |-> answer]
    BY <1>5, <2>1 DEF Page
  <2> QED  BY <1>1, <1>4, <1>6, <1>7, <2>2 DEF Shows, At
<1>8. CASE n = 1
  <2>1. page' = [page EXCEPT !.stream = [by |-> c, of |-> answer],
                             !.searching = "complete"]
    BY <1>5, <1>8, CallsOf DEF Render, Call
  <2>2. /\ page'.stream = [by |-> c, of |-> answer]
        /\ page'.searching = "complete" /\ page'.rows = page.rows
    BY <1>5, <2>1 DEF Page
  <2>3. page.rows = [by |-> c, of |-> answers[1]]
    BY <1>8 DEF Shows
  <2> QED  BY <1>1, <1>4, <1>6, <1>8, <2>2, <2>3 DEF Shows, At
<1>9. n = 0 \/ n = 1
  <2>1. \A k \in Nat : k < 2 => k = 0 \/ k = 1
    OBVIOUS
  <2> QED  BY <1>3, <2>1, Zenon
<1> QED  BY <1>7, <1>8, <1>9

LEMMA ReceiveStep ==
    ASSUME UiInv, NEW c \in Clicks, Receive(c)
    PROVE  UiInv'
<1> PICK answer \in Answers(c) : Gets(c, answer)
  BY ReceiveGets
<1>1. /\ TypeOK /\ TasksFit /\ UndisturbedKeep /\ LastIsShown
      /\ task[c] \in Task /\ TaskFits(task[c]) /\ task[c].pc = "wait"
      /\ answer \in Paths
  BY AnswerType DEF UiInv, TypeOK, TasksFit, Gets, At
<1>2. /\ TypeOK' /\ TasksFit'
      /\ task'[c].kind = task[c].kind /\ task[c].kind \in Asking
      /\ task'[c].pc \in {"send", "done"}
      /\ task'[c].answers = Append(task[c].answers, answer)
      /\ task'[c].pc = "send" => task'[c].filter = task[c].filter
      /\ \A d \in Clicks \ {c} : task'[d] = task[d]
  BY <1>1, ReceiveTypes
<1>3. UNCHANGED <<selected, stored, up, disturbed, last, overlapped>>
  BY DEF Gets, searches
<1>4. UndisturbedKeep'
  <2>1. ASSUME c \notin disturbed PROVE Keeps(task[c])'
    <3>1. Keeps(task[c])
      BY <1>1, <2>1 DEF UndisturbedKeep
    <3>2. answer \in Told(task[c].kind, Len(task[c].answers) + 1)
      BY <1>1, <3>1, AnswerIsTold
    <3>3. /\ task[c].answers \in Seq(Paths)
          /\ \A i \in DOMAIN task[c].answers :
                task[c].answers[i] \in Told(task[c].kind, i)
      BY <1>1, <3>1 DEF Task, Keeps
    <3>4. \A i \in DOMAIN task'[c].answers :
            task'[c].answers[i] \in Told(task[c].kind, i)
      <4> SUFFICES ASSUME NEW i \in DOMAIN task'[c].answers
                   PROVE  task'[c].answers[i] \in Told(task[c].kind, i)
        OBVIOUS
      <4>1. CASE i = Len(task[c].answers) + 1
        BY <1>1, <1>2, <3>2, <3>3, <4>1
      <4>2. CASE i # Len(task[c].answers) + 1
        BY <1>1, <1>2, <3>3, <4>2
      <4> QED  BY <4>1, <4>2
    <3>5. \A i \in DOMAIN task'[c].answers :
            task'[c].answers[i] \in Told(task[c].kind, i)'
      BY <1>2, <1>3, <3>4 DEF Told, Indexed
    <3>6. ~task'[c].counted
      BY <1>1, <1>2, ReceiveTypes DEF TaskFits, Asking
    <3>7. task'[c].pc = "send" => task'[c].filter = selected
      BY <1>1, <1>2, <3>1 DEF Keeps
    <3> QED  BY <1>2, <1>3, <3>5, <3>6, <3>7 DEF Keeps
  <2> QED  BY <1>1, <1>2, <1>3, <2>1, OthersKeep
<1>5. LastIsShown'
  <2>1. CASE task[c].kind = "search"
    <3> SUFFICES ASSUME last # NoClick, ~overlapped PROVE Shows(last)'
      BY <1>3 DEF LastIsShown
    <3>1. Shows(last) /\ last \in Clicks
      BY <1>1 DEF LastIsShown, TypeOK
    <3>2. last = c
      BY <1>1, <2>1, <3>1 DEF Shows, Running, At
    <3>3. Shows(c)'
      BY <1>1, <2>1, <3>1, <3>2, ReceiveShows
    <3> QED  BY <1>3, <3>2, <3>3 DEF Shows, At
  <2>2. CASE task[c].kind # "search"
    <3>1. page' = page
      BY <2>2 DEF Gets, Render
    <3>2. last \in Clicks \union {NoClick}
      BY <1>1 DEF TypeOK
    <3> QED
      BY <1>1, <1>2, <1>3, <2>2, <3>1, <3>2, StillShown DEF Running, At
  <2> QED  BY <2>1, <2>2
<1> QED  BY <1>2, <1>4, <1>5 DEF UiInv

LEMMA ClickStep ==
    ASSUME UiInv, NEW c \in Clicks,
           \/ \E p \in Projects : ClickSelect(c, p)
           \/ \E kind \in {"start", "clear"} : ClickIndex(c, kind)
    PROVE  UiInv'
<1>1. TypeOK /\ TasksFit /\ UndisturbedKeep /\ LastIsShown
  BY DEF UiInv
<1>2. /\ TypeOK' /\ TasksFit'
      /\ task'[c].kind \notin Asking /\ task'[c].pc = "truncate"
      /\ task'[c].answers = << >> /\ ~task'[c].counted
      /\ \A d \in Clicks \ {c} : task'[d] = task[d]
  BY <1>1, ClickTypes
<1>3. /\ UNCHANGED <<selected, stored, up, last, overlapped>>
      /\ disturbed' = disturbed \ {c} /\ task[c].pc = "idle"
  BY DEF ClickSelect, ClickIndex, At, searches, server
<1>4. /\ page'.rows = page.rows /\ page'.stream = page.stream
      /\ page'.searching = page.searching
  <2>1. page' = page \/ \E p \in Projects : page' = [page EXCEPT !.input = p]
    BY DEF ClickSelect, ClickIndex
  <2> QED  BY <1>1, <2>1 DEF TypeOK, Page
<1>5. UndisturbedKeep'
  <2>1. Keeps(task[c])'
    BY <1>2 DEF Keeps
  <2> QED  BY <1>1, <1>2, <1>3, <2>1, OthersKeep
<1>6. LastIsShown'
  <2>1. last \in Clicks \union {NoClick}
    BY <1>1 DEF TypeOK
  <2> QED
    BY <1>1, <1>2, <1>3, <1>4, <2>1, StillShown DEF Running, At, Asking
<1> QED  BY <1>2, <1>5, <1>6 DEF UiInv

(* Store by store, an action that nothing disturbs fills the project.       *)
LEMMA IndexKeeps ==
    ASSUME TypeOK, NEW c \in Clicks, TaskFits(task[c]), Keeps(task[c]),
           \/ Truncate(c) \/ Write(c) \/ SelectFails(c)
           \/ Save(c) \/ PersistLexical(c) \/ PersistVectors(c)
           \/ IndexFails(c) \/ Remove(c) \/ DropVectors(c) \/ Respond(c)
    PROVE  /\ task'[c].pc \notin {"send", "wait"}
           /\ task'[c].project \in Projects =>
                /\ task'[c].pc = "lexical" =>
                        stored'[task'[c].project] = {"entry", "index"}
                /\ task'[c].pc = "vectors" =>
                        stored'[task'[c].project] = {"entry", "index", "lexical"}
           /\ task'[c].counted => stored'[task'[c].project] = Stores
<1> DEFINE p == task[c].project
<1>1. /\ task \in [Clicks -> Task] /\ task[c] \in Task /\ p \in Paths
      /\ stored \in [Paths -> SUBSET Stores]
  BY DEF TypeOK, Task
<1>2. CASE Save(c)
  <2>1. /\ task'[c].pc = "lexical" /\ task'[c].project = p
        /\ task'[c].counted = task[c].counted
    BY <1>1, <1>2 DEF Save, Task
  <2>2. ~task[c].counted
    BY <1>2 DEF Save, At, TaskFits
  <2>3. p \in Projects => stored'[p] = {"entry", "index"}
    BY <1>1, <1>2 DEF Save, StoreInto
  <2> QED  BY <2>1, <2>2, <2>3
<1>3. CASE PersistLexical(c)
  <2>1. /\ task'[c].pc = "vectors" /\ task'[c].project = p
        /\ task'[c].counted = task[c].counted
    BY <1>1, <1>3 DEF PersistLexical, Task
  <2>2. ~task[c].counted
    BY <1>3 DEF PersistLexical, At, TaskFits
  <2>3. p \in Projects => stored[p] = {"entry", "index"}
    BY <1>3 DEF PersistLexical, At, Keeps
  <2>4. stored'[p] = stored[p] \union {"lexical"}
    BY <1>1, <1>3 DEF PersistLexical, StoreInto
  <2>5. p \in Projects => stored'[p] = {"entry", "index", "lexical"}
    BY <2>3, <2>4
  <2> QED  BY <2>1, <2>2, <2>5
<1>4. CASE PersistVectors(c)
  <2>1. /\ task'[c].pc = "respond" /\ task'[c].project = p
    BY <1>1, <1>4 DEF PersistVectors, Task
  <2>2. task'[c].counted => p \in Projects
    BY <1>1, <1>4, Zenon DEF PersistVectors, Task
  <2>3. p \in Projects => stored[p] = {"entry", "index", "lexical"}
    BY <1>4 DEF PersistVectors, At, Keeps
  <2>4. stored'[p] = stored[p] \union {"vectors"}
    BY <1>1, <1>4 DEF PersistVectors, StoreInto
  <2>5. p \in Projects => stored'[p] = Stores
    BY <2>3, <2>4 DEF Stores
  <2> QED  BY <2>1, <2>2, <2>5
<1>5. CASE Truncate(c) \/ Write(c) \/ SelectFails(c) \/ Respond(c) \/ IndexFails(c)
  <2>1. /\ task'[c].pc \in {"write", "save", "remove", "respond", "done"}
        /\ task'[c].project = p /\ task'[c].counted = task[c].counted
        /\ stored' = stored
    BY <1>1, <1>5
    DEF Truncate, Write, SelectFails, Respond, IndexFails, AfterSelection, Task
  <2>2. task[c].counted => stored[p] = Stores
    BY DEF Keeps
  <2> QED  BY <2>1, <2>2
<1>6. CASE Remove(c) \/ DropVectors(c)
  <2>1. /\ task'[c].pc \in {"drop", "respond"}
        /\ task'[c].project = p /\ task'[c].counted = task[c].counted
    BY <1>1, <1>6 DEF Remove, DropVectors, Task
  <2>2. ~task[c].counted
    BY <1>6 DEF Remove, DropVectors, At, TaskFits
  <2> QED  BY <2>1, <2>2
<1> QED  BY <1>2, <1>3, <1>4, <1>5, <1>6

LEMMA IndexStep ==
    ASSUME UiInv, NEW c \in Clicks,
           \/ Truncate(c) \/ Write(c) \/ SelectFails(c)
           \/ Save(c) \/ PersistLexical(c) \/ PersistVectors(c)
           \/ IndexFails(c) \/ Remove(c) \/ DropVectors(c) \/ Respond(c)
    PROVE  UiInv'
<1>1. /\ TypeOK /\ TasksFit /\ UndisturbedKeep /\ LastIsShown
      /\ TaskFits(task[c])
  BY DEF UiInv, TasksFit
<1>2. /\ TypeOK' /\ TasksFit'
      /\ task[c].kind \notin Asking /\ task'[c].kind = task[c].kind
      /\ task'[c].answers = << >>
      /\ \A d \in Clicks \ {c} : task'[d] = task[d]
  BY <1>1, IndexTypes
<1>3. /\ UNCHANGED <<up, last, overlapped>>
      /\ disturbed \subseteq disturbed'
      /\ \A d \in Clicks \ {c} :
            d \notin disturbed' => UNCHANGED <<selected, stored>>
  BY DEF Truncate, Write, SelectFails, Save, PersistLexical, PersistVectors,
         IndexFails, Remove, DropVectors, Respond, StoreInto, Disturb, searches,
         server
<1>4. /\ page'.rows = page.rows /\ page'.stream = page.stream
      /\ page'.searching = page.searching
  BY <1>1
  DEF Truncate, Write, SelectFails, Save, PersistLexical, PersistVectors,
      IndexFails, Remove, DropVectors, Respond, StoreInto, TypeOK, Page
<1>5. UndisturbedKeep'
  <2>1. ASSUME c \notin disturbed' PROVE Keeps(task[c])'
    <3>1. Keeps(task[c])
      BY <1>1, <1>3, <2>1 DEF UndisturbedKeep
    <3> QED  BY <1>1, <1>2, <3>1, IndexKeeps DEF Keeps
  <2> QED  BY <1>1, <1>2, <1>3, <2>1, OthersKeep
<1>6. LastIsShown'
  <2>1. last \in Clicks \union {NoClick}
    BY <1>1 DEF TypeOK
  <2> QED
    BY <1>1, <1>2, <1>3, <1>4, <2>1, StillShown DEF Running, At, Asking
<1> QED  BY <1>2, <1>5, <1>6 DEF UiInv

LEMMA TelemetryStep ==
    ASSUME UiInv, NEW h \in Channels, TelemetrySteps(h)
    PROVE  UiInv'
<1>1. TypeOK /\ TasksFit /\ UndisturbedKeep /\ LastIsShown
  BY DEF UiInv
<1>2. UNCHANGED <<selected, stored, up, cached, task, outside, disturbed, last,
                  overlapped>>
  BY DEF TelemetrySteps, AskTelemetry, UpdateTelemetry, searches, server
<1>3. Failure \in Snapshot /\ Catalog \in SUBSET Paths
  BY DEF Failure, Snapshot, Catalog, Paths
<1>4. TypeOK' /\ /\ page'.rows = page.rows /\ page'.stream = page.stream
                 /\ page'.searching = page.searching
  <2>1. CASE AskTelemetry(h)
    <3> DEFINE s == IF up THEN [selected |-> selected, catalog |-> Catalog]
                    ELSE Failure
    <3>1. s \in Snapshot
      BY <1>1, <1>3 DEF Snapshot, TypeOK
    <3>2. telemetry' = [telemetry EXCEPT ![h] = [pc |-> "sent", snapshot |-> s]]
      BY <2>1 DEF AskTelemetry
    <3> HIDE DEF s
    <3>3. telemetry' \in [Channels -> [pc : {"ready", "sent", "closed"},
                                       snapshot : Snapshot]]
      BY <1>1, <3>1, <3>2 DEF TypeOK
    <3> QED  BY <1>1, <1>2, <2>1, <3>3 DEF TypeOK, AskTelemetry
  <2>2. CASE UpdateTelemetry(h)
    <3>1. telemetry[h].snapshot \in Snapshot /\ page \in Page
      BY <1>1 DEF TypeOK
    <3>2. /\ page' \in Page
          /\ page'.rows = page.rows /\ page'.stream = page.stream
          /\ page'.searching = page.searching
      BY <2>2, <3>1 DEF UpdateTelemetry, Page, Snapshot
    <3>3. telemetry' \in [Channels -> [pc : {"ready", "sent", "closed"},
                                       snapshot : Snapshot]]
      BY <1>1, <1>3, <2>2 DEF TypeOK, UpdateTelemetry
    <3> QED  BY <1>1, <1>2, <3>2, <3>3 DEF TypeOK
  <2> QED  BY <2>1, <2>2 DEF TelemetrySteps
<1>5. TasksFit' /\ UndisturbedKeep' /\ LastIsShown'
  BY <1>1, <1>2, <1>4
  DEF TasksFit, TaskFits, UndisturbedKeep, Keeps, Told, Indexed, LastIsShown,
      Shows, Running, At
<1> QED  BY <1>4, <1>5 DEF UiInv

(* What comes from outside disturbs every request, and no page.             *)
LEMMA OutsideStep ==
    ASSUME UiInv, OutsideSteps
    PROVE  UiInv'
<1>1. TypeOK /\ TasksFit /\ LastIsShown
  BY DEF UiInv
<1>2. /\ UNCHANGED <<task, page, telemetry, last, overlapped>>
      /\ disturbed' = disturbed \union Clicks
  BY DEF OutsideSteps, CliAdd, CliRemove, StopServer, StartServer, Outside,
         Disturb, searches
<1>3. outside' \in 0..MaxOutside
  BY <1>1, UiAssumption
  DEF TypeOK, OutsideSteps, CliAdd, CliRemove, StopServer, StartServer, Outside
<1>4. selected' \in Paths /\ up' \in BOOLEAN /\ cached' \subseteq Repeated
  BY <1>1
  DEF TypeOK, OutsideSteps, CliAdd, CliRemove, StopServer, StartServer,
      Paths, server
<1>5. stored' \in [Paths -> SUBSET Stores]
  <2>1. \A p \in Paths : /\ stored[p] \union {"entry"} \in SUBSET Stores
                         /\ \A S : stored[p] \ S \in SUBSET Stores
    BY <1>1 DEF TypeOK, Stores
  <2> QED
    BY <1>1, <2>1
    DEF TypeOK, OutsideSteps, CliAdd, CliRemove, StopServer, StartServer
<1>6. TypeOK'
  BY <1>1, <1>2, <1>3, <1>4, <1>5 DEF TypeOK
<1>7. TasksFit' /\ UndisturbedKeep' /\ LastIsShown'
  BY <1>1, <1>2
  DEF TasksFit, TaskFits, UndisturbedKeep, LastIsShown, Shows, Running, At
<1> QED  BY <1>6, <1>7 DEF UiInv

LEMMA UiStep == UiInv /\ [Next]_vars => UiInv'
<1> SUFFICES ASSUME UiInv, [Next]_vars PROVE UiInv'
  OBVIOUS
<1>1. ASSUME NEW c \in Clicks, SearchSteps(c) PROVE UiInv'
  BY <1>1, ClickSearchStep, RunTestStep, SendStep, ReceiveStep DEF SearchSteps
<1>2. ASSUME NEW c \in Clicks, IndexSteps(c) PROVE UiInv'
  BY <1>2, ClickStep, IndexStep DEF IndexSteps
<1>3. CASE UNCHANGED vars
  <2>1. TypeOK' /\ TasksFit' /\ LastIsShown'
    BY <1>3
    DEF UiInv, TypeOK, TasksFit, TaskFits, LastIsShown, Shows, Running, At, vars
  <2>2. UndisturbedKeep'
    BY <1>3 DEF UiInv, UndisturbedKeep, Keeps, Told, Indexed, vars
  <2> QED  BY <2>1, <2>2 DEF UiInv
<1> QED  BY <1>1, <1>2, <1>3, TelemetryStep, OutsideStep DEF Next

-----------------------------------------------------------------------------
(* Theorems *)

(* The requests, the page and the snapshots keep their types, and every     *)
(* request has the answers and the stores its step and kind say, whatever   *)
(* the handlers of the admin UI's server and other processes interleave.    *)
THEOREM UiInvariant == Spec => []UiInv
BY UiInit, UiStep, PTL DEF Spec

(* For any number of requests: the parts of a search, a smoke test or an    *)
(* agent test that nothing disturbed are about one project, the selected    *)
(* one, though the selection is read three times for them.                  *)
THEOREM AnswersAgree == Spec => []UndisturbedAnswersAgree
<1>1. UiInv => UndisturbedAnswersAgree
  BY DEF UiInv, UndisturbedKeep, Keeps, Told, UndisturbedAnswersAgree
<1> QED  BY <1>1, UiInvariant, PTL

(* For any number of requests: a search that ran alone has left its own     *)
(* rows and its own stream on the page.                                     *)
THEOREM LastSearchIsShown == Spec => []PageShowsLastSearch
<1>1. UiInv => PageShowsLastSearch
  <2> SUFFICES ASSUME UiInv, last # NoClick, At(last, "done"), ~overlapped
               PROVE  /\ page.searching = "complete"
                      /\ page.rows = [by |-> last, of |-> task[last].answers[1]]
                      /\ page.stream = [by |-> last, of |-> task[last].answers[2]]
    BY DEF PageShowsLastSearch
  <2>1. last \in Clicks /\ Shows(last) /\ TaskFits(task[last])
    BY DEF UiInv, TypeOK, TasksFit, LastIsShown
  <2>2. Len(task[last].answers) = 2
    BY <2>1, CallsOf DEF TaskFits, Shows, At, Asking
  <2> QED  BY <2>1, <2>2 DEF Shows
<1> QED  BY <1>1, UiInvariant, PTL

(* For any number of requests: an index action that answers with counts     *)
(* has left its project in every store, unless another hand was at work.    *)
THEOREM CountsAreStored == Spec => []CountMeansStored
<1>1. UiInv => CountMeansStored
  BY DEF UiInv, UndisturbedKeep, Keeps, CountMeansStored
<1> QED  BY <1>1, UiInvariant, PTL
=============================================================================
