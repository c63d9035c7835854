------------------------- MODULE RuntimePortsProofs -------------------------
(***************************************************************************)
(* Theorems about RuntimePorts, for every set of ports, preferences and    *)
(* processes of the three kinds, and any other programs on the machine.    *)
(***************************************************************************)
EXTENDS RuntimePorts, FiniteSetTheorems, TLAPS

-----------------------------------------------------------------------------
(* The parts of PortsInv about one process, and about the file.             *)

Resolved == {"truncate", "write", "bind", "running"}

Good(p, me, undisturbed) ==
    /\ me.loaded \in FullRecord \union {NoPorts}
    /\ me.pc \in {"check", "truncate", "write", "bind", "running"} =>
            me.ports \in FullRecord
    /\ me.pc \in {"down", "load"} => me.role = "mcp" /\ me.loaded = NoPorts
    /\ me.pc = "check" => Kind[p] # "ui"
    /\ me.pc = "bind" => Kind[p] # "stdio"
    /\ me.pc \in {"prefer", "scan"} =>
        /\ \A r \in Before(me.role) : me.ports[r] \in Ports
        /\ Kind[p] = "ui" => me.role = "ui" /\ me.ports["metrics"] \in Ports
    /\ me.loaded # NoPorts => me.loaded["mcp"] # me.loaded["ui"]
    /\ \/ me.pc = "check"
       \/ me.pc \in {"prefer", "scan"} /\ me.role = "metrics"
       \/ me.pc \in Resolved
       => me.ports["mcp"] # me.ports["ui"]
    /\ me.pc \in {"prefer", "scan"} /\ me.role = "ui" =>
            me.hold # me.ports["mcp"]
    /\ me.hold # NoPort => me.pc \in Probing /\ me.hold \in me.left
    /\ undisturbed /\ me.loaded # NoPorts =>
        /\ me.pc \in Resolved \union {"check", "prefer"}
        /\ me.pc = "check" => /\ me.ports = me.loaded
                              /\ me.left = {me.loaded[me.role]}
        /\ me.pc = "prefer" => /\ Kind[p] = "ui"
                               /\ me.left = {me.loaded["ui"]}
                               /\ \A r \in {"mcp", "metrics"} :
                                        me.ports[r] = me.loaded[r]
        /\ me.pc \in Resolved => me.ports = me.loaded

GoodFile ==
    file.state = "whole" =>
        file.ports \in FullRecord /\ file.ports["mcp"] # file.ports["ui"]

GoodProcs ==
    \A p \in Procs : /\ Good(p, proc[p], calm[p])
                     /\ calm[p] => FreeFor(p, proc[p].loaded, socket)

GoodState == TypeOK /\ GoodFile /\ NoSocketLeaks /\ GoodProcs

LEMMA InvIsGood == PortsInv <=> GoodState
<1>1. ASSUME PortsInv
      PROVE  GoodState
  <2> USE <1>1 DEF PortsInv
  <2>1. TypeOK /\ GoodFile /\ NoSocketLeaks
    BY DEF GoodFile, PortsKnown, ServicesDiffer
  <2> SUFFICES ASSUME NEW p \in Procs
               PROVE  /\ Good(p, proc[p], calm[p])
                      /\ calm[p] => FreeFor(p, proc[p].loaded, socket)
    BY <2>1 DEF GoodState, GoodProcs
  <2>2. calm[p] => FreeFor(p, proc[p].loaded, socket)
    BY DEF CalmGoesStraight, FreeFor
  <2>3. Good(p, proc[p], calm[p])
    BY DEF Good, PortsKnown, ServicesWillDiffer, ServicesDiffer, Resolved,
           CalmGoesStraight, RestartIsStable, At
  <2> QED  BY <2>2, <2>3
<1>2. ASSUME GoodState
      PROVE  PortsInv
  <2> USE <1>2 DEF GoodState, GoodProcs
  <2>1. ServicesDiffer
    BY DEF ServicesDiffer, GoodFile, Good, Resolved
  <2>2. RestartIsStable
    BY DEF RestartIsStable, Good, Resolved, At
  <2>3. PortsKnown
    BY DEF PortsKnown, Good, GoodFile
  <2>4. ServicesWillDiffer
    BY DEF ServicesWillDiffer, Good
  <2>5. CalmGoesStraight
    BY DEF CalmGoesStraight, Good, Resolved
  <2> QED  BY <2>1, <2>2, <2>3, <2>4, <2>5 DEF PortsInv
<1> QED  BY <1>1, <1>2

-----------------------------------------------------------------------------
(* Facts about the values *)

LEMMA Records ==
    /\ NoPorts \in PortRecord /\ NoPorts \notin FullRecord
    /\ FullRecord \subseteq PortRecord
    /\ Down \in Proc
BY PortsAssumption
   DEF NoPorts, PortRecord, FullRecord, Down, Proc, Roles, Phases, Reasons

LEMMA Wanted ==
    ASSUME NEW p \in Procs, NEW r \in Roles,
           NEW loaded \in FullRecord \union {NoPorts}
    PROVE  Want(p, loaded, r) \in Ports
BY PortsAssumption DEF Want, FullRecord

(* A process that starts to look for a port of a role.                      *)
LEMMA PreferIsGood ==
    ASSUME NEW p \in Procs, NEW r \in Roles, NEW ports \in PortRecord,
           NEW loaded \in FullRecord \union {NoPorts}, NEW c \in BOOLEAN,
           \A b \in Before(r) : ports[b] \in Ports,
           Kind[p] = "ui" => r = "ui" /\ ports["metrics"] \in Ports,
           loaded # NoPorts => loaded["mcp"] # loaded["ui"],
           r = "metrics" => ports["mcp"] # ports["ui"],
           c /\ loaded # NoPorts =>
                /\ Kind[p] = "ui"
                /\ \A o \in {"mcp", "metrics"} : ports[o] = loaded[o]
    PROVE  Prefer(p, r, ports, loaded) \in Proc
           /\ Good(p, Prefer(p, r, ports, loaded), c)
<1> DEFINE new == Prefer(p, r, ports, loaded)
<1>1. /\ new.pc = "prefer" /\ new.role = r /\ new.ports = ports
      /\ new.left = {Want(p, loaded, r)} /\ new.loaded = loaded
      /\ new.hold = NoPort
  BY Records DEF Prefer, Proc, Down
<1>2. new \in Proc
  <2>1. Want(p, loaded, r) \in Ports /\ loaded \in PortRecord
    BY Records, Wanted
  <2> QED  BY <2>1, Records DEF Prefer, Proc, Phases
<1>3. r = "ui" => NoPort # ports["mcp"]
  BY PortsAssumption DEF Before
<1>4. c /\ loaded # NoPorts => Want(p, loaded, r) = loaded["ui"]
  BY DEF Want
<1> HIDE DEF new
<1>5. Good(p, new, c)
  BY <1>1, <1>3, <1>4 DEF Good, Resolved, Probing
<1> QED  BY <1>2, <1>5 DEF new

-----------------------------------------------------------------------------
(* What one process does to itself, its sockets and the file.               *)

LEMMA ProcStep ==
    ASSUME PortsInv, NEW p \in Procs, NEW new \in Proc,
           proc' = [proc EXCEPT ![p] = new],
           Good(p, new, calm'[p]),
           file' \in File, GoodFile',
           socket' \in [Ports -> Owners], NoSocketLeaks',
           interrupted' \in BOOLEAN, calm' \in [Procs -> BOOLEAN],
           \A o \in Procs : calm'[o] =>
                /\ o # p => calm[o]
                /\ FreeFor(o, proc'[o].loaded, socket')
    PROVE  PortsInv'
<1>1. TypeOK /\ \A o \in Procs : Good(o, proc[o], calm[o])
  BY InvIsGood DEF GoodState, GoodProcs
<1>2. TypeOK'
  BY <1>1 DEF TypeOK
<1>3. \A o \in Procs : proc'[o] = IF o = p THEN new ELSE proc[o]
  BY <1>1 DEF TypeOK
<1>4. ASSUME NEW o \in Procs PROVE Good(o, proc'[o], calm'[o])
  <2>1. CASE o = p
    BY <1>3, <2>1
  <2>2. CASE o # p
    BY <1>1, <1>3, <2>2 DEF Good
  <2> QED  BY <2>1, <2>2
<1>5. GoodState'
  BY <1>2, <1>4 DEF GoodState, GoodProcs
<1>6. GoodState' => PortsInv'
  BY InvIsGood, PTL
<1> QED  BY <1>5, <1>6

(* A step that loads no ports: the history is kept as Sockets says.         *)
LEMMA SteadyStep ==
    ASSUME PortsInv, NEW p \in Procs, NEW new \in Proc,
           proc' = [proc EXCEPT ![p] = new],
           new.loaded \in {proc[p].loaded, NoPorts},
           Good(p, new, calm'[p]),
           file' \in File, GoodFile',
           socket' \in [Ports -> Owners], NoSocketLeaks',
           interrupted' \in BOOLEAN,
           UNCHANGED <<socket, calm>> \/ Sockets(socket')
    PROVE  PortsInv'
<1>1. TypeOK /\ GoodProcs
  BY InvIsGood DEF GoodState
<1>2. \A o \in Procs : calm'[o] =>
            calm[o] /\ FreeFor(o, proc[o].loaded, socket')
  BY <1>1 DEF GoodProcs, Sockets
<1>3. calm' \in [Procs -> BOOLEAN]
  BY <1>1 DEF TypeOK, Sockets, FreeFor
<1>4. \A o \in Procs : proc'[o] = IF o = p THEN new ELSE proc[o]
  BY <1>1 DEF TypeOK
<1>5. \A o \in Procs : calm'[o] =>
            /\ o # p => calm[o]
            /\ FreeFor(o, proc'[o].loaded, socket')
  BY <1>2, <1>4 DEF FreeFor
<1> QED  BY <1>3, <1>5, ProcStep

(* The state of a process, ready to be changed.                             *)
LEMMA Mine ==
    ASSUME PortsInv, NEW p \in Procs
    PROVE  /\ proc[p] \in Proc /\ Good(p, proc[p], calm[p])
           /\ calm[p] \in BOOLEAN
           /\ calm[p] => FreeFor(p, proc[p].loaded, socket)
           /\ file \in File /\ GoodFile /\ NoSocketLeaks
           /\ socket \in [Ports -> Owners] /\ interrupted \in BOOLEAN
BY InvIsGood DEF GoodState, GoodProcs, TypeOK

(* A process that neither takes nor drops a socket, nor starts or stops to  *)
(* serve, leaves the ownership of the sockets as it was.                    *)
LEMMA SameSockets ==
    ASSUME PortsInv, NEW p \in Procs, NEW new \in Proc,
           proc' = [proc EXCEPT ![p] = new], UNCHANGED socket,
           new.hold = proc[p].hold,
           ~At(p, "running"),
           new.pc = "running" => Kind[p] = "stdio"
    PROVE  NoSocketLeaks'
<1>1. NoSocketLeaks /\ proc \in [Procs -> Proc]
  BY DEF PortsInv, TypeOK
<1>2. \A o \in Procs : proc'[o] = IF o = p THEN new ELSE proc[o]
  BY <1>1
<1> QED  BY <1>1, <1>2 DEF NoSocketLeaks, At, OwnPort

-----------------------------------------------------------------------------
(* The steps of a process *)

LEMMA StartKeeps ==
    ASSUME PortsInv, NEW p \in Procs, Start(p)
    PROVE  PortsInv'
<1> DEFINE new == [proc[p] EXCEPT !.pc = "load"]
<1>1. /\ new \in Proc /\ new.pc = "load" /\ new.hold = proc[p].hold
      /\ new.loaded = proc[p].loaded /\ proc[p].pc = "down"
      /\ new.role = proc[p].role
  BY Mine DEF Start, At, Proc, Phases
<1>2. proc' = [proc EXCEPT ![p] = new]
      /\ UNCHANGED <<file, socket, interrupted, calm>>
  BY DEF Start
<1> HIDE DEF new
<1>3. Good(p, new, calm'[p])
  BY <1>1, <1>2, Mine DEF Good, Resolved, Probing
<1>4. NoSocketLeaks'
  BY <1>1, <1>2, SameSockets DEF At
<1> QED  BY <1>1, <1>2, <1>3, <1>4, Mine, SteadyStep DEF GoodFile

LEMMA ProbeFreeKeeps ==
    ASSUME PortsInv, NEW p \in Procs, ProbeFree(p)
    PROVE  PortsInv'
<1>1. PICK q \in Candidate(p) :
        /\ socket[q] = Nobody
        /\ proc' = [proc EXCEPT ![p].hold = q]
        /\ Sockets([socket EXCEPT ![q] = p])
  BY DEF ProbeFree
<1> DEFINE new == [proc[p] EXCEPT !.hold = q]
<1>2. /\ proc[p].pc \in Probing /\ proc[p].hold = NoPort
      /\ UNCHANGED <<file, interrupted>>
  BY DEF ProbeFree
<1>3. q \in proc[p].left /\ q \in Ports /\ q \notin Reserved(p)
  BY Mine DEF Candidate, Proc
<1>4. proc[p].pc \in {"prefer", "scan"} /\ proc[p].role = "ui" =>
            q # proc[p].ports["mcp"]
  BY <1>3 DEF Reserved, At, Before
<1>5. /\ new \in Proc /\ new.hold = q /\ new.pc = proc[p].pc
      /\ new.role = proc[p].role /\ new.left = proc[p].left
      /\ new.ports = proc[p].ports /\ new.loaded = proc[p].loaded
  BY <1>3, Mine DEF Proc
<1>6. proc' = [proc EXCEPT ![p] = new]
      /\ socket' = [socket EXCEPT ![q] = p] /\ Sockets(socket')
  BY <1>1 DEF Sockets
<1> HIDE DEF new
<1>7. calm'[p] => calm[p]
  BY <1>6 DEF Sockets
<1>8. Good(p, new, calm'[p])
  BY <1>2, <1>3, <1>4, <1>5, <1>7, Mine DEF Good
<1>9. NoSocketLeaks'
  <2>1. \A o \in Procs : proc'[o] = IF o = p THEN new ELSE proc[o]
    BY <1>6 DEF PortsInv, TypeOK
  <2>2. \A t \in Ports : socket'[t] = IF t = q THEN p ELSE socket[t]
    BY <1>6, Mine
  <2>3. NoSocketLeaks /\ Nobody \notin Procs /\ NoPort \notin Ports
    BY Mine, PortsAssumption
  <2>4. proc[p].pc # "running"
    BY <1>2 DEF Probing
  <2> QED
    BY <1>1, <1>2, <1>3, <1>5, <2>1, <2>2, <2>3, <2>4
       DEF NoSocketLeaks, At, OwnPort
<1>10. socket' \in [Ports -> Owners]
  BY <1>6, Mine DEF Owners
<1> QED
  BY <1>2, <1>5, <1>6, <1>8, <1>9, <1>10, Mine, SteadyStep DEF GoodFile

(* Whatever a process goes on to after a free port, it has dropped it.      *)
LEMMA AcceptedIsGood ==
    ASSUME PortsInv, NEW p \in Procs, NEW c \in BOOLEAN, c => calm[p],
           proc[p].hold # NoPort
    PROVE  LET new == Accepted(p, proc[p].hold)
           IN  /\ new \in Proc /\ Good(p, new, c) /\ new.hold = NoPort
               /\ new.pc = "running" => Kind[p] = "stdio"
               /\ new.loaded = proc[p].loaded
<1> DEFINE me == proc[p]
           new == Accepted(p, me.hold)
           next == IF me.role = "mcp" THEN "ui" ELSE "metrics"
           ports == [me.ports EXCEPT ![me.role] = me.hold]
<1>1. /\ me \in Proc /\ Good(p, me, calm[p]) /\ me.pc \in Probing
      /\ me.hold \in Ports /\ me.hold \in me.left
  BY Mine DEF Good, Proc
<1>2. me.role \in Roles /\ next \in Roles /\ me.ports \in PortRecord
  BY <1>1 DEF Proc, Roles
<1>3. CASE me.pc = "check" /\ me.role = "metrics"
  <2>1. new = [me EXCEPT !.pc = Decided(p), !.hold = NoPort]
    BY <1>3 DEF Accepted
  <2>2. /\ new \in Proc /\ new.pc = Decided(p) /\ new.hold = NoPort
        /\ new.ports = me.ports /\ new.loaded = me.loaded
    BY <1>1, <2>1 DEF Proc, Phases, Decided
  <2>3. /\ Decided(p) \in {"running", "bind"}
        /\ Decided(p) = "running" <=> Kind[p] = "stdio"
    BY DEF Decided
  <2>4. /\ me.loaded \in FullRecord \union {NoPorts}
        /\ me.ports \in FullRecord /\ me.ports["mcp"] # me.ports["ui"]
        /\ me.loaded # NoPorts => me.loaded["mcp"] # me.loaded["ui"]
        /\ c /\ me.loaded # NoPorts => me.ports = me.loaded
    BY <1>1, <1>3 DEF Good
  <2> HIDE DEF new, me
  <2>5. Good(p, new, c)
    BY <2>2, <2>3, <2>4 DEF Good, Resolved
  <2> QED  BY <2>2, <2>3, <2>5 DEF new, me
<1>4. CASE me.pc = "check" /\ me.role # "metrics"
  <2>1. new = [me EXCEPT !.role = next, !.left = {me.ports[next]},
                         !.hold = NoPort]
    BY <1>4 DEF Accepted
  <2>2. me.ports[next] \in Ports
    BY <1>1, <1>2, <1>4 DEF Good, FullRecord
  <2> HIDE DEF next
  <2>3. /\ new \in Proc /\ new.pc = "check" /\ new.hold = NoPort
        /\ new.ports = me.ports /\ new.loaded = me.loaded
        /\ new.role = next /\ new.left = {me.ports[next]}
    <3>1. {me.ports[next]} \in SUBSET Ports
      BY <2>2
    <3> HIDE DEF me
    <3> QED  BY <1>1, <1>2, <1>4, <2>1, <3>1 DEF Proc
  <2> HIDE DEF new, me
  <2>4. Good(p, new, c)
    BY <1>1, <1>4, <2>3 DEF Good, Resolved
  <2> QED  BY <2>3, <2>4 DEF new, me
<1>5. CASE me.pc # "check" /\ (me.role = "metrics" \/ Kind[p] = "ui")
  <2>1. new = [me EXCEPT !.pc = "truncate", !.ports = ports, !.hold = NoPort]
    BY <1>5 DEF Accepted
  <2>2. me.pc \in {"prefer", "scan"} /\ (Kind[p] = "ui" => me.role = "ui")
    BY <1>1, <1>5 DEF Good, Probing
  <2>3. \A r \in Roles : ports[r] = IF r = me.role THEN me.hold ELSE me.ports[r]
    BY <1>2 DEF PortRecord
  <2>4. \A r \in Roles : ports[r] \in Ports
    BY <1>1, <1>2, <1>5, <2>2, <2>3 DEF Good, Roles, Before
  <2>5. ports \in FullRecord
    BY <1>2, <2>4 DEF FullRecord, PortRecord
  <2>6. ports["mcp"] # ports["ui"]
    BY <1>1, <1>5, <2>2, <2>3 DEF Good, Roles
  <2>7. /\ new \in Proc /\ new.pc = "truncate" /\ new.hold = NoPort
        /\ new.ports = ports /\ new.loaded = me.loaded
    BY <1>1, <2>1, <2>5, Records DEF Proc, Phases
  <2>8. ASSUME c, me.loaded # NoPorts PROVE ports = me.loaded
    <3>1. me.loaded \in FullRecord
      BY <1>1, <2>8 DEF Good
    <3>2. /\ Kind[p] = "ui" /\ me.left = {me.loaded["ui"]}
          /\ \A r \in {"mcp", "metrics"} : me.ports[r] = me.loaded[r]
      BY <1>1, <2>2, <2>8 DEF Good, Resolved
    <3>3. \A r \in Roles : ports[r] = me.loaded[r]
      BY <1>1, <2>2, <2>3, <3>2 DEF Roles
    <3> QED  BY <2>5, <3>1, <3>3 DEF FullRecord
  <2> HIDE DEF new, me, ports
  <2>9. Good(p, new, c)
    BY <1>1, <2>5, <2>6, <2>7, <2>8 DEF Good, Resolved
  <2> QED  BY <2>7, <2>9 DEF new, me
<1>6. CASE me.pc # "check" /\ ~(me.role = "metrics" \/ Kind[p] = "ui")
  <2>1. new = Prefer(p, next, ports, me.loaded)
    BY <1>6 DEF Accepted
  <2>2. /\ me.pc \in {"prefer", "scan"}
        /\ me.loaded \in FullRecord \union {NoPorts}
        /\ me.loaded # NoPorts => me.loaded["mcp"] # me.loaded["ui"]
        /\ ~(c /\ me.loaded # NoPorts)
    BY <1>1, <1>6 DEF Good, Probing, Resolved
  <2>3. ports \in PortRecord
    BY <1>1, <1>2 DEF PortRecord
  <2>4. \A r \in Roles : ports[r] = IF r = me.role THEN me.hold ELSE me.ports[r]
    BY <1>2 DEF PortRecord
  <2>5. \A b \in Before(next) : ports[b] \in Ports
    BY <1>1, <1>2, <1>6, <2>2, <2>4 DEF Good, Before, Roles
  <2>6. next = "metrics" => ports["mcp"] # ports["ui"]
    BY <1>1, <1>2, <1>6, <2>2, <2>4 DEF Good, Roles
  <2> HIDE DEF ports, next
  <2>7. new \in Proc /\ Good(p, new, c)
    BY <1>2, <1>6, <2>1, <2>2, <2>3, <2>5, <2>6, PreferIsGood
  <2>8. new.hold = NoPort /\ new.pc = "prefer" /\ new.loaded = me.loaded
    BY <2>1, Records DEF Prefer, Down, Proc
  <2> QED  BY <2>7, <2>8
<1> QED  BY <1>3, <1>4, <1>5, <1>6

LEMMA DropProbeKeeps ==
    ASSUME PortsInv, NEW p \in Procs, DropProbe(p)
    PROVE  PortsInv'
<1> DEFINE h == proc[p].hold
           new == Accepted(p, h)
<1>1. /\ h # NoPort /\ h \in Ports /\ proc[p].pc \in Probing
  BY Mine DEF DropProbe, Good, Proc
<1>2. /\ proc' = [proc EXCEPT ![p] = new]
      /\ socket' = [socket EXCEPT ![h] = Nobody] /\ Sockets(socket')
      /\ UNCHANGED <<file, interrupted>>
  BY DEF DropProbe, Sockets
<1>3. (calm'[p] => calm[p]) /\ calm'[p] \in BOOLEAN
  BY <1>2 DEF Sockets, FreeFor
<1>4. /\ new \in Proc /\ Good(p, new, calm'[p]) /\ new.hold = NoPort
      /\ new.pc = "running" => Kind[p] = "stdio"
      /\ new.loaded = proc[p].loaded
  BY <1>1, <1>3, AcceptedIsGood
<1> HIDE DEF new
<1>5. NoSocketLeaks'
  <2>1. \A o \in Procs : proc'[o] = IF o = p THEN new ELSE proc[o]
    BY <1>2 DEF PortsInv, TypeOK
  <2>2. \A t \in Ports : socket'[t] = IF t = h THEN Nobody ELSE socket[t]
    BY <1>2, Mine
  <2>3. NoSocketLeaks /\ Nobody \notin Procs /\ NoPort \notin Ports
    BY Mine, PortsAssumption
  <2>4. proc[p].pc # "running"
    BY <1>1 DEF Probing
  <2> QED
    BY <1>1, <1>4, <2>1, <2>2, <2>3, <2>4 DEF NoSocketLeaks, At, OwnPort
<1>6. socket' \in [Ports -> Owners]
  BY <1>2, Mine DEF Owners
<1> QED
  BY <1>2, <1>4, <1>5, <1>6, Mine, SteadyStep DEF GoodFile

(* A process that is not disturbed finds every port free that it tries.     *)
LEMMA CalmFindsFree ==
    ASSUME PortsInv, NEW p \in Procs, calm[p], proc[p].loaded # NoPorts,
           proc[p].pc \in Probing, proc[p].hold = NoPort
    PROVE  /\ proc[p].pc \in {"check", "prefer"}
           /\ Candidate(p) # {}
           /\ \A q \in Candidate(p) : socket[q] = Nobody
<1>1. /\ proc[p] \in Proc /\ Good(p, proc[p], TRUE)
      /\ FreeFor(p, proc[p].loaded, socket) /\ NoSocketLeaks
      /\ proc[p].loaded \in FullRecord
  BY Mine DEF Good
<1>2. proc[p].pc \in {"check", "prefer"}
  BY <1>1 DEF Good, Resolved, Probing
<1>3. PICK r \in Needs(p) : /\ proc[p].left = {proc[p].loaded[r]}
                            /\ proc[p].loaded[r] \notin Reserved(p)
  <2>1. CASE proc[p].pc = "check"
    BY <1>1, <2>1 DEF Good, Proc, Needs, Reserved, At
  <2>2. CASE proc[p].pc = "prefer"
    <3>1. /\ Kind[p] = "ui" /\ proc[p].role = "ui"
          /\ proc[p].left = {proc[p].loaded["ui"]}
          /\ proc[p].ports["mcp"] = proc[p].loaded["mcp"]
          /\ proc[p].loaded["mcp"] # proc[p].loaded["ui"]
      BY <1>1, <2>2 DEF Good
    <3>2. Reserved(p) = {proc[p].loaded["mcp"]}
      BY <2>2, <3>1 DEF Reserved, At, Before
    <3> QED  BY <3>1, <3>2 DEF Needs
  <2> QED  BY <1>2, <2>1, <2>2
<1>4. proc[p].loaded[r] \in Ports
  BY <1>1 DEF FullRecord, Needs, Roles
<1>5. Candidate(p) = {proc[p].loaded[r]}
  <2> DEFINE q == proc[p].loaded[r]
  <2>1. q \in Nat
    BY <1>4, PortsAssumption
  <2> HIDE DEF q
  <2>2. q <= q
    BY <2>1
  <2> USE DEF q
  <2> QED  BY <1>3, <2>2 DEF Candidate
<1>6. socket[proc[p].loaded[r]] \in {Nobody, p}
  BY <1>1 DEF FreeFor
<1>7. socket[proc[p].loaded[r]] # p
  <2>1. proc[p].hold # proc[p].loaded[r] /\ ~At(p, "running")
    BY <1>2, <1>4, PortsAssumption DEF At
  <2> QED  BY <1>1, <1>4, <2>1 DEF NoSocketLeaks
<1> QED  BY <1>2, <1>5, <1>6, <1>7

LEMMA ProbeTakenKeeps ==
    ASSUME PortsInv, NEW p \in Procs, ProbeTaken(p)
    PROVE  PortsInv'
<1>1. PICK q \in Candidate(p) :
        socket[q] # Nobody /\ proc' = [proc EXCEPT ![p] = Rejected(p, q)]
  BY DEF ProbeTaken
<1> DEFINE me == proc[p]
           new == Rejected(p, q)
<1>2. /\ me.pc \in Probing /\ me.hold = NoPort
      /\ UNCHANGED <<file, socket, interrupted, calm>>
  BY DEF ProbeTaken
<1>3. /\ me \in Proc /\ Good(p, me, calm[p]) /\ calm[p] \in BOOLEAN
      /\ me.role \in Roles /\ ~(calm[p] /\ me.loaded # NoPorts)
  BY <1>1, <1>2, Mine, CalmFindsFree DEF Proc
<1>4. /\ new \in Proc /\ Good(p, new, calm[p])
      /\ new.hold = NoPort /\ new.loaded = me.loaded /\ new.pc # "running"
  <2>1. CASE me.pc = "check"
    <3>1. new = Prefer(p, "mcp", NoPorts, me.loaded)
      BY <2>1 DEF Rejected
    <3>2. me.loaded \in FullRecord \union {NoPorts}
          /\ (me.loaded # NoPorts => me.loaded["mcp"] # me.loaded["ui"])
      BY <1>3 DEF Good
    <3>3. Kind[p] # "ui"
      BY <2>1, <1>3 DEF Good
    <3>4. new \in Proc /\ Good(p, new, calm[p])
      BY <1>3, <3>1, <3>2, <3>3, Records, PreferIsGood DEF Roles, Before
    <3>5. new.hold = NoPort /\ new.pc = "prefer" /\ new.loaded = me.loaded
      BY <3>1, Records DEF Prefer, Down, Proc
    <3> QED  BY <3>4, <3>5
  <2>2. CASE me.pc = "prefer"
    <3>1. new = [me EXCEPT !.pc = "scan", !.left = PortRange[me.role]]
      BY <2>2 DEF Rejected
    <3>2. PortRange[me.role] \in SUBSET Ports
      BY <1>3, PortsAssumption
    <3>3. /\ new \in Proc /\ new.pc = "scan" /\ new.hold = me.hold
          /\ new.role = me.role /\ new.ports = me.ports
          /\ new.loaded = me.loaded
      BY <1>3, <3>1, <3>2 DEF Proc, Phases
    <3> HIDE DEF new, me
    <3>4. Good(p, new, calm[p])
      BY <1>2, <1>3, <2>2, <3>3 DEF Good, Resolved
    <3> QED  BY <1>2, <3>3, <3>4
  <2>3. CASE me.pc = "scan"
    <3>1. new = [me EXCEPT !.left = {o \in me.left : o > q}]
      BY <2>3 DEF Rejected
    <3>2. {o \in me.left : o > q} \in SUBSET Ports
      BY <1>3 DEF Proc
    <3> HIDE DEF me
    <3>3. /\ new \in Proc /\ new.pc = "scan" /\ new.hold = me.hold
          /\ new.role = me.role /\ new.ports = me.ports
          /\ new.loaded = me.loaded
      BY <1>3, <2>3, <3>1, <3>2 DEF Proc
    <3> HIDE DEF new
    <3>4. Good(p, new, calm[p])
      BY <1>2, <1>3, <2>3, <3>3 DEF Good, Resolved
    <3> QED  BY <1>2, <3>3, <3>4
  <2> QED  BY <1>2, <2>1, <2>2, <2>3 DEF Probing
<1>5. proc' = [proc EXCEPT ![p] = new] /\ me.pc # "running"
  BY <1>1, <1>2 DEF Probing
<1> HIDE DEF new
<1>6. NoSocketLeaks'
  BY <1>2, <1>4, <1>5, SameSockets DEF At
<1> QED  BY <1>2, <1>4, <1>5, <1>6, Mine, SteadyStep DEF GoodFile

LEMMA NoneLeftKeeps ==
    ASSUME PortsInv, NEW p \in Procs, NoneLeft(p)
    PROVE  PortsInv'
<1> DEFINE me == proc[p]
           new == IF At(p, "prefer")
                  THEN [me EXCEPT !.pc = "scan", !.left = PortRange[me.role]]
                  ELSE [me EXCEPT !.pc = "failed", !.why = "exhausted"]
<1>1. /\ me.pc \in {"prefer", "scan"} /\ me.hold = NoPort
      /\ Candidate(p) = {}
      /\ proc' = [proc EXCEPT ![p] = new]
      /\ UNCHANGED <<file, socket, interrupted, calm>>
  BY DEF NoneLeft
<1>2. /\ me \in Proc /\ Good(p, me, calm[p]) /\ calm[p] \in BOOLEAN
      /\ me.role \in Roles /\ ~(calm[p] /\ me.loaded # NoPorts)
  BY <1>1, Mine, CalmFindsFree DEF Proc, Probing
<1>3. PortRange[me.role] \in SUBSET Ports
  BY <1>2, PortsAssumption
<1>4. /\ new \in Proc /\ new.hold = NoPort /\ new.loaded = me.loaded
      /\ \/ new.pc = "failed"
         \/ new.pc = "scan" /\ new.role = me.role /\ new.ports = me.ports
  <2>1. CASE me.pc = "prefer"
    BY <1>1, <1>2, <1>3, <2>1 DEF Proc, Phases, At
  <2>2. CASE me.pc = "scan"
    BY <1>1, <1>2, <2>2 DEF Proc, Phases, Reasons, At
  <2> QED  BY <1>1, <2>1, <2>2
<1> HIDE DEF new
<1>5. Good(p, new, calm'[p])
  <2> HIDE DEF me
  <2> QED  BY <1>1, <1>2, <1>4 DEF Good, Resolved
<1>6. NoSocketLeaks'
  BY <1>1, <1>4, SameSockets DEF At
<1> QED  BY <1>1, <1>4, <1>5, <1>6, Mine, SteadyStep DEF GoodFile

LEMMA TruncateKeeps ==
    ASSUME PortsInv, NEW p \in Procs, TruncateFile(p)
    PROVE  PortsInv'
<1> DEFINE new == [proc[p] EXCEPT !.pc = "write"]
<1>1. /\ new \in Proc /\ new.pc = "write" /\ new.hold = proc[p].hold
      /\ new.loaded = proc[p].loaded /\ proc[p].pc = "truncate"
      /\ new.ports = proc[p].ports
  BY Mine DEF TruncateFile, At, Proc, Phases
<1>2. /\ proc' = [proc EXCEPT ![p] = new]
      /\ UNCHANGED <<socket, interrupted, calm>>
      /\ file' = [state |-> "empty", ports |-> NoPorts]
  BY DEF TruncateFile
<1> HIDE DEF new
<1>3. Good(p, new, calm'[p])
  BY <1>1, <1>2, Mine DEF Good, Resolved, Probing
<1>4. NoSocketLeaks'
  BY <1>1, <1>2, SameSockets DEF At
<1>5. file' \in File /\ GoodFile'
  BY <1>2, Records DEF File, GoodFile
<1> QED  BY <1>1, <1>2, <1>3, <1>4, <1>5, Mine, SteadyStep

(* What a process saves is known and names two ports for the two services.  *)
LEMMA WriteKeeps ==
    ASSUME PortsInv, NEW p \in Procs, WriteFile(p)
    PROVE  PortsInv'
<1> DEFINE new == [proc[p] EXCEPT !.pc = Decided(p)]
<1>1. /\ Decided(p) \in {"running", "bind"}
      /\ Decided(p) = "running" <=> Kind[p] = "stdio"
  BY DEF Decided
<1>2. /\ new \in Proc /\ new.pc = Decided(p) /\ new.hold = proc[p].hold
      /\ new.loaded = proc[p].loaded /\ proc[p].pc = "write"
      /\ new.ports = proc[p].ports
  BY <1>1, Mine DEF WriteFile, At, Proc, Phases
<1>3. /\ proc' = [proc EXCEPT ![p] = new]
      /\ UNCHANGED <<socket, interrupted, calm>>
      /\ \/ file' = [file EXCEPT !.state = "torn"]
         \/ file' = [state |-> "whole", ports |-> proc[p].ports]
  BY DEF WriteFile
<1> HIDE DEF new
<1>4. Good(p, new, calm'[p])
  BY <1>1, <1>2, <1>3, Mine DEF Good, Resolved, Probing
<1>5. NoSocketLeaks'
  BY <1>1, <1>2, <1>3, SameSockets DEF At
<1>6. proc[p].ports \in FullRecord /\ proc[p].ports["mcp"] # proc[p].ports["ui"]
  BY <1>2, Mine DEF Good, Resolved
<1>7. file' \in File /\ GoodFile'
  BY <1>3, <1>6, Records, Mine DEF File, GoodFile
<1> QED  BY <1>2, <1>3, <1>4, <1>5, <1>7, Mine, SteadyStep

LEMMA BindKeeps ==
    ASSUME PortsInv, NEW p \in Procs, Bind(p)
    PROVE  PortsInv'
<1> DEFINE own == OwnPort(p)
<1>1. /\ proc[p].pc = "bind" /\ UNCHANGED <<file, interrupted>>
      /\ proc[p] \in Proc /\ proc[p].ports \in FullRecord
      /\ Good(p, proc[p], calm[p]) /\ proc[p].hold = NoPort
  BY Mine DEF Bind, At, Good, Probing
<1>2. own \in Ports
  BY <1>1 DEF OwnPort, FullRecord, Roles
<1>3. CASE socket[own] = Nobody
  <2> DEFINE new == [proc[p] EXCEPT !.pc = "running"]
  <2>1. /\ proc' = [proc EXCEPT ![p] = new]
        /\ socket' = [socket EXCEPT ![own] = p] /\ Sockets(socket')
    BY <1>3 DEF Bind, Sockets
  <2>2. /\ new \in Proc /\ new.pc = "running" /\ new.hold = NoPort
        /\ new.loaded = proc[p].loaded /\ new.ports = proc[p].ports
    BY <1>1 DEF Proc, Phases
  <2> HIDE DEF new
  <2>3. calm'[p] => calm[p]
    BY <2>1 DEF Sockets
  <2>4. Good(p, new, calm'[p])
    BY <1>1, <2>2, <2>3 DEF Good, Resolved
  <2>5. NoSocketLeaks'
    <3>1. \A o \in Procs : proc'[o] = IF o = p THEN new ELSE proc[o]
      BY <2>1 DEF PortsInv, TypeOK
    <3>2. \A t \in Ports : socket'[t] = IF t = own THEN p ELSE socket[t]
      BY <2>1, Mine
    <3>3. NoSocketLeaks /\ Nobody \notin Procs /\ NoPort \notin Ports
      BY Mine, PortsAssumption
    <3>4. ASSUME NEW o \in Procs, NEW t \in Ports
          PROVE  socket'[t] = o <=>
                    \/ proc'[o].hold = t
                    \/ proc'[o].pc = "running" /\ Kind[o] # "stdio"
                       /\ t = OwnPort(o)'
      <4>1. CASE o = p
        <5>1. OwnPort(p)' = own
          BY <2>2, <3>1, <4>1 DEF OwnPort
        <5>2. Kind[p] # "stdio"
          BY <1>1 DEF Good
        <5>3. socket[t] # p
          BY <1>1, <3>3 DEF NoSocketLeaks, At
        <5> QED  BY <2>2, <3>1, <3>2, <3>3, <4>1, <5>1, <5>2, <5>3
      <4>2. CASE o # p
        <5>1. OwnPort(o)' = OwnPort(o)
          BY <3>1, <4>2 DEF OwnPort
        <5> QED
          BY <1>3, <3>1, <3>2, <3>3, <4>2, <5>1 DEF NoSocketLeaks, At
      <4> QED  BY <4>1, <4>2
    <3> QED  BY <3>4 DEF NoSocketLeaks, At
  <2>6. socket' \in [Ports -> Owners]
    BY <2>1, Mine DEF Owners
  <2> QED  BY <1>1, <2>1, <2>2, <2>4, <2>5, <2>6, Mine, SteadyStep DEF GoodFile
<1>4. CASE socket[own] # Nobody
  <2> DEFINE new == [proc[p] EXCEPT !.pc = "failed", !.why = "taken"]
  <2>1. /\ proc' = [proc EXCEPT ![p] = new]
        /\ UNCHANGED <<socket, calm>>
    BY <1>4 DEF Bind
  <2>2. /\ new \in Proc /\ new.pc = "failed" /\ new.hold = NoPort
        /\ new.loaded = proc[p].loaded
    BY <1>1 DEF Proc, Phases, Reasons
  <2> HIDE DEF new
  <2>3. ~(calm[p] /\ proc[p].loaded # NoPorts)
    <3> SUFFICES ASSUME calm[p], proc[p].loaded # NoPorts PROVE FALSE
      OBVIOUS
    <3>1. proc[p].ports = proc[p].loaded /\ FreeFor(p, proc[p].loaded, socket)
      BY <1>1, Mine DEF Good, Resolved
    <3>2. socket[own] \in {Nobody, p}
      BY <3>1 DEF FreeFor, Needs, OwnPort, Roles
    <3>3. socket[own] # p
      <4>1. proc[p].hold # own
        BY <1>1, <1>2, PortsAssumption
      <4> QED  BY <1>1, <1>2, <4>1, Mine DEF NoSocketLeaks, At
    <3> QED  BY <1>4, <3>2, <3>3
  <2>4. Good(p, new, calm'[p])
    BY <1>1, <2>1, <2>2, <2>3 DEF Good, Resolved
  <2>5. NoSocketLeaks'
    BY <1>1, <2>1, <2>2, SameSockets DEF At
  <2> QED  BY <1>1, <2>1, <2>2, <2>4, <2>5, Mine, SteadyStep DEF GoodFile
<1> QED  BY <1>3, <1>4

LEMMA ExitKeeps ==
    ASSUME PortsInv, NEW p \in Procs, Exit(p)
    PROVE  PortsInv'
<1>1. /\ proc' = [proc EXCEPT ![p] = Down]
      /\ socket' = [q \in Ports |-> IF socket[q] = p THEN Nobody ELSE socket[q]]
      /\ Sockets(socket') /\ UNCHANGED file /\ interrupted' \in BOOLEAN
  BY Mine DEF Exit, Sockets
<1>2. /\ Down.pc = "down" /\ Down.hold = NoPort /\ Down.loaded = NoPorts
      /\ Down.role = "mcp"
  BY DEF Down
<1>3. Good(p, Down, calm'[p])
  BY <1>2 DEF Good, Resolved
<1>4. NoSocketLeaks'
  <2>1. \A o \in Procs : proc'[o] = IF o = p THEN Down ELSE proc[o]
    BY <1>1 DEF PortsInv, TypeOK
  <2>2. NoSocketLeaks /\ Nobody \notin Procs /\ NoPort \notin Ports
    BY Mine, PortsAssumption
  <2> QED  BY <1>1, <1>2, <2>1, <2>2 DEF NoSocketLeaks, At, OwnPort
<1>5. socket' \in [Ports -> Owners]
  BY <1>1, Mine DEF Owners
<1> QED
  BY <1>1, <1>2, <1>3, <1>4, <1>5, Records, Mine, SteadyStep DEF GoodFile

LEMMA LoadKeeps ==
    ASSUME PortsInv, NEW p \in Procs, Load(p)
    PROVE  PortsInv'
<1> DEFINE loaded == IF file.state = "whole" THEN file.ports ELSE NoPorts
           given == [r \in Roles |-> IF r = "ui" THEN NoPort
                                     ELSE Want(p, loaded, r)]
           me == proc[p]
           new == proc'[p]
<1>1. /\ me.pc = "load" /\ me \in Proc /\ me.hold = NoPort
      /\ UNCHANGED <<file, socket, interrupted>>
      /\ calm' = [calm EXCEPT ![p] = FreeFor(p, loaded, socket)]
  BY Mine DEF Load, At, Good, Probing
<1>2. FreeFor(p, loaded, socket) \in BOOLEAN
  BY DEF FreeFor
<1>3. /\ calm' \in [Procs -> BOOLEAN] /\ calm'[p] = FreeFor(p, loaded, socket)
      /\ \A o \in Procs : o # p => calm'[o] = calm[o]
  BY <1>1, <1>2 DEF PortsInv, TypeOK
<1>4. /\ loaded \in FullRecord \union {NoPorts}
      /\ loaded # NoPorts => loaded["mcp"] # loaded["ui"]
      /\ file.state = "whole" => loaded \in FullRecord
  BY Mine DEF GoodFile
<1>5. /\ proc' = [proc EXCEPT ![p] = new] /\ new \in Proc
      /\ Good(p, new, calm'[p]) /\ new.hold = NoPort
      /\ new.loaded = loaded /\ new.pc # "running"
  <2>1. CASE Kind[p] = "ui"
    <3>1. new = Prefer(p, "ui", given, loaded)
          /\ proc' = [proc EXCEPT ![p] = Prefer(p, "ui", given, loaded)]
      BY <2>1 DEF Load, PortsInv, TypeOK
    <3>2. \A r \in {"mcp", "metrics"} : /\ given[r] \in Ports
                                        /\ loaded # NoPorts =>
                                                given[r] = loaded[r]
      BY <1>4, <2>1, Wanted DEF Want, Roles
    <3>3. given \in PortRecord
      BY <3>2 DEF PortRecord, Roles
    <3> HIDE DEF given, loaded
    <3>4. Prefer(p, "ui", given, loaded) \in Proc
          /\ Good(p, Prefer(p, "ui", given, loaded), calm'[p])
      BY <1>3, <1>4, <2>1, <3>2, <3>3, PreferIsGood DEF Roles, Before
    <3>5. LET n == Prefer(p, "ui", given, loaded)
          IN  n.hold = NoPort /\ n.pc = "prefer" /\ n.loaded = loaded
      BY Records DEF Prefer, Down, Proc
    <3> HIDE DEF new
    <3> QED  BY <3>1, <3>4, <3>5
  <2>2. CASE Kind[p] # "ui" /\ file.state = "missing"
    <3>1. new = Prefer(p, "mcp", NoPorts, NoPorts) /\ loaded = NoPorts
          /\ proc' = [proc EXCEPT ![p] = Prefer(p, "mcp", NoPorts, NoPorts)]
      BY <2>2 DEF Load, PortsInv, TypeOK
    <3>2. Prefer(p, "mcp", NoPorts, NoPorts) \in Proc
          /\ Good(p, Prefer(p, "mcp", NoPorts, NoPorts), calm'[p])
      BY <1>3, <2>2, Records, PreferIsGood DEF Roles, Before
    <3>3. LET n == Prefer(p, "mcp", NoPorts, NoPorts)
          IN  n.hold = NoPort /\ n.pc = "prefer" /\ n.loaded = NoPorts
      BY Records DEF Prefer, Down, Proc
    <3> HIDE DEF new, loaded
    <3> QED  BY <3>1, <3>2, <3>3
  <2>3. CASE Kind[p] # "ui" /\ file.state = "whole"
    <3> DEFINE n == [me EXCEPT !.pc = "check", !.ports = loaded,
                               !.loaded = loaded, !.left = {loaded["mcp"]}]
    <3>1. new = n /\ proc' = [proc EXCEPT ![p] = n]
      BY <2>3 DEF Load, PortsInv, TypeOK
    <3>2. loaded["mcp"] \in Ports /\ loaded \in PortRecord
          /\ loaded # NoPorts
      BY <1>4, <2>3, Records DEF FullRecord, Roles
    <3> HIDE DEF loaded
    <3>3. /\ n \in Proc /\ n.pc = "check" /\ n.ports = loaded
          /\ n.loaded = loaded /\ n.left = {loaded["mcp"]} /\ n.hold = NoPort
          /\ n.role = me.role
      BY <1>1, <3>2 DEF Proc, Phases
    <3>4. me.role = "mcp"
      BY <1>1, Mine DEF Good
    <3> HIDE DEF n, new, me
    <3>5. Good(p, n, calm'[p])
      BY <1>4, <2>3, <3>2, <3>3, <3>4 DEF Good, Resolved, Probing
    <3> QED  BY <3>1, <3>3, <3>5
  <2>4. CASE Kind[p] # "ui" /\ file.state \notin {"missing", "whole"}
    <3> DEFINE n == [me EXCEPT !.pc = "failed", !.why = "corrupt"]
    <3>1. new = n /\ proc' = [proc EXCEPT ![p] = n] /\ loaded = NoPorts
      BY <2>4 DEF Load, PortsInv, TypeOK
    <3>2. me.loaded = NoPorts
      BY <1>1, Mine DEF Good
    <3>3. /\ n \in Proc /\ n.pc = "failed" /\ n.hold = NoPort
          /\ n.loaded = NoPorts
      BY <1>1, <3>2 DEF Proc, Phases, Reasons
    <3> HIDE DEF n, new, me, loaded
    <3>4. Good(p, n, calm'[p])
      BY <3>3 DEF Good, Resolved
    <3> QED  BY <3>1, <3>3, <3>4
  <2> QED  BY <2>1, <2>2, <2>3, <2>4
<1> HIDE DEF new, loaded
<1>6. NoSocketLeaks'
  BY <1>1, <1>5, SameSockets DEF At
<1>7. \A o \in Procs : calm'[o] =>
            /\ o # p => calm[o]
            /\ FreeFor(o, proc'[o].loaded, socket')
  <2> SUFFICES ASSUME NEW o \in Procs, calm'[o]
               PROVE  (o # p => calm[o]) /\ FreeFor(o, proc'[o].loaded, socket')
    OBVIOUS
  <2>1. proc'[o] = IF o = p THEN new ELSE proc[o]
    BY <1>5 DEF PortsInv, TypeOK
  <2>2. CASE o = p
    BY <1>1, <1>3, <1>5, <2>1, <2>2 DEF FreeFor
  <2>3. CASE o # p
    BY <1>1, <1>3, <2>1, <2>3, Mine DEF FreeFor
  <2> QED  BY <2>2, <2>3
<1> QED  BY <1>1, <1>3, <1>5, <1>6, <1>7, Mine, ProcStep DEF GoodFile

(* Other programs take ports that are free and drop what is theirs.         *)
LEMMA ForeignKeeps ==
    ASSUME PortsInv, NEW q \in ForeignPorts, ForeignBinds(q) \/ ForeignCloses(q)
    PROVE  PortsInv'
<1>1. /\ UNCHANGED <<file, proc, interrupted>> /\ Sockets(socket')
      /\ \/ /\ socket[q] = Nobody
            /\ socket' = [socket EXCEPT ![q] = Foreign]
         \/ /\ socket[q] = Foreign
            /\ socket' = [socket EXCEPT ![q] = Nobody]
  BY DEF ForeignBinds, ForeignCloses, Sockets
<1>2. TypeOK /\ GoodFile /\ NoSocketLeaks /\ GoodProcs
  BY InvIsGood DEF GoodState
<1>3. /\ socket' \in [Ports -> Owners]
      /\ \A t \in Ports, o \in Procs : socket'[t] = o <=> socket[t] = o
  BY <1>1, <1>2, PortsAssumption DEF TypeOK, Owners
<1>4. calm' \in [Procs -> BOOLEAN]
  BY <1>1, <1>2 DEF Sockets, TypeOK, FreeFor
<1>5. TypeOK'
  BY <1>1, <1>2, <1>3, <1>4 DEF TypeOK
<1>6. GoodFile' /\ NoSocketLeaks'
  BY <1>1, <1>2, <1>3 DEF GoodFile, NoSocketLeaks, At, OwnPort
<1>7. \A o \in Procs : calm'[o] =>
            calm[o] /\ FreeFor(o, proc[o].loaded, socket')
  BY <1>1 DEF Sockets
<1>8. GoodProcs'
  <2> SUFFICES ASSUME NEW o \in Procs
               PROVE  /\ Good(o, proc'[o], calm'[o])
                      /\ calm'[o] => FreeFor(o, proc'[o].loaded, socket')
    BY DEF GoodProcs
  <2>1. Good(o, proc[o], calm[o]) /\ proc'[o] = proc[o]
    BY <1>1, <1>2 DEF GoodProcs
  <2> QED  BY <1>7, <2>1 DEF Good
<1>9. GoodState'
  BY <1>5, <1>6, <1>8 DEF GoodState
<1>10. GoodState' => PortsInv'
  BY InvIsGood, PTL
<1> QED  BY <1>9, <1>10

LEMMA PortsInit == Init => PortsInv
<1> SUFFICES ASSUME Init PROVE GoodState
  BY InvIsGood
<1>1. \A p \in Procs : proc[p] = Down /\ calm[p] = FALSE
  BY DEF Init
<1>2. /\ Down.pc = "down" /\ Down.hold = NoPort /\ Down.loaded = NoPorts
      /\ Down.role = "mcp"
  BY DEF Down
<1>3. TypeOK
  BY Records DEF Init, TypeOK, File, Owners
<1>4. GoodFile
  BY DEF Init, GoodFile
<1>5. NoSocketLeaks
  BY <1>1, <1>2, PortsAssumption DEF Init, NoSocketLeaks, At
<1>6. GoodProcs
  BY <1>1, <1>2 DEF GoodProcs, Good, Resolved
<1> QED  BY <1>3, <1>4, <1>5, <1>6 DEF GoodState

LEMMA PortsNext == PortsInv /\ [Next]_vars => PortsInv'
<1> SUFFICES ASSUME PortsInv, [Next]_vars PROVE PortsInv'
  OBVIOUS
<1>1. ASSUME NEW p \in Procs, Start(p) \/ Resolve(p) \/ Exit(p)
      PROVE  PortsInv'
  BY <1>1, StartKeeps, LoadKeeps, ProbeFreeKeeps, DropProbeKeeps,
     ProbeTakenKeeps, NoneLeftKeeps, TruncateKeeps, WriteKeeps, BindKeeps,
     ExitKeeps DEF Resolve
<1>2. ASSUME NEW q \in ForeignPorts, ForeignBinds(q) \/ ForeignCloses(q)
      PROVE  PortsInv'
  BY <1>2, ForeignKeeps
<1>3. CASE UNCHANGED vars
  <2>1. GoodState /\ UNCHANGED <<file, socket, proc, interrupted, calm>>
    BY <1>3, InvIsGood DEF vars
  <2>2. TypeOK' /\ GoodFile' /\ NoSocketLeaks' /\ GoodProcs'
    BY <2>1 DEF GoodState, TypeOK, GoodFile, NoSocketLeaks, GoodProcs,
                At, OwnPort
  <2>3. GoodState'
    BY <2>2 DEF GoodState
  <2>4. GoodState' => PortsInv'
    BY InvIsGood, PTL
  <2> QED  BY <2>3, <2>4
<1> QED  BY <1>1, <1>2, <1>3 DEF Next

-----------------------------------------------------------------------------
(* The theorems *)

(* Every reachable state satisfies the inductive invariant of the ports.    *)
THEOREM PortsInvariant == Spec => []PortsInv
<1>1. Init => PortsInv
  BY PortsInit
<1>2. PortsInv /\ [Next]_vars => PortsInv'
  BY PortsNext
<1> QED  BY <1>1, <1>2, PTL DEF Spec

(* The file, the sockets and the processes keep their types.                *)
THEOREM TypeCorrect == Spec => []TypeOK
<1>1. PortsInv => TypeOK
  BY DEF PortsInv
<1> QED  BY <1>1, PortsInvariant, PTL

(* No process runs with one port for both services, and no file names one,  *)
(* for any preferences, ranges and other programs.                          *)
THEOREM ServicesGetDifferentPorts == Spec => []ServicesDiffer
<1>1. PortsInv => ServicesDiffer
  BY DEF PortsInv
<1> QED  BY <1>1, PortsInvariant, PTL

(* A listener belongs to a probe that is under way or to a running service. *)
THEOREM ProbesAreDropped == Spec => []NoSocketLeaks
<1>1. PortsInv => NoSocketLeaks
  BY DEF PortsInv
<1> QED  BY <1>1, PortsInvariant, PTL

(* A restart that nobody disturbs keeps the ports of the file.              *)
THEOREM UndisturbedRestart == Spec => []RestartIsStable
<1>1. PortsInv => RestartIsStable
  BY DEF PortsInv
<1> QED  BY <1>1, PortsInvariant, PTL

-----------------------------------------------------------------------------
(* Where all texts have one length, an empty file has a writer who will     *)
(* fill it, unless one was killed over it; and no file is torn.             *)
EmptyFileHasWriter ==
    Wide = {} =>
        /\ file.state # "torn"
        /\ file.state = "empty" =>
                interrupted \/ \E p \in Procs : At(p, "write")

(* No process leaves the writing of the file by another step than WriteFile *)
(* or Exit, and none but these two and TruncateFile touch the file.         *)
LEMMA WritersStay ==
  ASSUME PortsInv, NEW p \in Procs,
         \/ Start(p) \/ Load(p) \/ ProbeFree(p) \/ DropProbe(p)
         \/ ProbeTaken(p) \/ NoneLeft(p) \/ Bind(p)
  PROVE  /\ file' = file /\ interrupted' = interrupted
         /\ \A o \in Procs : At(o, "write") => At(o, "write")'
<1>1. /\ proc \in [Procs -> Proc]
      /\ proc[p].hold # NoPort => proc[p].pc \in Probing
  BY DEF PortsInv, TypeOK, ServicesWillDiffer
<1>2. proc[p].pc # "write"
  BY <1>1 DEF Start, Load, ProbeFree, DropProbe, ProbeTaken, NoneLeft, Bind,
              At, Probing
<1>3. /\ file' = file /\ interrupted' = interrupted
      /\ \A o \in Procs \ {p} : proc'[o] = proc[o]
  <2>1. CASE Start(p)
    BY <1>1, <2>1 DEF Start
  <2>2. CASE Load(p)
    BY <1>1, <2>2 DEF Load
  <2>3. CASE ProbeFree(p) \/ DropProbe(p) \/ ProbeTaken(p)
    BY <1>1, <2>3 DEF ProbeFree, DropProbe, ProbeTaken
  <2>4. CASE NoneLeft(p) \/ Bind(p)
    BY <1>1, <2>4 DEF NoneLeft, Bind
  <2> QED  BY <2>1, <2>2, <2>3, <2>4
<1> QED  BY <1>2, <1>3 DEF At

LEMMA WriteMends ==
  ASSUME PortsInv, Wide = {}, NEW p \in Procs, WriteFile(p)
  PROVE  file'.state = "whole"
<1>1. \A ports : Width(ports) = 0
  <2> SUFFICES ASSUME NEW ports PROVE Width(ports) = 0
    OBVIOUS
  <2>1. {r \in Roles : ports[r] \in Wide} = {}
    OBVIOUS
  <2> QED  BY <2>1, FS_EmptySet DEF Width
<1>2. Width(file.ports) = 0 /\ Width(proc[p].ports) = 0
  BY <1>1
<1> QED  BY <1>2 DEF WriteFile

LEMMA WriterInit == Init => EmptyFileHasWriter
BY DEF Init, EmptyFileHasWriter

LEMMA WriterNext ==
  PortsInv /\ EmptyFileHasWriter /\ [Next]_vars => EmptyFileHasWriter'
<1> SUFFICES ASSUME PortsInv, EmptyFileHasWriter, [Next]_vars, Wide = {}
             PROVE  EmptyFileHasWriter'
  BY DEF EmptyFileHasWriter
<1>1. proc \in [Procs -> Proc] /\ interrupted \in BOOLEAN
  BY DEF PortsInv, TypeOK
<1>2. ASSUME NEW p \in Procs, TruncateFile(p)
      PROVE  EmptyFileHasWriter'
  <2>1. file'.state = "empty" /\ At(p, "write")'
    BY <1>1, <1>2 DEF TruncateFile, At
  <2> QED  BY <2>1 DEF EmptyFileHasWriter
<1>3. ASSUME NEW p \in Procs, WriteFile(p)
      PROVE  EmptyFileHasWriter'
  BY <1>3, WriteMends DEF EmptyFileHasWriter
<1>4. ASSUME NEW p \in Procs, Exit(p)
      PROVE  EmptyFileHasWriter'
  <2>1. /\ file' = file
        /\ interrupted' = (interrupted \/ At(p, "write"))
        /\ \A o \in Procs \ {p} : At(o, "write") => At(o, "write")'
    BY <1>1, <1>4 DEF Exit, At
  <2>2. file.state = "empty" =>
            interrupted' \/ \E o \in Procs : At(o, "write")'
    BY <2>1, Zenon DEF EmptyFileHasWriter
  <2> QED  BY <2>1, <2>2 DEF EmptyFileHasWriter
<1>5. ASSUME NEW p \in Procs, Start(p) \/ Resolve(p) \/ Exit(p)
      PROVE  EmptyFileHasWriter'
  <2>1. CASE TruncateFile(p) \/ WriteFile(p) \/ Exit(p)
    BY <2>1, <1>2, <1>3, <1>4
  <2>2. CASE \/ Start(p) \/ Load(p) \/ ProbeFree(p) \/ DropProbe(p)
             \/ ProbeTaken(p) \/ NoneLeft(p) \/ Bind(p)
    BY <2>2, WritersStay DEF EmptyFileHasWriter
  <2> QED  BY <1>5, <2>1, <2>2 DEF Resolve
<1>6. ASSUME NEW q \in ForeignPorts, ForeignBinds(q) \/ ForeignCloses(q)
      PROVE  EmptyFileHasWriter'
  BY <1>6 DEF ForeignBinds, ForeignCloses, EmptyFileHasWriter, At
<1>7. CASE UNCHANGED vars
  BY <1>7 DEF vars, EmptyFileHasWriter, At
<1> QED  BY <1>5, <1>6, <1>7 DEF Next

(* Unless a process is just writing it or was killed over it, the file is   *)
(* missing or parses, for any number of processes that start, write and     *)
(* crash, as long as all ports are written with the same number of digits.  *)
THEOREM FileSettlesWhole == Spec => []SettledFileParses
<1>1. PortsInv /\ EmptyFileHasWriter => SettledFileParses
  BY DEF PortsInv, TypeOK, File, EmptyFileHasWriter, SettledFileParses
<1>2. Spec => []EmptyFileHasWriter
  BY WriterInit, WriterNext, PortsInvariant, PTL DEF Spec
<1> QED  BY <1>1, <1>2, PortsInvariant, PTL
=============================================================================
