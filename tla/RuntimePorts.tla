---------------------------- MODULE RuntimePorts ----------------------------
(***************************************************************************)
(* How mcp-server, the stdio server and the admin UI agree on their ports: *)
(* each reads runtime-ports.json, probes ports by binding and dropping     *)
(* them, saves what it chose and binds its own port only then.  They run   *)
(* in processes of their own, next to other programs that listen on some   *)
(* of the ports, and may be stopped or crash at any moment.                *)
(***************************************************************************)
EXTENDS Naturals, FiniteSets

CONSTANTS
    Procs,
    Kind,          \* what each process runs: "server", "stdio" or "ui"
    Ports,
    PortRange,     \* the ports to search for each role, 38080..38180 and so on
    Preferred,     \* MCP_PORT, UI_PORT and 38281, as each process is started
    Wide,          \* ports that are written with more digits than the others
    ForeignPorts,  \* ports that other programs may listen on
    Foreign,       \* the owner of a port another program listens on
    Nobody,        \* the owner of a free port
    NoPort         \* not chosen yet, or not being probed

Roles == {"mcp", "ui", "metrics"}
Kinds == {"server", "stdio", "ui"}

ASSUME PortsAssumption ==
    /\ Kind \in [Procs -> Kinds]
    /\ Ports \subseteq Nat
    /\ PortRange \in [Roles -> SUBSET Ports]
    /\ Preferred \in [Procs -> [Roles -> Ports]]
    /\ ForeignPorts \subseteq Ports
    /\ Foreign \notin Procs /\ Nobody \notin Procs /\ Foreign # Nobody
    /\ NoPort \notin Ports

VARIABLES
    file,     \* runtime-ports.json
    socket,   \* who listens on each port
    proc      \* the processes

(* History: a process was killed while it wrote the file; and, for every    *)
(* process, whether the ports it loaded were free for it ever since.        *)
VARIABLES interrupted, calm

vars == <<file, socket, proc, interrupted, calm>>

-----------------------------------------------------------------------------
(* Values *)

Owners == Procs \union {Foreign, Nobody}
PortRecord == [Roles -> Ports \union {NoPort}]
NoPorts == [r \in Roles |-> NoPort]
File == [state : {"missing", "empty", "torn", "whole"}, ports : PortRecord]

Phases == {"down", "load", "check", "prefer", "scan", "truncate", "write",
           "bind", "running", "failed"}
Probing == {"check", "prefer", "scan"}
Reasons == {"none", "corrupt", "exhausted", "taken"}
Proc == [pc : Phases, role : Roles, left : SUBSET Ports, ports : PortRecord,
         hold : Ports \union {NoPort}, loaded : PortRecord, why : Reasons]
Down == [pc |-> "down", role |-> "mcp", left |-> {}, ports |-> NoPorts,
         hold |-> NoPort, loaded |-> NoPorts, why |-> "none"]

TypeOK ==
    /\ file \in File
    /\ socket \in [Ports -> Owners]
    /\ proc \in [Procs -> Proc]
    /\ interrupted \in BOOLEAN
    /\ calm \in [Procs -> BOOLEAN]

At(p, pc) == proc[p].pc = pc

-----------------------------------------------------------------------------
(* Choosing ports *)

Before(r) == CASE r = "mcp" -> {}
               [] r = "ui" -> {"mcp"}
               [] r = "metrics" -> {"mcp", "ui"}

(* Mutant: nothing reserved. *)
ReservedNothing(p) == {}

(* The ports a process may not take again for the role it looks at.         *)
Reserved(p) ==
    IF At(p, "check") THEN {}
    ELSE {proc[p].ports[r] : r \in Before(proc[p].role)}

(* The port that is tried next, if there is one: the lowest that is left.   *)
Candidate(p) ==
    LET open == proc[p].left \ Reserved(p)
    IN  {q \in open : \A o \in open : q <= o}

(* What a process prefers: the UI goes by the file, when it could read one. *)
Want(p, loaded, r) ==
    IF Kind[p] = "ui" /\ loaded # NoPorts THEN loaded[r] ELSE Preferred[p][r]

(* A process that looks for a port of a role, and starts with the one it    *)
(* prefers.                                                                 *)
Prefer(p, r, ports, loaded) ==
    [Down EXCEPT !.pc = "prefer", !.role = r, !.ports = ports,
                 !.left = {Want(p, loaded, r)}, !.loaded = loaded]

(* The ports are decided; the stdio server needs none of its own.           *)
Decided(p) == IF Kind[p] = "stdio" THEN "running" ELSE "bind"

(* Mutant: a file that could be reused is chosen anew.                      *)
AcceptedAnew(p, q) ==
    LET me == proc[p] IN
    IF me.pc = "check" THEN Prefer(p, "mcp", NoPorts, me.loaded)
    ELSE LET ports == [me.ports EXCEPT ![me.role] = q]
             next == IF me.role = "mcp" THEN "ui" ELSE "metrics"
         IN  IF me.role = "metrics" \/ Kind[p] = "ui"
             THEN [me EXCEPT !.pc = "truncate", !.ports = ports, !.hold = NoPort]
             ELSE Prefer(p, next, ports, me.loaded)

(* The port was free: on to the next role, or done.  The ports of the file  *)
(* are kept only if all of them are free.                                   *)
Accepted(p, q) ==
    LET me == proc[p]
        next == IF me.role = "mcp" THEN "ui" ELSE "metrics"
        ports == [me.ports EXCEPT ![me.role] = q]
    IN  IF me.pc = "check"
        THEN IF me.role = "metrics"
             THEN [me EXCEPT !.pc = Decided(p), !.hold = NoPort]
             ELSE [me EXCEPT !.role = next, !.left = {me.ports[next]},
                             !.hold = NoPort]
        ELSE IF me.role = "metrics" \/ Kind[p] = "ui"
             THEN [me EXCEPT !.pc = "truncate", !.ports = ports, !.hold = NoPort]
             ELSE Prefer(p, next, ports, me.loaded)

(* Mutant: the search does not move on. *)
RejectedAgain(p, q) ==
    LET me == proc[p]
    IN  CASE me.pc = "check" -> Prefer(p, "mcp", NoPorts, me.loaded)
          [] me.pc = "prefer" -> [me EXCEPT !.pc = "scan",
                                            !.left = PortRange[me.role]]
          [] me.pc = "scan" -> me

(* The port was taken: from the file to the preferences, from a preference  *)
(* to the range of the role, and up this range.                             *)
Rejected(p, q) ==
    LET me == proc[p]
    IN  CASE me.pc = "check" -> Prefer(p, "mcp", NoPorts, me.loaded)
          [] me.pc = "prefer" -> [me EXCEPT !.pc = "scan",
                                            !.left = PortRange[me.role]]
          [] me.pc = "scan" -> [me EXCEPT !.left = {o \in @ : o > q}]

-----------------------------------------------------------------------------
(* The history: calm lasts while nobody else has a port that was loaded and *)
(* that the process looks at: all for the servers, its own for the UI.      *)

Needs(p) == IF Kind[p] = "ui" THEN {"ui"} ELSE Roles

FreeFor(p, loaded, owner) ==
    loaded # NoPorts =>
        \A r \in Needs(p) : owner[loaded[r]] \in {Nobody, p}

Sockets(owner) ==
    /\ socket' = owner
    /\ calm' = [p \in Procs |->
                    calm[p] /\ FreeFor(p, proc[p].loaded, owner)]

-----------------------------------------------------------------------------
(* Steps of a process *)

Start(p) ==
    /\ At(p, "down")
    /\ proc' = [proc EXCEPT ![p].pc = "load"]
    /\ UNCHANGED <<file, socket, interrupted, calm>>

(* load_ports of the servers, to whom a file that does not parse is an      *)
(* error, and resolve_ui_runtime_ports, which ignores it.  The UI takes the *)
(* ports of the others as they are and looks for its own.                   *)
Load(p) ==
    LET loaded == IF file.state = "whole" THEN file.ports ELSE NoPorts
        given == [r \in Roles |-> IF r = "ui" THEN NoPort
                                  ELSE Want(p, loaded, r)]
    IN  /\ At(p, "load")
        /\ proc' = [proc EXCEPT ![p] =
              IF Kind[p] = "ui" THEN Prefer(p, "ui", given, loaded)
              ELSE CASE file.state = "missing" ->
                            Prefer(p, "mcp", NoPorts, NoPorts)
                     [] file.state = "whole" ->
                            [@ EXCEPT !.pc = "check", !.ports = loaded,
                                      !.loaded = loaded,
                                      !.left = {loaded["mcp"]}]
                     [] OTHER -> [@ EXCEPT !.pc = "failed", !.why = "corrupt"]]
        /\ calm' = [calm EXCEPT ![p] = FreeFor(p, loaded, socket)]
        /\ UNCHANGED <<file, socket, interrupted>>

(* port_available binds the port and drops the listener at once; until then *)
(* others find it taken.                                                    *)
ProbeFree(p) ==
    /\ proc[p].pc \in Probing /\ proc[p].hold = NoPort
    /\ \E q \in Candidate(p) :
            /\ socket[q] = Nobody
            /\ proc' = [proc EXCEPT ![p].hold = q]
            /\ Sockets([socket EXCEPT ![q] = p])
    /\ UNCHANGED <<file, interrupted>>

DropProbe(p) ==
    /\ proc[p].hold # NoPort
    /\ proc' = [proc EXCEPT ![p] = Accepted(p, proc[p].hold)]
    /\ Sockets([socket EXCEPT ![proc[p].hold] = Nobody])
    /\ UNCHANGED <<file, interrupted>>

ProbeTaken(p) ==
    /\ proc[p].pc \in Probing /\ proc[p].hold = NoPort
    /\ \E q \in Candidate(p) :
            /\ socket[q] # Nobody
            /\ proc' = [proc EXCEPT ![p] = Rejected(p, q)]
    /\ UNCHANGED <<file, socket, interrupted, calm>>

(* A preferred port that is reserved is not probed; an empty range is the   *)
(* end of the start.                                                        *)
NoneLeft(p) ==
    /\ proc[p].pc \in {"prefer", "scan"} /\ proc[p].hold = NoPort
    /\ Candidate(p) = {}
    /\ proc' = [proc EXCEPT ![p] =
            IF At(p, "prefer")
            THEN [@ EXCEPT !.pc = "scan", !.left = PortRange[proc[p].role]]
            ELSE [@ EXCEPT !.pc = "failed", !.why = "exhausted"]]
    /\ UNCHANGED <<file, socket, interrupted, calm>>

(* Mutant: an error of the write ignored.                                   *)
TruncateOnly(p) ==
    /\ At(p, "truncate")
    /\ file' = [state |-> "empty", ports |-> NoPorts]
    /\ proc' = [proc EXCEPT ![p].pc = Decided(p)]
    /\ UNCHANGED <<socket, interrupted, calm>>

(* fs::write empties the file and then writes from the start.               *)
TruncateFile(p) ==
    /\ At(p, "truncate")
    /\ file' = [state |-> "empty", ports |-> NoPorts]
    /\ proc' = [proc EXCEPT ![p].pc = "write"]
    /\ UNCHANGED <<socket, interrupted, calm>>

(* What somebody else wrote since then is overwritten, except for the end   *)
(* of a text that is longer.                                                *)
Width(ports) == Cardinality({r \in Roles : ports[r] \in Wide})

WriteFile(p) ==
    /\ At(p, "write")
    /\ file' = IF Width(file.ports) > Width(proc[p].ports)
               THEN [file EXCEPT !.state = "torn"]
               ELSE [state |-> "whole", ports |-> proc[p].ports]
    /\ proc' = [proc EXCEPT ![p].pc = Decided(p)]
    /\ UNCHANGED <<socket, interrupted, calm>>

(* The port a process serves on.                                            *)
OwnPort(p) == proc[p].ports[IF Kind[p] = "ui" THEN "ui" ELSE "mcp"]

Bind(p) ==
    /\ At(p, "bind")
    /\ \/ /\ socket[OwnPort(p)] = Nobody
          /\ proc' = [proc EXCEPT ![p].pc = "running"]
          /\ Sockets([socket EXCEPT ![OwnPort(p)] = p])
       \/ /\ socket[OwnPort(p)] # Nobody
          /\ proc' = [proc EXCEPT ![p].pc = "failed", ![p].why = "taken"]
          /\ UNCHANGED <<socket, calm>>
    /\ UNCHANGED <<file, interrupted>>

(* A process ends: stopped, crashed or after a failed start.                *)
Exit(p) ==
    /\ ~At(p, "down")
    /\ proc' = [proc EXCEPT ![p] = Down]
    /\ Sockets([q \in Ports |-> IF socket[q] = p THEN Nobody ELSE socket[q]])
    /\ interrupted' = (interrupted \/ At(p, "write"))
    /\ UNCHANGED file

-----------------------------------------------------------------------------
(* Other programs *)

ForeignBinds(q) ==
    /\ socket[q] = Nobody
    /\ Sockets([socket EXCEPT ![q] = Foreign])
    /\ UNCHANGED <<file, proc, interrupted>>

ForeignCloses(q) ==
    /\ socket[q] = Foreign
    /\ Sockets([socket EXCEPT ![q] = Nobody])
    /\ UNCHANGED <<file, proc, interrupted>>

-----------------------------------------------------------------------------
(* The specification *)

Init ==
    /\ file = [state |-> "missing", ports |-> NoPorts]
    /\ socket = [q \in Ports |-> Nobody]
    /\ proc = [p \in Procs |-> Down]
    /\ interrupted = FALSE
    /\ calm = [p \in Procs |-> FALSE]

Resolve(p) ==
    \/ Load(p)
    \/ ProbeFree(p) \/ DropProbe(p) \/ ProbeTaken(p) \/ NoneLeft(p)
    \/ TruncateFile(p) \/ WriteFile(p) \/ Bind(p)

Next ==
    \/ \E p \in Procs : Start(p) \/ Resolve(p) \/ Exit(p)
    \/ \E q \in ForeignPorts : ForeignBinds(q) \/ ForeignCloses(q)

Spec == Init /\ [][Next]_vars

(* A process that was started runs.                                         *)
FairSpec == Spec /\ \A p \in Procs : WF_vars(Resolve(p))

-----------------------------------------------------------------------------
(* Safety *)

(* "Confirm unique runtime ports": no process runs with, and the file never *)
(* names, one port for both services, whoever wrote the file, whatever was  *)
(* preferred and whatever was taken.                                        *)
ServicesDiffer ==
    /\ file.state = "whole" => file.ports["mcp"] # file.ports["ui"]
    /\ \A p \in Procs :
            proc[p].pc \in {"truncate", "write", "bind", "running"} =>
                proc[p].ports["mcp"] # proc[p].ports["ui"]

(* A port is held by a process exactly while this probes it or serves on    *)
(* it: no probe leaks a listener, on no path through the three resolvers.   *)
NoSocketLeaks ==
    \A p \in Procs, q \in Ports :
        socket[q] = p <=> \/ proc[p].hold = q
                          \/ At(p, "running") /\ Kind[p] # "stdio"
                             /\ q = OwnPort(p)

(* restart_stability_keeps_same_ports_when_available, with other processes  *)
(* starting meanwhile: a process that loaded ports which were free for it   *)
(* until now has not given up any of them and does not fail.                *)
RestartIsStable ==
    \A p \in Procs :
        (calm[p] /\ proc[p].loaded # NoPorts) =>
            /\ ~At(p, "failed")
            /\ proc[p].pc \in {"truncate", "write", "bind", "running"} =>
                    proc[p].ports = proc[p].loaded

(* Unless somebody is just writing it, or was killed while writing, a file  *)
(* that was ever written is one that the servers can start from, provided   *)
(* that the texts that are written at the same time are of one length.      *)
SettledFileParses ==
    (Wide = {} /\ ~interrupted /\ \A p \in Procs : ~At(p, "write")) =>
        file.state \in {"missing", "whole"}

(* What these rest on.  All ports are known where they are needed: in a     *)
(* whole file, in what was loaded, and step by step in what is chosen.      *)
FullRecord == [Roles -> Ports]

PortsKnown ==
    /\ file.state = "whole" => file.ports \in FullRecord
    /\ \A p \in Procs :
        /\ proc[p].loaded \in FullRecord \union {NoPorts}
        /\ proc[p].pc \in {"check", "truncate", "write", "bind", "running"} =>
                proc[p].ports \in FullRecord
        /\ proc[p].pc \in {"down", "load"} =>
                proc[p].role = "mcp" /\ proc[p].loaded = NoPorts
        /\ proc[p].pc = "check" => Kind[p] # "ui"
        /\ proc[p].pc = "bind" => Kind[p] # "stdio"
        /\ proc[p].pc \in {"prefer", "scan"} =>
            /\ \A r \in Before(proc[p].role) : proc[p].ports[r] \in Ports
            /\ Kind[p] = "ui" => /\ proc[p].role = "ui"
                                 /\ proc[p].ports["metrics"] \in Ports

(* The two services differ already while the metrics port is looked for,    *)
(* while a file is checked, and while the port of the UI is probed.         *)
ServicesWillDiffer ==
    \A p \in Procs :
        LET me == proc[p] IN
        /\ me.loaded # NoPorts => me.loaded["mcp"] # me.loaded["ui"]
        /\ \/ me.pc = "check"
           \/ me.pc \in {"prefer", "scan"} /\ me.role = "metrics"
           => me.ports["mcp"] # me.ports["ui"]
        /\ me.pc \in {"prefer", "scan"} /\ me.role = "ui" =>
                me.hold # me.ports["mcp"]
        /\ me.hold # NoPort => me.pc \in Probing /\ me.hold \in me.left

(* A process that is not disturbed is on the way to the ports it loaded.    *)
CalmGoesStraight ==
    \A p \in Procs :
        LET me == proc[p] IN
        calm[p] /\ me.loaded # NoPorts =>
            /\ FreeFor(p, me.loaded, socket)
            /\ me.pc \in {"check", "prefer", "truncate", "write", "bind",
                          "running"}
            /\ me.pc = "check" => /\ me.ports = me.loaded
                                  /\ me.left = {me.loaded[me.role]}
            /\ me.pc = "prefer" => /\ Kind[p] = "ui"
                                   /\ me.left = {me.loaded["ui"]}
                                   /\ \A r \in {"mcp", "metrics"} :
                                        me.ports[r] = me.loaded[r]

PortsInv ==
    /\ TypeOK
    /\ ServicesDiffer
    /\ NoSocketLeaks
    /\ RestartIsStable
    /\ PortsKnown
    /\ ServicesWillDiffer
    /\ CalmGoesStraight

(* A running or failed process is the end of every start.                   *)
StartEnds ==
    \A p \in Procs : At(p, "load") ~>
        proc[p].pc \in {"running", "failed", "down"}

-----------------------------------------------------------------------------
(* What the documentation says and the code does not do *)

(* "Startup port conflict is auto-resolved": no start fails because the     *)
(* port it chose is taken.                                                  *)
ConflictsAreResolved == \A p \in Procs : proc[p].why # "taken"

(* "... and reflected in diagnostics": the UI reports, and calls, the port  *)
(* that a running server has.                                               *)
DiagnosticsAgree ==
    \A u, s \in Procs :
        /\ Kind[u] = "ui" /\ At(u, "running")
        /\ Kind[s] = "server" /\ At(s, "running")
        => proc[u].ports["mcp"] = proc[s].ports["mcp"]
=============================================================================
