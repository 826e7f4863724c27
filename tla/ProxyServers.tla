----------------------------- MODULE ProxyServers -----------------------------
(***************************************************************************)
(* addons/proxyserver.py Servers.update with the instances it keeps          *)
(* (proxy/mode_servers.py), and Proxyserver.configure, which asks for an     *)
(* update whenever the mode or server option changes.                        *)
(*                                                                           *)
(* Updates take turns at a lock, but each runs as several tasks: binding a   *)
(* socket and launching the local redirector suspend, so options change and  *)
(* other programs take addresses meanwhile.  Starts and stops may fail, each *)
(* half-way.  The order of the modes in the option is left open, and so is   *)
(* whether a task begins when it is created or later.                        *)
(***************************************************************************)
EXTENDS Naturals, Sequences

CONSTANTS
    Specs,       \* mode specs
    Local,       \* those of the local redirector, of which there is one
    Listens,     \* the sockets of each of the others: pairs of address and protocol
    None,
    MaxChanges   \* bound on changes of the options

Sockets == UNION {Listens[s] : s \in Specs}

ASSUME SpecAssumption ==
    /\ Local \subseteq Specs /\ None \notin Specs
    /\ \A s \in Specs : Listens[s] = {} <=> s \in Local
ASSUME ChangesAssumption == MaxChanges \in Nat

VARIABLES
    option,      \* the mode and server options
    master,      \* whether Proxyserver.is_running, or has not been set up yet
    waiting,     \* updates that wait for the lock
    update,      \* the one that has it: what it must still stop and start
    instances,   \* Servers._instances
    servers,     \* AsyncioServerInstance._servers of each instance
    opening,     \* what listen() has opened for an instance that is being started
    failed,      \* the instances whose last start or stop failed (last_exception)
    bound,       \* the sockets this program has bound
    redirector,  \* LocalRedirectorInstance._instance
    launched,    \* there is a LocalRedirectorInstance._server
    lost,        \* history: the sockets that a failed start or stop has left open
    missed,      \* history: the last change was made before the running hook
    changes

proxyVars == <<option, master, waiting, update, instances, servers, opening, failed, bound,
          redirector, launched, lost, missed, changes>>

serverVars == <<servers, opening, bound, redirector, launched, lost>>

Options == [mode : SUBSET Specs, server : BOOLEAN]

\* "Cannot spawn multiple servers on the same address".
Spawnable(modes) ==
    \A s, t \in modes : s # t => Listens[s] \cap Listens[t] = {}

Idle == [locked |-> FALSE, stop |-> {}, start |-> {}, ok |-> TRUE]

\* setup_servers has read the option and asks for the first update.
ServersInit ==
    /\ option \in {o \in Options : Spawnable(o.mode)}
    /\ master = "setup" /\ waiting = <<option.mode>> /\ update = Idle
    /\ instances = {} /\ failed = {}
    /\ servers = [s \in Specs |-> {}] /\ opening = [s \in Specs |-> {}]
    /\ bound = {} /\ redirector = None /\ launched = FALSE
    /\ lost = {} /\ missed = FALSE /\ changes = 0

-----------------------------------------------------------------------------
(* Proxyserver *)

\* Mutant: no update is asked for while one is under way.
ChangeUnlessUpdating(o) ==
    /\ option' = o
    /\ waiting' = IF master = "running" /\ ~update.locked
                  THEN Append(waiting, o.mode) ELSE waiting
\* A change before the running hook has no effect: the first update has read the option.
Change(o) ==
    /\ option' = o
    /\ waiting' = IF master = "running" THEN Append(waiting, o.mode) ELSE waiting

\* configure rejects modes that clash, and the options are rolled back: then it is
\* called again with the old ones, as it is when another addon rejects a change.
Configure(o) ==
    /\ changes < MaxChanges /\ master # "exited"
    /\ Change(IF Spawnable(o.mode) THEN o ELSE option)
    /\ changes' = changes + 1
    /\ missed' = (master = "setup")
    /\ UNCHANGED <<master, update, instances, failed, serverVars>>

\* The first update is over: the running hook, unless errorcheck ends the program
\* because an error was logged.
Running ==
    /\ master = "setup" /\ waiting = <<>> /\ ~update.locked
    /\ \/ master' = "running"
       \/ ~update.ok /\ master' = "exited"
    /\ UNCHANGED <<option, waiting, update, instances, failed, serverVars, missed, changes>>

-----------------------------------------------------------------------------
(* Servers.update *)

Wanted(modes) == IF option.server THEN modes ELSE {}

\* Mutant: the instances that stay are made and started again.
ReplaceAll(modes) ==
    /\ instances' = Wanted(modes)
    /\ update' = [locked |-> TRUE, stop |-> instances, start |-> Wanted(modes), ok |-> TRUE]
Replace(modes) ==
    /\ instances' = Wanted(modes)
    /\ update' = [locked |-> TRUE, stop |-> instances \ Wanted(modes),
                  start |-> Wanted(modes) \ instances, ok |-> TRUE]

UpdateBegins ==
    /\ ~update.locked /\ waiting # <<>>
    /\ waiting' = Tail(waiting)
    /\ IF Wanted(Head(waiting)) = instances
       THEN update' = Idle /\ UNCHANGED <<instances, failed>>
       ELSE Replace(Head(waiting)) /\ failed' = failed \ update'.start
    /\ UNCHANGED <<option, master, serverVars, missed, changes>>

StopEnds(s, ok) ==
    /\ update' = [update EXCEPT !.stop = @ \ {s}, !.ok = @ /\ ok]
    /\ failed' = IF ok THEN failed \ {s} ELSE failed \cup {s}

StartEnds(s, ok) ==
    /\ update' = [update EXCEPT !.start = @ \ {s}, !.ok = @ /\ ok]
    /\ failed' = IF ok THEN failed \ {s} ELSE failed \cup {s}

\* Mutant: what is new is started while the old is stopped.
StartingAtOnce(s) == update.locked /\ s \in update.start
\* The starts are awaited after the stops.
Starting(s) == update.locked /\ update.stop = {} /\ s \in update.start

UpdateEnds ==
    /\ update.locked /\ update.stop = {} /\ update.start = {}
    /\ update' = [update EXCEPT !.locked = FALSE]
    /\ UNCHANGED <<option, master, waiting, instances, failed, serverVars, missed, changes>>

-----------------------------------------------------------------------------
(* AsyncioServerInstance *)

\* listen() opens the TCP server first.
ToOpen(s) ==
    LET rest == Listens[s] \ opening[s]
        tcp  == {k \in rest : k[2] = "tcp"}
    IN  IF tcp # {} THEN tcp ELSE rest

Open(s, k) ==
    LET opened == opening[s] \cup {k} IN
    /\ k \notin bound /\ bound' = bound \cup {k}
    /\ IF opened = Listens[s]
       THEN /\ servers' = [servers EXCEPT ![s] = opened]
            /\ opening' = [opening EXCEPT ![s] = {}] /\ StartEnds(s, TRUE)
       ELSE opening' = [opening EXCEPT ![s] = opened] /\ UNCHANGED <<servers, update, failed>>
    /\ UNCHANGED lost

\* The address is in use, by this program or another.  What listen() has opened before
\* nobody knows of from now on.
CannotOpen(s) ==
    /\ lost' = lost \cup opening[s]
    /\ opening' = [opening EXCEPT ![s] = {}]
    /\ StartEnds(s, FALSE)
    /\ UNCHANGED <<servers, bound>>

Listen(s) ==
    /\ Starting(s) /\ s \notin Local
    /\ \E k \in ToOpen(s) : Open(s, k) \/ CannotOpen(s)
    /\ UNCHANGED <<option, master, waiting, instances, redirector, launched, missed,
                   changes>>

\* What may stay open when a server's close raises: nothing, or it and those behind it.
Remaining(s) ==
    {{}, servers[s], {k \in servers[s] : k[2] = "udp"}}

\* An instance that was never started asserts.
StopListening(s) ==
    /\ s \in update.stop /\ s \notin Local
    /\ \E raised \in BOOLEAN : \E left \in IF raised THEN Remaining(s) ELSE {{}} :
         /\ StopEnds(s, servers[s] # {} /\ ~raised)
         /\ bound' = bound \ (servers[s] \ left)
         /\ lost' = lost \cup left
    /\ servers' = [servers EXCEPT ![s] = {}]
    /\ UNCHANGED <<option, master, waiting, instances, opening, redirector, launched, missed,
                   changes>>

-----------------------------------------------------------------------------
(* LocalRedirectorInstance *)

\* "Cannot spawn more than one local redirector."
StartRedirecting(s) ==
    /\ Starting(s) /\ s \in Local /\ redirector # s
    /\ IF redirector # None THEN StartEnds(s, FALSE) /\ UNCHANGED redirector
       ELSE /\ redirector' = s
            /\ IF launched THEN StartEnds(s, TRUE) ELSE UNCHANGED <<update, failed>>
    /\ UNCHANGED <<option, master, waiting, instances, servers, opening, bound, launched,
                   lost, missed, changes>>

\* start_local_redirector returns, or fails.
Launched(s) ==
    /\ Starting(s) /\ redirector = s
    /\ \E ok \in BOOLEAN : /\ launched' = ok /\ StartEnds(s, ok)
                           /\ redirector' = IF ok THEN s ELSE None
    /\ UNCHANGED <<option, master, waiting, instances, servers, opening, bound, lost,
                   missed, changes>>

\* The assertion looks at the class: an instance whose start failed stops another.
StopRedirecting(s) ==
    /\ s \in update.stop /\ s \in Local
    /\ StopEnds(s, redirector # None)
    /\ redirector' = None
    /\ UNCHANGED <<option, master, waiting, instances, servers, opening, bound, launched,
                   lost, missed, changes>>

-----------------------------------------------------------------------------
Updates ==
    \/ UpdateBegins \/ UpdateEnds
    \/ \E s \in Specs : \/ Listen(s) \/ StopListening(s)
                        \/ StartRedirecting(s) \/ Launched(s) \/ StopRedirecting(s)

ServersNext == Updates \/ Running \/ \E o \in Options : Configure(o)

ServersSpec == ServersInit /\ [][ServersNext]_proxyVars

\* Sockets are bound or refused, and the launch of the redirector, which may have to be
\* permitted, is decided.
ServersFairness == WF_proxyVars(Updates) /\ WF_proxyVars(Running)
ServersFairSpec == ServersSpec /\ ServersFairness

-----------------------------------------------------------------------------
(* Properties *)

ServersTypeOK ==
    /\ option \in Options
    /\ master \in {"setup", "running", "exited"}
    /\ waiting \in Seq(SUBSET Specs)
    /\ update \in [locked : BOOLEAN, stop : SUBSET Specs, start : SUBSET Specs, ok : BOOLEAN]
    /\ instances \subseteq Specs /\ failed \subseteq Specs
    /\ servers \in [Specs -> SUBSET Sockets] /\ opening \in [Specs -> SUBSET Sockets]
    /\ bound \subseteq Sockets /\ lost \subseteq Sockets
    /\ redirector \in Specs \cup {None} /\ launched \in BOOLEAN
    /\ missed \in BOOLEAN /\ changes \in 0 .. MaxChanges

Owned == UNION {servers[s] \cup opening[s] : s \in instances \cup update.stop}
Stray == bound \ Owned

\* A socket belongs to an instance that can close it, but for what a failed start or stop
\* has left open.  And nothing else of this program is in the way of a server that is
\* being started, whatever had its address before.
SocketsOwned ==
    /\ Stray \subseteq lost
    /\ \A s \in Specs : Starting(s) /\ s \notin Local => ToOpen(s) \cap bound \subseteq Stray

\* A mode that stays in the option goes on being served, unless another local mode is
\* stopped, which stops the redirector for both.
IsRunning(s) == IF s \in Local THEN redirector = s /\ launched ELSE servers[s] # {}
KeptRunning ==
    [][\A s \in instances \cap instances' :
          IsRunning(s) => IsRunning(s)' \/ (s \in Local /\ update.stop \cap Local # {})]_proxyVars

\* Between updates every instance listens, on all its sockets, or its start has failed.
ServersUp ==
    ~update.locked =>
        /\ \A s \in instances \ (Local \cup failed) : servers[s] = Listens[s]
        /\ redirector \in instances \cup {None}

\* The last change that was made since the running hook is the one that is in force in
\* the end.
Applied == instances = Wanted(option.mode)
ChangesApplied ==
    /\ []ServersUp
    /\ (master = "running") ~> (Applied \/ missed)

==============================================================================
