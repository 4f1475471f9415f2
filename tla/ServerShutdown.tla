--------------------------- MODULE ServerShutdown ---------------------------
(***************************************************************************)
(* The shutdown of the server process: the ordered sequence with a         *)
(* deadline on (almost) every awaited step, under a process watchdog       *)
(* (graceful-shutdown.ts, server-shutdown.ts, shutdown-timeouts.ts), and   *)
(* what runs beside it: a periodic job (SerialTask), browser terminal      *)
(* upgrades, HTTP requests that hold a capacity lease, MCP exchanges and   *)
(* their admission gate (mcp/admission.ts, mcp/auth.ts), the audit writer  *)
(* (relay/node-audit.ts), the user-deletion sweep's tick, and the fence    *)
(* that refuses new database operations (packages/db/shutdown-fence.ts).   *)
(*                                                                         *)
(* Work a step awaits may hang: nothing but the deadlines is fair.  Time   *)
(* is what the deadlines that ran out add up to, in half seconds.          *)
(***************************************************************************)
EXTENDS SerialTask, Sequences

CONSTANTS
    Sockets,        \* browser terminal connections
    Requests,       \* HTTP requests
    Exchanges,      \* MCP exchanges
    Events          \* audited actions

VARIABLES
    load,           \* what runs beside the sequence: "job" or "traffic"
    stage,          \* the step the sequence is in
    spent,          \* half seconds the deadlines that ran out took
    exit,           \* "none", or the exit status
    draining,       \* relaySessionManager's drain flag
    socket,         \* browser connection: none, upgrading, open
    request,        \* HTTP request: none, active
    lease,          \* the requests whose capacity lease is held
    mcp,            \* MCP exchange: none, admitted, stray (aborted)
    gate,           \* the admission gate is closed and the fence armed
    handler,        \* mcpHandler.close() has settled
    event,          \* audited action: none, queued, late (recorded after the
                    \* flush), writing, fenced (dropped by the fence)
    flush,          \* the flush closeRelaySessions awaits: none, waiting, done
    sweep,          \* the deletion sweep's tick: idle, running
    clients         \* database clients: open, joined, sweep_closed, closed

hostVars == <<load, stage, spent, exit, draining, socket, request, lease, mcp, gate,
              handler, event, flush, sweep, clients>>
shutdownVars == <<taskVars, hostVars>>

\* Half seconds of each deadline, and of the process watchdog.
PeriodicJobsStop == 4
\* Mutant: the drain is given ten seconds more and the watchdog is not.
HttpDrain_Long == 40
HttpDrain == 20
RelayClose == 10
CapacityRuntimeClose == 10
McpCloseShadowAwait == 20
SweepJoin == 15
SweepDisconnect == 2
SharedDisconnect == 4
ProcessShutdown == 94

Running == exit = "none"

ShutdownInit ==
    /\ TaskInit
    /\ load \in {"job", "traffic"}
    /\ stage = "serving" /\ spent = 0 /\ exit = "none"
    /\ draining = FALSE
    /\ socket = [b \in Sockets |-> "none"]
    /\ request = [r \in Requests |-> "none"]
    /\ lease = {}
    /\ mcp = [m \in Exchanges |-> "none"]
    /\ gate = FALSE /\ handler = FALSE
    /\ event = [e \in Events |-> "none"]
    /\ flush = "none"
    /\ sweep = "idle"
    /\ clients = "open"

(***************************************************************************)
(* What the process serves.                                                *)
(***************************************************************************)
\* A finished upgrade, request, exchange or event frees its slot for another.
\* The upgrade passes the middleware's drain check.
UpgradeChecked(b) ==
    /\ socket[b] = "none" /\ ~draining
    /\ socket' = [socket EXCEPT ![b] = "upgrading"]
    /\ UNCHANGED <<request, lease, mcp, event, sweep>>

\* admitBrowserConnection registers the socket and checks the flag again.
SocketOpens(b) ==
    /\ socket[b] = "upgrading"
    /\ socket' = [socket EXCEPT ![b] = IF draining THEN "none" ELSE "open"]
    /\ UNCHANGED <<request, lease, mcp, event, sweep>>

BrowserCloses(b) ==
    /\ socket[b] = "open"
    /\ socket' = [socket EXCEPT ![b] = "none"]
    /\ UNCHANGED <<request, lease, mcp, event, sweep>>

\* server.close() is called when the drain begins.
Accepting == stage \in {"serving", "jobs", "browsers"}

RequestArrives(r) ==
    /\ request[r] = "none" /\ Accepting
    /\ request' = [request EXCEPT ![r] = "active"]
    /\ lease' = lease \cup {r}
    /\ UNCHANGED <<socket, mcp, event, sweep>>

RequestEnds(r) ==
    /\ request[r] = "active"
    /\ request' = [request EXCEPT ![r] = "none"]
    /\ lease' = lease \ {r}
    /\ UNCHANGED <<socket, mcp, event, sweep>>

\* gate.admit(): a closed gate admits nothing.
McpAdmitted(m) ==
    /\ mcp[m] = "none" /\ Accepting /\ ~gate
    /\ mcp' = [mcp EXCEPT ![m] = "admitted"]
    /\ UNCHANGED <<socket, request, lease, event, sweep>>

\* The client goes away: the 499 is answered, the continuation runs on.
McpClientAborts(m) ==
    /\ mcp[m] = "admitted"
    /\ mcp' = [mcp EXCEPT ![m] = "stray"]
    /\ UNCHANGED <<socket, request, lease, event, sweep>>

\* The admitted promise settles, and the permit is released.
McpSettles(m) ==
    /\ mcp[m] \in {"admitted", "stray"}
    /\ mcp' = [mcp EXCEPT ![m] = "none"]
    /\ UNCHANGED <<socket, request, lease, event, sweep>>

EventRecorded(e) ==
    /\ event[e] = "none"
    /\ event' = [event EXCEPT ![e] = IF flush = "done" THEN "late" ELSE "queued"]
    /\ UNCHANGED <<socket, request, lease, mcp, sweep>>

\* writeBatches: a batch is written, or the armed fence drops the queue.
Queued == {e \in Events : event[e] \in {"queued", "late"}}
Writing == {e \in Events : event[e] = "writing"}

BatchTaken ==
    /\ Queued # {} /\ Writing = {}
    /\ event' = [e \in Events |->
                    CASE e \notin Queued -> event[e]
                      [] e \in Queued /\ ~gate -> "writing"
                      [] event[e] = "queued" /\ gate -> "fenced"
                      [] event[e] = "late" /\ gate -> "none"]
    /\ UNCHANGED <<socket, request, lease, mcp, sweep>>

\* The batch is written, or its write failed and it is dropped.
BatchEnds ==
    /\ Writing # {}
    /\ event' = [e \in Events |-> IF e \in Writing THEN "none" ELSE event[e]]
    /\ UNCHANGED <<socket, request, lease, mcp, sweep>>

\* The sweep's interval is cleared, and its stop flag set, by the first step.
TickBegins ==
    /\ sweep = "idle" /\ stage = "serving"
    /\ sweep' = "running"
    /\ UNCHANGED <<socket, request, lease, mcp, event>>

TickEnds ==
    /\ sweep = "running"
    /\ sweep' = "idle"
    /\ UNCHANGED <<socket, request, lease, mcp, event>>

Serve ==
    /\ Running /\ load = "traffic"
    /\ \/ \E b \in Sockets : UpgradeChecked(b) \/ SocketOpens(b) \/ BrowserCloses(b)
       \/ \E r \in Requests : RequestArrives(r) \/ RequestEnds(r)
       \/ \E m \in Exchanges : McpAdmitted(m) \/ McpClientAborts(m) \/ McpSettles(m)
       \/ \E e \in Events : EventRecorded(e)
       \/ BatchTaken \/ BatchEnds \/ TickBegins \/ TickEnds
    /\ UNCHANGED <<taskVars, load, stage, spent, exit, draining, gate, handler, flush, clients>>

TaskStep ==
    /\ Running
    /\ (load = "job" /\ TaskCalls) \/ TaskWork
    /\ UNCHANGED hostVars

(***************************************************************************)
(* The sequence.  Each step runs what it does synchronously when it is     *)
(* entered, and is left when its work is done or its deadline passes.      *)
(***************************************************************************)
Enter(s, cost) == stage' = s /\ spent' = spent + cost

\* shutdown(signal): the stops of every periodic job, in one synchronous turn.
Signal ==
    /\ stage = "serving" /\ Running
    /\ Enter("jobs", 0)
    /\ Stop
    /\ UNCHANGED <<load, exit, draining, socket, request, lease, mcp, gate, handler, event,
                   flush, sweep, clients>>

\* Promise.all of the joins, or the deadline.
JobsStopped ==
    /\ stage = "jobs" /\ Running
    /\ \/ wait[Stopper] = "settled" /\ Enter("browsers", 0)
       \/ wait[Stopper] # "settled" /\ Enter("browsers", PeriodicJobsStop)
    /\ UNCHANGED <<taskVars, load, exit, draining, socket, request, lease, mcp, gate, handler,
                   event, flush, sweep, clients>>

\* closeBrowserSockets: the drain flag and closeAll() in one turn; then the
\* drain begins (beginDrain again, and server.close).
BrowsersClosed ==
    /\ stage = "browsers" /\ Running
    /\ draining' = TRUE
    /\ socket' = [b \in Sockets |-> IF socket[b] = "open" THEN "none" ELSE socket[b]]
    /\ Enter("drain", 0)
    /\ UNCHANGED <<taskVars, load, exit, request, lease, mcp, gate, handler, event, flush,
                   sweep, clients>>

ActiveRequests == {r \in Requests : request[r] = "active"}
OpenExchanges == {m \in Exchanges : mcp[m] = "admitted"}

\* server.close's callback: no connection is left.
HttpClosed ==
    /\ ActiveRequests = {} /\ OpenExchanges = {}
    /\ \A b \in Sockets : socket[b] # "open"

\* Drained, or every lingering connection is forced closed at the deadline:
\* the requests' handlers run on without a client.
Drained ==
    /\ stage = "drain" /\ Running
    /\ \/ HttpClosed /\ Enter("relay", 0) /\ UNCHANGED <<socket, mcp>>
       \/ /\ ~HttpClosed /\ Enter("relay", HttpDrain)
          /\ socket' = [b \in Sockets |-> IF socket[b] = "open" THEN "none" ELSE socket[b]]
          /\ mcp' = [m \in Exchanges |-> IF mcp[m] = "admitted" THEN "stray" ELSE mcp[m]]
    /\ UNCHANGED <<taskVars, load, exit, draining, request, lease, gate, handler, event, flush,
                   sweep, clients>>

\* closeRelaySessions, then the audit writer is flushed.
FlushBegins ==
    /\ stage = "relay" /\ flush = "none" /\ Running
    /\ flush' = "waiting"
    /\ UNCHANGED <<taskVars, load, stage, spent, exit, draining, socket, request, lease, mcp,
                   gate, handler, event, sweep, clients>>

FlushEnds ==
    /\ flush = "waiting" /\ Queued = {} /\ Writing = {} /\ Running
    /\ flush' = "done"
    /\ UNCHANGED <<taskVars, load, stage, spent, exit, draining, socket, request, lease, mcp,
                   gate, handler, event, sweep, clients>>

\* Mutant: the flush is started and not awaited.
RelayClosed_Unflushed ==
    /\ stage = "relay" /\ flush # "none" /\ Running
    /\ Enter("runtimes", 0)
    /\ UNCHANGED <<taskVars, load, exit, draining, socket, request, lease, mcp, gate, handler,
                   event, flush, sweep, clients>>

RelayClosed ==
    /\ stage = "relay" /\ Running
    /\ \/ flush = "done" /\ Enter("runtimes", 0)
       \/ flush = "waiting" /\ Enter("runtimes", RelayClose)
    /\ UNCHANGED <<taskVars, load, exit, draining, socket, request, lease, mcp, gate, handler,
                   event, flush, sweep, clients>>

\* closeCapacityRuntimes: every owner is aborted at once, its release may hang.
LeaseReleased(r) ==
    /\ stage \in {"runtimes", "mcp", "database"} /\ r \in lease /\ Running
    /\ lease' = lease \ {r}
    /\ UNCHANGED <<taskVars, load, stage, spent, exit, draining, socket, request, mcp, gate,
                   handler, event, flush, sweep, clients>>

\* The gate's close: the fence is armed, then every exchange is aborted.
CloseGate ==
    /\ gate' = TRUE
    /\ mcp' = [m \in Exchanges |-> IF mcp[m] = "admitted" THEN "stray" ELSE mcp[m]]

RuntimesClosed ==
    /\ stage = "runtimes" /\ Running
    /\ \/ lease = {} /\ Enter("mcp", 0)
       \/ lease # {} /\ Enter("mcp", CapacityRuntimeClose)
    /\ CloseGate
    /\ UNCHANGED <<taskVars, load, exit, draining, socket, request, lease, handler, event, flush,
                   sweep, clients>>

HandlerCloses ==
    /\ stage = "mcp" /\ ~handler /\ Running
    /\ handler' = TRUE
    /\ UNCHANGED <<taskVars, load, stage, spent, exit, draining, socket, request, lease, mcp,
                   gate, event, flush, sweep, clients>>

\* The gate's close resolves once every exchange released its permit, or the
\* shadow-await cap released the last of them; mcpHandler.close() has no bound.
Strays == {m \in Exchanges : mcp[m] = "stray"}

McpClosed ==
    /\ stage = "mcp" /\ handler /\ Running
    /\ \/ Strays = {} /\ Enter("database", 0) /\ UNCHANGED mcp
       \/ /\ Strays # {} /\ Enter("database", McpCloseShadowAwait)
          /\ mcp' = [m \in Exchanges |-> IF m \in Strays THEN "none" ELSE mcp[m]]
    /\ UNCHANGED <<taskVars, load, exit, draining, socket, request, lease, gate, handler, event,
                   flush, sweep, clients>>

\* disconnectDatabaseClients: the sweep is joined, or quarantined past the
\* deadline (its tick fails at once), then both clients disconnect.
SweepJoined ==
    /\ stage = "database" /\ clients = "open" /\ Running
    /\ clients' = "joined"
    /\ sweep' = "idle"
    /\ spent' = spent + (IF sweep = "idle" THEN 0 ELSE SweepJoin)
    /\ UNCHANGED <<taskVars, load, stage, exit, draining, socket, request, lease, mcp, gate,
                   handler, event, flush>>

SweepDisconnected ==
    /\ stage = "database" /\ clients = "joined" /\ Running
    /\ clients' = "sweep_closed"
    /\ spent' \in {spent, spent + SweepDisconnect}
    /\ UNCHANGED <<taskVars, load, stage, exit, draining, socket, request, lease, mcp, gate,
                   handler, event, flush, sweep>>

SharedDisconnected ==
    /\ stage = "database" /\ clients = "sweep_closed" /\ Running
    /\ clients' = "closed"
    /\ stage' = "done"
    /\ spent' \in {spent, spent + SharedDisconnect}
    /\ UNCHANGED <<taskVars, load, exit, draining, socket, request, lease, mcp, gate, handler,
                   event, flush, sweep>>

ExitNormally ==
    /\ stage = "done" /\ Running
    /\ exit' = "0"
    /\ UNCHANGED <<taskVars, load, stage, spent, draining, socket, request, lease, mcp, gate,
                   handler, event, flush, sweep, clients>>

\* The watchdog's deadline: reached by what was spent, or by a wait without bound.
WatchdogDue == spent >= ProcessShutdown \/ (stage = "mcp" /\ ~handler)

\* Mutant: the watchdog is cleared once the drain is over.
WatchdogExits_Cleared ==
    /\ stage \in {"jobs", "browsers", "drain"} /\ WatchdogDue /\ Running
    /\ exit' = "1"
    /\ UNCHANGED <<taskVars, load, stage, spent, draining, socket, request, lease, mcp, gate,
                   handler, event, flush, sweep, clients>>

WatchdogExits ==
    /\ stage # "serving" /\ WatchdogDue /\ Running
    /\ exit' = "1"
    /\ UNCHANGED <<taskVars, load, stage, spent, draining, socket, request, lease, mcp, gate,
                   handler, event, flush, sweep, clients>>

Sequence ==
    \/ JobsStopped \/ BrowsersClosed \/ Drained \/ FlushBegins \/ FlushEnds \/ RelayClosed
    \/ RuntimesClosed \/ McpClosed \/ SweepJoined \/ SweepDisconnected
    \/ SharedDisconnected \/ ExitNormally

ShutdownNext ==
    \/ Serve \/ TaskStep \/ Signal \/ Sequence \/ WatchdogExits
    \/ \E r \in Requests : LeaseReleased(r)
    \/ HandlerCloses

\* The event loop runs the sequence's own continuations and the timers: a pass,
\* a request, a tick, a flush or a handler that hangs is not assumed to end.
ShutdownSpec ==
    /\ ShutdownInit /\ [][ShutdownNext]_shutdownVars
    /\ WF_shutdownVars(Sequence)
    /\ WF_shutdownVars(WatchdogExits)

(***************************************************************************)
(* Properties.                                                             *)
(***************************************************************************)
\* A promise of trigger() resolves, and a runOnce() settles, only after a pass
\* that started after the call, unless the task was stopped or drops triggers
\* that land in a pass.
PassAfterCall ==
    /\ \A c \in Callers :
         wait[c] = "settled" =>
            passes > asked[c] \/ phase = "stopped" \/ opts.overlap = "drop"
    /\ \A p \in Probes : probe[p].state = "settled" => probe[p].by > probe[p].after

\* No promise the task handed out is stranded: while a runOnce() waits a pass
\* runs or is scheduled, and the holders of a busy promise wait for one whose end
\* closes it, however triggers, probes, the gap and stop() overtook each other.
NoPromiseStranded ==
    /\ Pending # {} => inPass \/ phase = "scheduled"
    /\ (\E h \in Holders : wait[h] = "waiting") => busy /\ (inPass \/ phase = "scheduled")

\* A shutdown in which no deadline ran out leaves nothing behind: no browser
\* socket of an upgrade that was under way, no lease, no exchange, no pass, no
\* tick, and no audit event recorded before its flush that the fence dropped.
CleanExit ==
    exit = "0" /\ spent = 0 =>
        /\ \A b \in Sockets : socket[b] # "open"
        /\ lease = {} /\ Strays = {} /\ OpenExchanges = {} /\ sweep = "idle"
        /\ inPass => Pending # {}
        /\ \A e \in Events : event[e] # "fenced"

\* Status 1 is only for a wait without a bound: the deadlines together always
\* leave the sequence time to exit with status 0.
WatchdogOnlyForTheUnbounded == exit = "1" => stage = "mcp" /\ ~handler

\* Every shutdown ends the process, whatever hangs.
EveryShutdownExits == stage # "serving" ~> ~Running
=============================================================================
