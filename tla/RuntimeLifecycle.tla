-------------------------- MODULE RuntimeLifecycle --------------------------
(***************************************************************************)
(* The runtime lifecycle: how the server starts, stops and restarts one    *)
(* rank of an inference server on a node, and when it may hand the rank's  *)
(* ports and memory (its claim) to somebody else.                          *)
(*                                                                         *)
(* Four parties: the engine, whose every write is one transaction under    *)
(* the instance's fences (`db`); the relay session of the node, which      *)
(* makes the last check at the socket (`sess`, `sending`); the session     *)
(* hooks, which return what a lost session held (`hooks`); and the node's  *)
(* runner with its record on disk and its processes (`node`).              *)
(* A sent job is admitted by the node at once: until it is, only the loss  *)
(* of the connection can tell, which a job sent into a dropped connection  *)
(* shows.  Results are handled concurrently, so they apply in any order    *)
(* (`up`); an inventory supersedes the one before it (`inv`).              *)
(*                                                                         *)
(* One instance of one rank, START and READINESS as its start phases, no   *)
(* interactive step, no health probe, and every launch guard ends within   *)
(* the wait for it.                                                        *)
(***************************************************************************)
EXTENDS Naturals, Sequences, FiniteSets

CONSTANTS
    MaxRun,         \* runs the model begins (bound)
    StopAttempts,   \* STOP_ATTEMPTS: failed gang stops before the status probe
    Probes,         \* status probes of one run (bound)
    RestartBudget,  \* automatic restarts of the window
    Ports, NoPort,  \* ports the planner may pick; none
    MaxEvents,      \* faults, stops people ask for and restarts (bound)
    Dispatchers     \* jobs claimed and not yet sent at a time (bound)

ASSUME LifecycleAssumption ==
    /\ MaxRun \in Nat \ {0} /\ StopAttempts \in 1..10 /\ Probes \in Nat
    /\ RestartBudget \in Nat /\ MaxEvents \in Nat
    /\ Ports # {} /\ NoPort \notin Ports
    /\ Dispatchers \in Nat \ {0}

VARIABLES
    db,       \* the instance, its rank, its steps and the node row
    sess,     \* the live session: its connection generation and run deliveries
    sending,  \* jobs claimed and not yet handed to the socket
    hooks,    \* session hooks still returning steps
    up,       \* results on their way to the engine
    inv,      \* the inventory on its way to the engine, if any
    node,     \* the node: connection, processes, runner, record
    waived,   \* runs whose hold a person released without proof (history)
    events    \* faults, people's stops and restarts so far (bound)

vars == <<db, sess, sending, hooks, up, inv, node, waived, events>>

(***************************************************************************)
(* Steps: <<run, slot>>.  A run's leading stop comes first, then its start *)
(* phases, its gang stops, its status probes.                              *)
(***************************************************************************)
Runs == 1..MaxRun
Steps == Runs \X ({0, 20, 40} \union 50..(50 + StopAttempts) \union 70..(69 + Probes))
NoStep == <<0, 0>>

Before(s, t) == s[1] < t[1] \/ (s[1] = t[1] /\ s[2] < t[2])

Leading(s) == s[2] = 0
Starting(s) == s[2] \in {20, 40}
Launching(s) == s[2] = 20
Gang(s) == s[2] \in 50..69
Probe(s) == s[2] >= 70
Stopping(s) == Leading(s) \/ Gang(s)

Live == {"PENDING", "RUNNING"}
Fresh == [st |-> "PENDING", ep |-> 0, tried |-> FALSE, may |-> FALSE, refused |-> FALSE]
NoRow == [Fresh EXCEPT !.st = "none"]
NoRecord == [phase |-> "none", pending |-> NoStep, done |-> {}, launched |-> FALSE,
             seen |-> NoStep]

Larger(a, b) == IF a > b THEN a ELSE b

Put(d, s, row) == [d EXCEPT !.step[s] = row]
Insert(d, S) == [d EXCEPT !.step = [s \in Steps |-> IF s \in S THEN Fresh ELSE @[s]]]

(***************************************************************************)
(* What the steps prove.                                                   *)
(***************************************************************************)
\* Dispatched at least once.
Tried(d, s) == d.step[s].tried \/ d.step[s].st = "RUNNING"

\* Its answer proves it never ran, and no earlier dispatch of it may have.
Refused(d, s) == d.step[s].refused /\ ~d.step[s].may

LaunchedAfter(d, n) ==
    \E s \in Steps : Starting(s) /\ s[1] > n /\ Tried(d, s) /\ ~Refused(d, s)

\* Every launch so far is proven stopped: the claim was released with proof.
LaunchesEnded(d) == d.claim = "RELEASED" /\ ~d.unproven

\* A start of an earlier run was sent and has not answered.
StartsUnresolved(d, before) ==
    /\ ~LaunchesEnded(d)
    /\ \E s \in Steps :
          /\ Starting(s) /\ d.through < s[1] /\ s[1] < before
          /\ \/ d.step[s].st = "RUNNING"
             \/ d.step[s].st = "PENDING" /\ d.step[s].tried

\* Nothing of the run was launched after step s.
FreshStep(d, s) ==
    \/ s[2] >= 50
    \/ \A l \in Steps : Starting(l) /\ l[1] = d.run /\ Tried(d, l) => l[2] <= s[2]

Owned(d, s) == s[1] = d.run

\* The node's stopped answer (idle as it said) proves this run's rank stopped.
ProofHolds(d, s, result, idle) ==
    /\ result =>
          /\ Stopping(s) \/ Probe(s)
          /\ d.step[s].st = "SUCCEEDED"
          /\ Leading(s) => d.claim = "HELD_UNKNOWN"
          /\ Probe(s) => d.claim = "HELD_UNKNOWN" \/ d.phase = "STOPPING"
    /\ idle
    /\ Owned(d, s)
    /\ FreshStep(d, s)

NeverRan(d) == ~LaunchedAfter(d, d.through)

Release(d, proven) ==
    IF d.claim # "RELEASED" /\ proven
    THEN [d EXCEPT !.claim = "RELEASED", !.prev = 0, !.prevPort = NoPort]
    ELSE d

(***************************************************************************)
(* The engine's writes, as functions of the tables.                        *)
(***************************************************************************)
\* Pending steps end: never sent is CANCELLED, sent before is FAILED.
EndPending(d, S) ==
    [d EXCEPT !.step = [s \in Steps |->
        IF s \in S /\ d.step[s].st = "PENDING"
        THEN [d.step[s] EXCEPT !.st = IF d.step[s].tried THEN "FAILED" ELSE "CANCELLED"]
        ELSE d.step[s]]]

SettleStopped(d) ==
    LET e == EndPending(d, {s \in Steps : Stopping(s)})
    IN  IF d.desired # "RUNNING" THEN [e EXCEPT !.phase = "STOPPED", !.due = FALSE]
        ELSE IF d.used >= RestartBudget THEN [e EXCEPT !.phase = "FAILED", !.due = FALSE]
        ELSE [e EXCEPT !.phase = "STOPPED", !.due = TRUE]

Starts == {s \in Steps : Starting(s)}
Gangs == {s \in Steps : Gang(s)}
StatusProbes == {s \in Steps : Probe(s)}

\* The run's rows among the steps S.
OfRun(d, S) == {s \in S : s[1] = d.run /\ d.step[s].st # "none"}

\* The next free slot of the run, while the bound leaves one.
NextOf(d, S) ==
    {s \in S : /\ s[1] = d.run /\ d.step[s].st = "none"
               /\ \A t \in S : t[1] = d.run /\ t[2] < s[2] => d.step[t].st # "none"}

\* Mutant: only a rank marked stopped is probed.
StopOrProbe_NoProbe(d, online) ==
    LET stops == OfRun(d, Gangs)
        failed == {s \in stops : d.step[s].st = "FAILED"}
    IN  IF d.claim # "HELD" \/ \E s \in stops : d.step[s].st \in Live THEN d
        ELSE IF Cardinality(failed) < StopAttempts THEN Insert(d, NextOf(d, Gangs))
        ELSE d

\* A held rank that may have run gets a gang stop; once its stops failed, a status probe.
StopOrProbe(d, online) ==
    LET stops == OfRun(d, Gangs)
        failed == {s \in stops : d.step[s].st = "FAILED"}
    IN  IF d.claim # "HELD" \/ \E s \in stops : d.step[s].st \in Live THEN d
        ELSE IF Cardinality(failed) < StopAttempts THEN Insert(d, NextOf(d, Gangs))
        ELSE IF online /\ \A s \in OfRun(d, StatusProbes) : d.step[s].st \notin Live
             THEN Insert(d, NextOf(d, StatusProbes))
             ELSE d

SettleStopping(d, online) ==
    LET e == EndPending(d, {s \in Steps : Starting(s)})
        f == StopOrProbe(Release(e, NeverRan(e)), online)
    IN  IF f.claim # "HELD" THEN SettleStopped(f) ELSE f

GangStop(d, online) ==
    SettleStopping([d EXCEPT !.phase = "STOPPING", !.due = FALSE], online)

\* A new run: a leading stop unless it is the first or everything before is proven ended.
CreateGeneration(d) ==
    LET r == d.run
        ended == ~LaunchedAfter(d, d.through) /\ d.through > 0 /\ ~StartsUnresolved(d, r)
        e == Insert(d, {<<r, 20>>, <<r, 40>>} \union IF r > 1 THEN {<<r, 0>>} ELSE {})
    IN  IF r > 1 /\ ended
        THEN [Put(e, <<r, 0>>, [Fresh EXCEPT !.st = "SUCCEEDED"])
                 EXCEPT !.through = Larger(@, r - 1)]
        ELSE e

Prepared(d) == \E s \in Steps : s[1] = d.run /\ Starting(s) /\ d.step[s].st # "none"

Dispatched(d) ==
    LET R == {s[1] : s \in {t \in Steps : Starting(t) /\ Tried(d, t)}}
    IN  IF R = {} THEN 0 ELSE CHOOSE r \in R : \A q \in R : q <= r

\* The current claim was dispatched since it was planned: it may be in use.
ClaimUsed(d) == Dispatched(d) > d.planned

\* The claim a new run replaces stays held as the previous one while it may be in use.
KeepPrevious(d, p) ==
    LET released == d.claim = "RELEASED"
        changed == p # d.port
        moves == ~released /\ changed /\ ClaimUsed(d)
    IN  [d EXCEPT !.prev = IF released THEN 0 ELSE IF moves THEN d.run ELSE @,
                  !.prevPort = IF released THEN NoPort ELSE IF moves THEN d.port ELSE @,
                  !.planned = IF changed \/ released THEN d.run ELSE @,
                  !.through = IF LaunchesEnded(d) THEN Larger(@, d.run) ELSE @]

Retake(d, p) ==
    [KeepPrevious(d, p) EXCEPT
        !.run = @ + 1, !.port = p, !.ports[d.run + 1] = p,
        !.claim = "HELD", !.unproven = FALSE, !.phase = "STARTING", !.due = FALSE]

\* Mutant: a leading stop proves its own run ended too.
AfterStop_OwnRun(d, s, ok, idle, online) ==
    LET e == IF ok /\ Leading(s)
             THEN IF idle THEN [d EXCEPT !.through = Larger(@, s[1])]
                  ELSE Put(d, s, [d.step[s] EXCEPT !.st = "PENDING", !.tried = TRUE])
             ELSE d
        f == IF ok THEN Release(e, ProofHolds(e, s, TRUE, idle)) ELSE e
    IN  IF ~ok /\ Owned(d, s) /\ Leading(s) /\ d.phase = "STARTING" THEN GangStop(f, online)
        ELSE IF d.phase = "STOPPING" THEN SettleStopping(f, online)
        ELSE f

\* What a finished step means for its instance.
AfterStop(d, s, ok, idle, online) ==
    LET e == IF ok /\ Leading(s)
             THEN IF idle THEN [d EXCEPT !.through = Larger(@, s[1] - 1)]
                  ELSE Put(d, s, [d.step[s] EXCEPT !.st = "PENDING", !.tried = TRUE])
             ELSE d
        f == IF ok THEN Release(e, ProofHolds(e, s, TRUE, idle)) ELSE e
    IN  IF ~ok /\ Owned(d, s) /\ Leading(s) /\ d.phase = "STARTING" THEN GangStop(f, online)
        ELSE IF d.phase = "STOPPING" THEN SettleStopping(f, online)
        ELSE f

AfterStart(d, s, ok, online) ==
    IF ~Owned(d, s) \/ d.phase # "STARTING" \/ d.desired # "RUNNING" THEN d
    ELSE IF ~ok THEN GangStop(d, online)
    ELSE IF s[2] = 40 /\ \A t \in OfRun(d, Starts) : d.step[t].st = "SUCCEEDED"
         THEN [d EXCEPT !.phase = "READY"]
         ELSE d

\* The step's answer and what follows from it, in one write.  (Whether a finished stop or
\* probe was tried matters to nobody.)
Finish(d, s, ok, refused, idle, online) ==
    LET e == Put(d, s, [st |-> IF ok THEN "SUCCEEDED" ELSE "FAILED", ep |-> 0,
                        tried |-> Starting(s), may |-> d.step[s].may,
                        refused |-> Starting(s) /\ refused])
    IN  IF Starting(s) THEN AfterStart(e, s, ok, online) ELSE AfterStop(e, s, ok, idle, online)

Online == sess.gen # 0

(***************************************************************************)
(* The engine's tick and people's calls.                                   *)
(***************************************************************************)
\* A fault or a person's call, out of one budget.
Fault == events < MaxEvents /\ events' = events + 1
NoFault == UNCHANGED events

Write(d) == db' = d /\ d # db
Quiet == UNCHANGED <<sess, sending, hooks, up, inv, node, waived>>

PrepareStart ==
    /\ db.phase = "STARTING" /\ db.desired = "RUNNING" /\ ~Prepared(db)
    /\ Write(CreateGeneration(db))
    /\ Quiet /\ NoFault

Reconcile ==
    /\ db.phase = "STOPPING"
    /\ Write(SettleStopping(db, Online))
    /\ Quiet /\ NoFault

\* An automatic restart waits while a step of the old run is still out.
RestartDue(p) ==
    /\ db.phase = "STOPPED" /\ db.desired = "RUNNING" /\ db.due
    /\ \A s \in Steps : db.step[s].st # "RUNNING"
    /\ db.run < MaxRun
    /\ Write(CreateGeneration([Retake(db, p) EXCEPT !.used = @ + 1]))
    /\ Quiet /\ Fault

WatchInstance ==
    /\ db.desired = "RUNNING"
    /\ \/ /\ ~Online /\ db.phase \in {"STARTING", "READY"}
          /\ Write([db EXCEPT !.phase = "UNAVAILABLE"])
       \/ /\ Online /\ db.phase = "UNAVAILABLE"
          /\ Write([db EXCEPT !.phase =
                       IF db.step[<<db.run, 40>>].st = "SUCCEEDED" THEN "READY" ELSE "STARTING"])
    /\ Quiet /\ NoFault

\* A claim marked stopped: released if nothing launched since the last proof, else probed.
ProbeHeldRank ==
    /\ db.claim = "HELD_UNKNOWN" /\ Online
    /\ Write(IF NeverRan(db) THEN Release(db, TRUE)
             ELSE IF \E s \in OfRun(db, StatusProbes) : db.step[s].st \in Live THEN db
             ELSE Insert(db, NextOf(db, StatusProbes)))
    /\ Quiet /\ NoFault

Asked == UNCHANGED <<sess, sending, hooks, up, inv, node>>

StopCall ==
    /\ Fault /\ db.desired = "RUNNING"
    /\ db' = [db EXCEPT !.phase = "STOPPING", !.desired = "STOPPED", !.due = FALSE]
    /\ Asked /\ UNCHANGED waived

RestartCall(p) ==
    /\ Fault /\ db.run < MaxRun
    /\ db' = [Retake(db, p) EXCEPT !.desired = "RUNNING", !.used = 0]
    /\ Asked /\ UNCHANGED waived

MarkStopped ==
    /\ Fault /\ db.phase = "STOPPING" /\ db.claim = "HELD"
    /\ db' = [EndPending(db, {s \in Steps : Stopping(s) /\ ~db.step[s].tried})
                 EXCEPT !.claim = "HELD_UNKNOWN"]
    /\ Asked /\ UNCHANGED waived

ReleaseUnproven ==
    /\ NoFault /\ db.claim = "HELD_UNKNOWN"
    /\ db' = [db EXCEPT !.claim = "RELEASED", !.unproven = TRUE, !.prev = 0,
                        !.prevPort = NoPort]
    /\ waived' = waived \union 1..db.run
    /\ Asked

(***************************************************************************)
(* Dispatch: a step is claimed in a write, then its job is sent outside it.*)
(***************************************************************************)
ProbeWanted == db.claim = "HELD_UNKNOWN" \/ (db.claim = "HELD" /\ db.phase = "STOPPING")

\* The run gate, and stops and probes whose claim needs none any more.
Unwanted(s) ==
    \/ ~Owned(db, s)
    \/ Stopping(s) /\ db.claim = "RELEASED"
    \/ Probe(s) /\ ~ProbeWanted

\* Pages go out in sequence order.
EndUnwanted(s) ==
    /\ Online /\ db.step[s].st = "PENDING" /\ Unwanted(s)
    /\ \A t \in Steps : db.step[t].st = "PENDING" /\ Unwanted(t) => ~Before(t, s)
    /\ Write(EndPending(db, {s}))
    /\ Quiet /\ NoFault

Claimable(s) ==
    /\ db.step[s].st = "PENDING" /\ ~Unwanted(s)
    /\ db.gen = sess.gen
    /\ Starting(s) => /\ db.desired = "RUNNING" /\ db.phase = "STARTING"
                      /\ db.claim = "HELD"
                      /\ \A t \in Steps : t[1] = s[1] /\ t[2] < s[2]
                                             => db.step[t].st \in {"SUCCEEDED", "none"}
    /\ Leading(s) => ~StartsUnresolved(db, s[1])

\* Mutant: the claims kept for earlier runs are not dropped at a start.
ClaimStep_KeepsPrevious(s) ==
    /\ Online /\ Cardinality(sending) < Dispatchers /\ Claimable(s)
    /\ db' = Put(db, s, [db.step[s] EXCEPT !.st = "RUNNING", !.ep = sess.gen,
                                        !.may = @ \/ (Starting(s) /\ db.step[s].tried)])
    /\ sending' = sending \union {[id |-> s, ep |-> sess.gen]}
    /\ UNCHANGED <<sess, hooks, up, inv, node, waived>> /\ NoFault

\* A START's leading stop succeeded: the claims a restart kept for earlier runs go.
ClaimStep(s) ==
    /\ Online /\ Cardinality(sending) < Dispatchers /\ Claimable(s)
    /\ LET drop == Starting(s) /\ db.prev < s[1]
       IN  db' = [Put(db, s, [db.step[s] EXCEPT !.st = "RUNNING", !.ep = sess.gen,
                                            !.may = @ \/ (Starting(s) /\ db.step[s].tried)])
                 EXCEPT !.prev = IF drop THEN 0 ELSE @,
                        !.prevPort = IF drop THEN NoPort ELSE @]
    /\ sending' = sending \union {[id |-> s, ep |-> sess.gen]}
    /\ UNCHANGED <<sess, hooks, up, inv, node, waived>> /\ NoFault

\* The runs a sent job ends at the socket.
StartsEndedBy(s) == IF Leading(s) THEN s[1] - 1 ELSE s[1]

\* A job the rank's runs already sent here make stale.
StaleRunJob(s) ==
    \/ s[1] < sess.started
    \/ Starting(s) /\ s[1] <= sess.ended

\* The frame did not leave: PENDING again, no attempt counted.
Undeliver(m) ==
    IF db.step[m.id].st = "RUNNING" /\ db.step[m.id].ep = m.ep
    THEN Put(db, m.id, [db.step[m.id] EXCEPT !.st = "PENDING", !.ep = 0])
    ELSE db

(***************************************************************************)
(* The node's runner.  Every step in flight waits for the rank; one at a   *)
(* time holds it.  A stop cancels what is in flight as it is admitted.     *)
(***************************************************************************)
Free == [id |-> NoStep, ok |-> FALSE]

Flight(n, s) == CHOOSE f \in n.flight : f.id = s

\* A delivered job is admitted; the same dispatch already in flight is not run again.
Admitted(n, m) ==
    LET others == {[f EXCEPT !.cancelled = @ \/ Stopping(m.id)] : f \in n.flight}
    IN  IF \E f \in n.flight : f.id = m.id THEN n
        ELSE [n EXCEPT !.flight = others \union
                 {[id |-> m.id, ep |-> m.ep, cancelled |-> FALSE]}]

Result(m, ok, code, idle) ==
    [id |-> m.id, ep |-> m.ep, ok |-> ok, code |-> code, idle |-> idle]

\* The claimed job at the socket: refused there, or sent.  A sent job is admitted by the node,
\* refused before admission, or lost in a connection that is already gone.
Send(m) ==
    /\ sending' = sending \ {m}
    /\ IF sess.gen # m.ep \/ StaleRunJob(m.id)
       THEN db' = Undeliver(m) /\ UNCHANGED <<sess, node, up>> /\ NoFault
       ELSE /\ sess' = IF Starting(m.id) THEN [sess EXCEPT !.started = Larger(@, m.id[1])]
                       ELSE [sess EXCEPT !.ended = Larger(@, StartsEndedBy(m.id))]
            /\ \/ /\ node' = IF node.conn = m.ep THEN Admitted(node, m) ELSE node
                  /\ UNCHANGED up /\ NoFault
               \/ /\ node.conn = m.ep /\ Fault
                  /\ \E code \in {"disconnected", "refused"} :
                        up' = up \union {Result(m, FALSE, code, FALSE)}
                  /\ UNCHANGED node
            /\ UNCHANGED db
    /\ UNCHANGED <<hooks, inv, waived>>

\* No step that may launch is in flight uncancelled.
RankIdle(n) == \A f \in n.flight : Starting(f.id) => f.cancelled

\* What the inventory says of the rank: proven stopped, lost, or served.
Observation(n) ==
    [seen |-> n.rec.seen,
     phase |-> IF n.rec.phase = "stopped" /\ n.alive = {} THEN "stopped"
               ELSE IF n.rec.pending # NoStep \/ ~n.rec.launched \/ n.alive = {} THEN "unknown"
               ELSE "serving",
     idle |-> n.hold = Free /\ RankIdle(n)]

\* An inventory without a record of the rank dates nothing; one that says it serves changes
\* nothing modelled here.  One inventory at a time is on its way (bound).
Reported(n, queue) ==
    IF n.conn = 0 \/ n.rec = NoRecord \/ Observation(n).phase = "serving" \/ queue # {}
    THEN queue
    ELSE {Observation(n)}

\* The step is forgotten, then its result (on its own session only) and an inventory go out.
Answer(n, s, ok, code, idle) ==
    LET f == Flight(n, s)
        m == [n EXCEPT !.flight = @ \ {f}, !.hold = Free]
    IN  /\ node' = m
        /\ up' = IF m.conn = f.ep THEN up \union {Result(f, ok, code, idle)} ELSE up
        /\ inv' = Reported(m, inv)

Complete(n, s) ==
    [n EXCEPT !.rec.done = @ \union {s}, !.rec.pending = NoStep, !.rec.seen = s]

ProvenStopped(n, s) ==
    [Complete(n, s) EXCEPT !.alive = {}, !.rec.launched = FALSE, !.rec.phase = "stopped"]

\* Another step that had effects is unresolved.
Unresolved(n, s) ==
    n.rec.pending \notin {NoStep, s} /\ n.rec.pending[2] # 40 /\ ~Probe(n.rec.pending)

\* A launch that may have happened before the node died is observed, never replayed.
BeginStart(s) ==
    LET n == node IN
    /\ Launching(s)
    /\ IF s \in n.rec.done THEN Answer(n, s, TRUE, "none", FALSE)
       ELSE IF Unresolved(n, s) THEN Answer(n, s, FALSE, "failed", FALSE)
       ELSE IF n.rec.pending = s
            THEN IF s[1] \in n.alive
                 THEN Answer([Complete(n, s) EXCEPT !.rec.launched = TRUE], s, TRUE, "none", FALSE)
                 ELSE Answer(n, s, FALSE, "failed", FALSE)
       ELSE IF n.rec.launched THEN Answer(n, s, FALSE, "failed", FALSE)
       ELSE /\ node' = [n EXCEPT !.hold = [id |-> s, ok |-> n.rec = NoRecord],
                                 !.rec.pending = s, !.rec.phase = "starting",
                                 !.rec.seen = IF @ = NoStep THEN s ELSE @]
            /\ UNCHANGED <<up, inv>>

BeginReadiness(s) ==
    LET n == node IN
    /\ s[2] = 40
    /\ IF s \in n.rec.done THEN Answer(n, s, TRUE, "none", FALSE)
       ELSE IF Unresolved(n, s) \/ n.rec = NoRecord THEN Answer(n, s, FALSE, "failed", FALSE)
       ELSE IF n.rec.launched /\ s[1] \in n.alive
            THEN Answer([Complete(n, s) EXCEPT !.rec.phase = "ready"], s, TRUE, "none", FALSE)
            ELSE Answer([n EXCEPT !.rec.pending = s], s, FALSE, "failed", FALSE)

\* A stop tears the rank down and proves it stopped; one already done is proven afresh.
BeginStop(s) ==
    LET n == node
        keep(m, ok) == node' = [m EXCEPT !.hold = [id |-> s, ok |-> ok]] /\ UNCHANGED <<up, inv>>
    IN  /\ Stopping(s)
        /\ \/ /\ s \in n.rec.done
              /\ keep(n, n.rec.phase = "stopped" /\ n.alive = {}) /\ NoFault
           \/ /\ n.rec = NoRecord
              /\ keep(n, n.alive = {}) /\ NoFault
           \/ /\ s \notin n.rec.done /\ n.rec # NoRecord
              /\ \/ keep(ProvenStopped(n, s), TRUE) /\ NoFault
                 \/ /\ Fault
                    /\ keep([n EXCEPT !.rec.pending = s, !.rec.phase = "stopping"], FALSE)

BeginProbe(s) ==
    LET n == node
        ok == n.alive = {}
        m == IF ok /\ n.rec # NoRecord THEN ProvenStopped(n, s) ELSE n
    IN  /\ Probe(s)
        /\ node' = [m EXCEPT !.hold = [id |-> s, ok |-> ok]]
        /\ UNCHANGED <<up, inv>>

\* A step takes the rank; a cancelled one answers that its session went away.
TakeRank(s) ==
    /\ node.hold = Free
    /\ \/ Flight(node, s).cancelled /\ Answer(node, s, FALSE, "disconnected", FALSE) /\ NoFault
       \/ ~Flight(node, s).cancelled /\ BeginStart(s) /\ NoFault
       \/ ~Flight(node, s).cancelled /\ BeginReadiness(s) /\ NoFault
       \/ ~Flight(node, s).cancelled /\ BeginStop(s)
       \/ ~Flight(node, s).cancelled /\ BeginProbe(s) /\ NoFault
    /\ UNCHANGED <<db, sess, sending, hooks, waived>>

\* The intent is on disk; the launch follows unless a stop cancelled it meanwhile.
Launch ==
    LET s == node.hold.id
        n == node
        live == [n EXCEPT !.alive = @ \union {s[1]}]
    IN  /\ Launching(s)
        /\ \/ /\ Flight(n, s).cancelled /\ NoFault
              /\ Answer(IF n.hold.ok THEN [n EXCEPT !.rec = NoRecord] ELSE n,
                        s, FALSE, "disconnected", FALSE)
           \/ /\ ~Flight(n, s).cancelled /\ NoFault
              /\ Answer([Complete(live, s) EXCEPT !.rec.launched = TRUE], s, TRUE, "none", FALSE)
           \/ /\ ~Flight(n, s).cancelled /\ Fault
              /\ \E m \in {n, live} : Answer(m, s, FALSE, "failed", FALSE)
        /\ UNCHANGED <<db, sess, sending, hooks, waived>>

\* The in-flight check comes after the proof, before the rank is let go.
CheckIdle ==
    LET s == node.hold.id IN
    /\ node.hold # Free /\ ~Starting(s)
    /\ Answer(node, s, node.hold.ok, IF node.hold.ok THEN "none" ELSE "failed", RankIdle(node))
    /\ UNCHANGED <<db, sess, sending, hooks, waived>> /\ NoFault

\* A step other than a stop waits for the rank only until its own deadline.
WaitsOut(s) ==
    /\ node.hold # Free /\ node.hold.id # s /\ ~Stopping(s) /\ Fault
    /\ LET f == Flight(node, s)
       IN  /\ node' = [node EXCEPT !.flight = @ \ {f}]
           /\ up' = IF node.conn = f.ep THEN up \union {Result(f, FALSE, "failed", FALSE)} ELSE up
           /\ inv' = Reported(node', inv)
    /\ UNCHANGED <<db, sess, sending, hooks, waived>>

ProcessDies ==
    /\ node.alive # {} /\ Fault
    /\ node' = [node EXCEPT !.alive = {}]
    /\ inv' = Reported(node', inv)
    /\ UNCHANGED <<db, sess, sending, hooks, up, waived>>

(***************************************************************************)
(* What the engine does with answers.                                      *)
(***************************************************************************)
Applied == UNCHANGED <<sending, hooks, node, waived>> /\ NoFault

\* A start the node never admitted is sent again without counting the attempt.
ApplyJobResult(m) ==
    /\ up' = up \ {m}
    /\ LET row == db.step[m.id]
       IN  db' = IF row.st # "RUNNING" \/ row.ep # m.ep THEN db
                 ELSE IF ~m.ok /\ Starting(m.id) /\ m.code = "disconnected"
                 THEN Put(db, m.id, [row EXCEPT !.st = "PENDING", !.ep = 0])
                 ELSE Finish(db, m.id, m.ok, m.code \in {"refused", "disconnected"}, m.idle, Online)
    /\ Applied /\ UNCHANGED <<sess, inv>>

\* A dated inventory: the stop's proof, or a serving run that is gone.
FenceRunStarts(r) == [sess EXCEPT !.ended = IF Online THEN Larger(@, r) ELSE @]

RuntimeInventory(o) ==
    /\ inv' = inv \ {o}
    /\ LET dated == db.claim # "RELEASED" /\ Owned(db, o.seen) /\ FreshStep(db, o.seen)
           stopped == o.phase = "stopped" /\ (db.phase = "STOPPING" \/ db.claim = "HELD_UNKNOWN")
           released == Release(db, ProofHolds(db, o.seen, FALSE, o.idle))
           crashed == db.phase = "READY" /\ db.desired = "RUNNING" /\ db.claim = "HELD"
       IN  /\ sess' = IF dated /\ stopped THEN FenceRunStarts(db.run) ELSE sess
           /\ db' = IF dated /\ stopped
                    THEN IF db.phase = "STOPPING" THEN SettleStopping(released, Online) ELSE released
                    ELSE IF dated /\ crashed THEN GangStop(db, Online)
                    ELSE db
    /\ Applied /\ UNCHANGED up

\* Nothing on its way can answer the dispatch any more.
Unanswerable(s) ==
    LET e == db.step[s].ep
    IN  /\ \A m \in sending \union up : m.id # s \/ m.ep # e
        /\ e # node.conn \/ \A f \in node.flight : f.id # s

\* Past its deadline: a step no answer can reach any more, or one whose answer is late.
ExpireStep(s) ==
    /\ db.step[s].st = "RUNNING"
    /\ IF Unanswerable(s) THEN NoFault ELSE Fault
    /\ db' = Finish(db, s, FALSE, FALSE, FALSE, Online)
    /\ Quiet

(***************************************************************************)
(* Sessions, crashes.                                                      *)
(***************************************************************************)
Running(d) == {s \in Steps : d.step[s].st = "RUNNING"}

\* The rows a hook found; each is returned in a write of its own, if it is still there.
Hook(g, lost, rows) == IF rows = {} THEN {} ELSE {[gen |-> g, lost |-> lost, rows |-> rows]}

\* Mutant: a step of a lost session goes back as if its frame had never left.
RequeueLost_Undelivered(h, s) ==
    LET row == db.step[s]
        mine == IF h.lost THEN row.ep = h.gen ELSE row.ep # h.gen
    IN  /\ \A t \in h.rows : ~Before(t, s)
        /\ db' = IF row.st = "RUNNING" /\ mine
                 THEN Put(db, s, [row EXCEPT !.st = "PENDING", !.ep = 0])
                 ELSE db
        /\ hooks' = (hooks \ {h}) \union Hook(h.gen, h.lost, h.rows \ {s})
        /\ UNCHANGED <<sess, sending, up, inv, node, waived>> /\ NoFault

RequeueLost(h, s) ==
    LET row == db.step[s]
        mine == IF h.lost THEN row.ep = h.gen ELSE row.ep # h.gen
    IN  /\ \A t \in h.rows : ~Before(t, s)
        /\ db' = IF row.st = "RUNNING" /\ mine
                 THEN Put(db, s, [row EXCEPT !.st = "PENDING", !.ep = 0,
                                             !.tried = TRUE, !.may = Starting(s)])
                 ELSE db
        /\ hooks' = (hooks \ {h}) \union Hook(h.gen, h.lost, h.rows \ {s})
        /\ UNCHANGED <<sess, sending, up, inv, node, waived>> /\ NoFault

NoSession == [gen |-> 0, started |-> 0, ended |-> 0]

\* What was on its way is lost, unless the server had already begun to handle it.
Lost(keep) ==
    /\ sess' = NoSession
    /\ up' = IF keep THEN up ELSE {}
    /\ inv' = IF keep THEN inv ELSE {}

\* The connection is gone; the server notices later.
Drop ==
    /\ node.conn # 0 /\ Fault
    /\ node' = [node EXCEPT !.conn = 0]
    /\ UNCHANGED <<db, sess, sending, hooks, up, inv, waived>>

Disconnect ==
    /\ Online /\ node.conn = 0
    /\ \E keep \in BOOLEAN : Lost(keep)
    /\ UNCHANGED node /\ NoFault
    /\ hooks' = hooks \union Hook(sess.gen, TRUE, {s \in Running(db) : db.step[s].ep = sess.gen})
    /\ UNCHANGED <<db, sending, waived>>

Connect ==
    /\ ~Online
    /\ db' = [db EXCEPT !.gen = @ + 1]
    /\ sess' = [NoSession EXCEPT !.gen = db.gen + 1]
    /\ node' = [node EXCEPT !.conn = db.gen + 1]
    /\ hooks' = hooks \union Hook(db.gen + 1, FALSE, Running(db))
    /\ inv' = Reported(node', inv)
    /\ UNCHANGED <<sending, up, waived, events>>

ServerCrash ==
    /\ Fault /\ Lost(FALSE)
    /\ sending' = {} /\ hooks' = {}
    /\ node' = [node EXCEPT !.conn = 0]
    /\ UNCHANGED <<db, waived>>

\* A replaced daemon settles a launch it finds pending, once no guard of the old one is left.
Reconciled(n) ==
    LET s == n.rec.pending
    IN  IF s # NoStep /\ Launching(s) /\ s[1] \in n.alive
        THEN [Complete(n, s) EXCEPT !.rec.launched = TRUE]
        ELSE n

NodeCrash ==
    /\ Fault
    /\ LET s == node.hold.id
           launching == IF Launching(s) THEN {s[1]} ELSE {}
       IN  \E A \in SUBSET launching :
              node' = Reconciled([node EXCEPT !.conn = 0, !.flight = {}, !.hold = Free,
                                              !.alive = @ \union A])
    /\ UNCHANGED <<db, sess, sending, hooks, up, inv, waived>>

(***************************************************************************)
(* Specification.                                                          *)
(***************************************************************************)
LifecycleInit ==
    /\ \E p \in Ports :
          db = [desired |-> "RUNNING", phase |-> "STARTING", due |-> FALSE, used |-> 0,
                run |-> 1, claim |-> "HELD", unproven |-> FALSE, through |-> 0,
                port |-> p, ports |-> [r \in Runs |-> IF r = 1 THEN p ELSE NoPort],
                planned |-> 0, prev |-> 0, prevPort |-> NoPort,
                step |-> [s \in Steps |-> NoRow], gen |-> 1]
    /\ sess = [NoSession EXCEPT !.gen = 1]
    /\ sending = {} /\ hooks = {} /\ up = {} /\ inv = {}
    /\ node = [conn |-> 1, alive |-> {}, flight |-> {}, hold |-> Free,
               rec |-> NoRecord]
    /\ waived = {} /\ events = 0

EngineStep ==
    \/ PrepareStart \/ Reconcile \/ WatchInstance \/ ProbeHeldRank
    \/ \E o \in inv : RuntimeInventory(o)
    \/ \E p \in Ports : RestartDue(p)
    \/ \E s \in {t \in Steps : db.step[t].st = "PENDING"} : EndUnwanted(s) \/ ClaimStep(s)
    \/ \E m \in sending : Send(m)
    \/ \E m \in up : ApplyJobResult(m)
    \/ \E h \in hooks : \E s \in h.rows : RequeueLost(h, s)

NodeStep ==
    \/ Disconnect \/ Launch \/ CheckIdle \/ Connect
    \/ \E f \in node.flight : TakeRank(f.id)

PersonStep ==
    \/ StopCall \/ MarkStopped \/ ReleaseUnproven
    \/ \E p \in Ports : RestartCall(p)

FaultStep ==
    \/ ProcessDies \/ Drop \/ ServerCrash \/ NodeCrash
    \/ \E f \in node.flight : WaitsOut(f.id)

LifecycleNext ==
    \/ EngineStep \/ NodeStep \/ PersonStep \/ FaultStep
    \/ \E s \in Steps : ExpireStep(s)

LifecycleSpec == LifecycleInit /\ [][LifecycleNext]_vars

\* What happens without a fault and without a person: the engine's ticks, the deadlines of steps
\* nothing can answer any more, and the node at work and reconnecting.
Progress == EngineStep \/ NodeStep \/ \E s \in Steps : ExpireStep(s) /\ NoFault

\* The tick repeats, the node's runner runs every step it admitted and its relay reconnects.
LifecycleFairness == WF_vars(Progress)

FairLifecycleSpec == LifecycleSpec /\ LifecycleFairness

(***************************************************************************)
(* Properties.                                                             *)
(***************************************************************************)
\* Runs with a process on the node, or with a start in flight there that is not cancelled.
MayRun ==
    node.alive
    \union {f.id[1] : f \in {g \in node.flight : Launching(g.id) /\ ~g.cancelled}}

HeldPorts ==
    (IF db.claim = "RELEASED" THEN {} ELSE {db.port})
    \union (IF db.prev = 0 THEN {} ELSE {db.prevPort})

\* No port is handed out under a process: whatever was lost, repeated, late or restarted, every
\* run that has or may still get a process on the node holds its port, in the rank's claim or in
\* the one a restart kept (releaseClaim, keepPreviousRankClaims), unless a person gave the hold
\* up without proof.
ClaimCoversRun == \A r \in MayRun \ waived : db.ports[r] \in HeldPorts

\* What is recorded as stopped is stopped: nothing of a run up to the rank's stoppedThrough runs,
\* nor will a start still under way bring it back.  Later stops name no such run and later starts
\* wait for none (recordStoppedThrough).
BoundaryProven == \A r \in MayRun \ waived : r > db.through

\* A restart never meets a third claim: when one that was dispatched is replaced, the slot for
\* the previous one is free, so keepPreviousRankClaims never throws and loses none.
PreviousSlotSuffices == db.claim # "RELEASED" /\ db.prev # 0 => ~ClaimUsed(db)

\* All the status probes of the run have failed: only a person can say it is stopped.
ForAPerson ==
    \A s \in Steps : s[1] = db.run /\ Probe(s) => db.step[s].st \notin {"none"} \union Live

\* Nothing is on its way and the node has no step.
Silent == sending \union up \union hooks \union inv \union node.flight = {}

\* A stop never stalls: while a run is being stopped and its claim is held, even when everything
\* sent has been answered or lost, the engine or the node has a next step to take on its own,
\* until a person has to decide (reconcileStopping, requeueLost, expireSteps).
StopNeverStalls ==
    db.phase = "STOPPING" /\ db.claim = "HELD" /\ ~ForAPerson /\ Silent => ENABLED Progress

\* "No dead or terminal states" (schema/runtimes.prisma, InstancePhase): an instance that starts
\* becomes ready, unavailable or stopping in the end; a start that failed gang-stops its run.
StartsSettle == db.phase = "STARTING" ~> db.phase # "STARTING"
=============================================================================
