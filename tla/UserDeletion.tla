---------------------------- MODULE UserDeletion ----------------------------
(***************************************************************************)
(* Durable deletion of a user (packages/db/src/parent-deletion.ts and      *)
(* capacity-lock-order.ts): the mark, the drain in short transactions, the *)
(* final delete, the abandon of a refused generation; the sweep that       *)
(* finishes what a request left (apps/server/src/user-deletion-sweep.ts);  *)
(* the purge of what requests in flight wrote later (hot-path-sweeps.ts);  *)
(* and the dashboard's archive and unarchive (packages/api/src/routers).   *)
(*                                                                         *)
(* Every transaction is one step.  It may fail with no effect, or commit   *)
(* and have its acknowledgement lost; a process may stop between any two.  *)
(* A history is a number of rows; a mark's generation is its place in the  *)
(* order of the marks, which is the order of deletionRequestedAt.          *)
(***************************************************************************)
EXTENDS Naturals, Sequences, SequencesExt, FiniteSets

CONSTANTS
    Users,
    Lockable,       \* the users whose row another session may keep locked
    Removers,       \* calls of deleteUserDurably
    Sweep,          \* the sweep loop of the process
    Limit,          \* USER_DELETION_SWEEP_BATCH
    MaxRows,        \* maxRowsPerRun of a drain
    StartHistory,   \* the history a user starts with
    MaxCalls,       \* bound on the requests and archives of a behaviour
    MaxMarks,       \* bound on the generations of a behaviour
    MaxFaults       \* bound on its failed transactions and process stops

ASSUME DeletionAssumption ==
    /\ Limit \in Nat \ {0} /\ MaxRows \in Nat \ {0}
    /\ Sweep \notin Removers /\ Lockable \subseteq Users

Workers == Removers \cup {Sweep}

VARIABLES
    stuck,          \* the users whose row one does keep locked
    exists,         \* the users that have a row
    gen,            \* deletionGeneration, 0 when the user is not marked
    marks,          \* generations minted
    banned,
    ripe,           \* marked users past the sweep's grace period
    backoff,        \* marked users whose deletionSweepNextAttemptAt is ahead
    history,        \* rows of the user a drain or the purge can take
    traffic,        \* the user's request: none, authorized, pending, terminal
    purge,          \* deleted_user_purge
    aged,           \* its entries older than the purge's grace period
    clean,          \* the entries the purge run found nothing left of
    pc, job,        \* a worker's step, and the user, generation and rows it is at
    page, cursor,   \* the sweep's selection and its round-robin position
    calls, faults       \* how many there were

rowVars == <<exists, gen, marks, banned, ripe, backoff>>
lateVars == <<traffic, calls, purge, aged, clean>>
workVars == <<pc, job, page, cursor>>
deletionVars == <<stuck, rowVars, history, lateVars, workVars, faults>>

NoJob == [user |-> 0, gen |-> 0, rows |-> 0]

DeletionInit ==
    /\ stuck \in SUBSET Lockable
    /\ exists = Users
    /\ gen = [u \in Users |-> 0] /\ marks = 0
    /\ banned = {} /\ ripe = {} /\ backoff = {}
    /\ history = [u \in Users |-> StartHistory]
    /\ traffic = [u \in Users |-> "none"]
    /\ purge = {} /\ aged = {} /\ clean = {}
    /\ pc = [w \in Workers |-> "idle"]
    /\ job = [w \in Workers |-> NoJob]
    /\ page = <<>> /\ cursor = 0
    /\ calls = 0 /\ faults = 0

Marked(u) == u \in exists /\ gen[u] # 0

\* The user row still carries the generation the worker acts for.
Owns(w) == job[w].user \in exists /\ gen[job[w].user] = job[w].gen

Go(w, step) == pc' = [pc EXCEPT ![w] = step]

\* The worker is done with its user.
Leave(w) ==
    /\ Go(w, IF w = Sweep THEN "next" ELSE "idle")
    /\ job' = [job EXCEPT ![w] = NoJob]

\* completeUserDeletion returned false, or threw a transient or a permanent failure.
Resolve(w, outcome) ==
    \/ /\ outcome = "gone" /\ w = Sweep /\ Leave(w)
    \/ /\ outcome = "gone" /\ w # Sweep /\ Go(w, "still") /\ UNCHANGED job
    \/ /\ outcome = "failed" /\ Go(w, IF w = Sweep THEN "record" ELSE "still") /\ UNCHANGED job
    \/ /\ outcome = "refused" /\ Go(w, "abandon") /\ UNCHANGED job

Sweeping == UNCHANGED <<page, cursor>>

(***************************************************************************)
(* deleteUserDurably.                                                      *)
(***************************************************************************)
DeleteDurably(w, u) ==
    /\ w \in Removers /\ pc[w] = "idle" /\ u \in exists
    /\ marks < MaxMarks \/ gen[u] # 0
    /\ Go(w, "mark")
    /\ job' = [job EXCEPT ![w] = [NoJob EXCEPT !.user = u]]
    /\ UNCHANGED <<stuck, rowVars, history, lateVars, page, cursor, faults>>

\* requestUserDeletion's statement.
MarkRow(u) ==
    /\ banned' = banned \cup {u}
    /\ IF gen[u] = 0
       THEN /\ marks < MaxMarks
            /\ marks' = marks + 1
            /\ gen' = [gen EXCEPT ![u] = marks + 1]
            /\ ripe' = ripe \ {u} /\ backoff' = backoff \ {u}
       ELSE UNCHANGED <<marks, gen, ripe, backoff>>

Mark(w) ==
    LET u == job[w].user IN
    /\ pc[w] = "mark"
    /\ \/ u \notin exists /\ Leave(w) /\ UNCHANGED rowVars
       \/ /\ u \in exists /\ MarkRow(u)
          /\ Go(w, "check")
          /\ job' = [job EXCEPT ![w].gen = gen'[u]]
          /\ UNCHANGED exists
    /\ Sweeping
    /\ UNCHANGED <<stuck, history, lateVars, faults>>

\* completeUserDeletion's plain read: an early exit only.
Check(w) ==
    /\ pc[w] = "check"
    /\ IF Owns(w) THEN Go(w, "drain") /\ UNCHANGED job ELSE Resolve(w, "gone")
    /\ Sweeping
    /\ UNCHANGED <<stuck, rowVars, history, lateVars, faults>>

\* Mutant: a batch trusts the early read of the generation.
Drain_Unowned(w) ==
    LET u == job[w].user IN
    /\ pc[w] = "drain" /\ u \notin stuck
    /\ \/ /\ history[u] > 0
          /\ history' = [history EXCEPT ![u] = @ - 1]
          /\ IF job[w].rows + 1 >= MaxRows
             THEN Resolve(w, "failed")
             ELSE job' = [job EXCEPT ![w].rows = @ + 1] /\ UNCHANGED pc
       \/ Go(w, "final") /\ UNCHANGED <<job, history>>
    /\ Sweeping
    /\ UNCHANGED <<stuck, rowVars, lateVars, faults>>

\* A drain batch: the row FOR SHARE on its generation, then rows with SKIP
\* LOCKED.  Past the work bound of the run the drain reports pending; a batch
\* that took nothing ends it.
Drain(w) ==
    LET u == job[w].user IN
    /\ pc[w] = "drain" /\ u \notin stuck
    /\ \/ ~Owns(w) /\ Resolve(w, "gone") /\ UNCHANGED history
       \/ /\ Owns(w) /\ history[u] > 0
          /\ history' = [history EXCEPT ![u] = @ - 1]
          /\ IF job[w].rows + 1 >= MaxRows
             THEN Resolve(w, "failed")
             ELSE job' = [job EXCEPT ![w].rows = @ + 1] /\ UNCHANGED pc
       \/ Owns(w) /\ Go(w, "final") /\ UNCHANGED <<job, history>>
    /\ Sweeping
    /\ UNCHANGED <<stuck, rowVars, lateVars, faults>>

\* deleteUserUnderOwnerFences: the generation under the row lock, the purge
\* entry, the graph and the row; or the database refuses the delete.
DeleteRow(u) ==
    /\ exists' = exists \ {u}
    /\ purge' = purge \cup {u}
    /\ gen' = [gen EXCEPT ![u] = 0]
    /\ banned' = banned \ {u} /\ ripe' = ripe \ {u} /\ backoff' = backoff \ {u}
    /\ UNCHANGED <<marks, traffic, calls, aged, clean>>

Final(w) ==
    LET u == job[w].user IN
    /\ pc[w] = "final" /\ u \notin stuck
    /\ \/ ~Owns(w) /\ Resolve(w, "gone") /\ UNCHANGED <<rowVars, lateVars>>
       \/ Owns(w) /\ DeleteRow(u) /\ Leave(w)
       \/ Owns(w) /\ Resolve(w, "refused") /\ UNCHANGED <<rowVars, lateVars>>
    /\ Sweeping
    /\ UNCHANGED <<stuck, history, faults>>

\* abandonUserDeletion: the marker is cleared and the user archived, in one
\* statement predicated on the generation.
AbandonRow(w) ==
    LET u == job[w].user IN
    /\ gen' = [gen EXCEPT ![u] = IF Owns(w) THEN 0 ELSE @]
    /\ banned' = IF Owns(w) THEN banned \cup {u} ELSE banned
    /\ ripe' = IF Owns(w) THEN ripe \ {u} ELSE ripe
    /\ backoff' = IF Owns(w) THEN backoff \ {u} ELSE backoff
    /\ UNCHANGED <<exists, marks>>

Abandon(w) ==
    /\ pc[w] = "abandon" /\ job[w].user \notin stuck
    /\ AbandonRow(w)
    /\ Leave(w)
    /\ Sweeping
    /\ UNCHANGED <<stuck, history, lateVars, faults>>

\* The request answers what it finds: missing, abandoned or pending.
Still(w) ==
    /\ pc[w] = "still"
    /\ Leave(w)
    /\ Sweeping
    /\ UNCHANGED <<stuck, rowVars, history, lateVars, faults>>

(***************************************************************************)
(* The sweep.                                                              *)
(***************************************************************************)
Eligible == {u \in exists : gen[u] # 0 /\ u \in ripe /\ u \notin backoff}

\* In the order of the marks: those after the cursor, then the oldest ones,
\* no user twice, at most Limit of them.
Oldest(S) == SetToSortSeq(S, LAMBDA u, v : gen[u] < gen[v])

RoundRobin ==
    Oldest({u \in Eligible : gen[u] > cursor}) \o Oldest({u \in Eligible : gen[u] <= cursor})

Selection == SubSeq(RoundRobin, 1, IF Len(RoundRobin) < Limit THEN Len(RoundRobin) ELSE Limit)

\* Mutant: the cursor stays where it was.
Tick_KeepsCursor ==
    /\ pc[Sweep] = "idle"
    /\ Selection # <<>>
    /\ page' = [i \in DOMAIN Selection |-> [user |-> Selection[i], gen |-> gen[Selection[i]], rows |-> 0]]
    /\ Go(Sweep, "next")
    /\ UNCHANGED <<stuck, rowVars, history, lateVars, job, cursor, faults>>

\* A tick: listPendingUserDeletions, and the cursor moves before any completion.
Tick ==
    /\ pc[Sweep] = "idle"
    /\ Selection # <<>>
    /\ page' = [i \in DOMAIN Selection |-> [user |-> Selection[i], gen |-> gen[Selection[i]], rows |-> 0]]
    /\ cursor' = gen[Last(Selection)]
    /\ Go(Sweep, "next")
    /\ UNCHANGED <<stuck, rowVars, history, lateVars, job, faults>>

\* An empty selection starts the next tick at the oldest.
EmptyTick ==
    /\ pc[Sweep] = "idle"
    /\ Selection = <<>> /\ cursor # 0
    /\ cursor' = 0
    /\ UNCHANGED <<stuck, rowVars, history, lateVars, pc, job, page, faults>>

NextUser ==
    /\ pc[Sweep] = "next"
    /\ \/ page = <<>> /\ Go(Sweep, "idle") /\ UNCHANGED <<job, page>>
       \/ /\ page # <<>>
          /\ Go(Sweep, "check")
          /\ job' = [job EXCEPT ![Sweep] = Head(page)]
          /\ page' = Tail(page)
    /\ UNCHANGED <<stuck, rowVars, history, lateVars, cursor, faults>>

\* Mutant: the backoff is written to whatever generation the user carries.
RecordRow_AnyGeneration(w) ==
    /\ backoff' = IF Marked(job[w].user) THEN backoff \cup {job[w].user} ELSE backoff
    /\ UNCHANGED <<exists, gen, marks, banned, ripe>>

\* recordUserDeletionSweepFailure, predicated on the generation.
RecordRow(w) ==
    /\ backoff' = IF Owns(w) THEN backoff \cup {job[w].user} ELSE backoff
    /\ UNCHANGED <<exists, gen, marks, banned, ripe>>

Record(w) ==
    /\ pc[w] = "record" /\ job[w].user \notin stuck
    /\ RecordRow(w)
    /\ Leave(w)
    /\ Sweeping
    /\ UNCHANGED <<stuck, history, lateVars, faults>>

(***************************************************************************)
(* Failures.                                                               *)
(***************************************************************************)
\* What a worker does when the transaction of its step throws: the request
\* rethrows a failed mark or abandon; the sweep goes on with the next user.
Thrown(w) ==
    \/ pc[w] \in {"mark", "abandon", "record"} /\ Leave(w)
    \/ pc[w] \in {"check", "drain", "final"} /\ Resolve(w, "failed")

\* The transaction rolls back (a timeout, a lost connection, a deadlock), each
\* time where the row is stuck.
RollsBack(w) ==
    /\ pc[w] \in {"mark", "check", "drain", "final", "abandon", "record"}
    /\ \/ /\ job[w].user \in stuck /\ pc[w] \in {"drain", "final", "abandon", "record"}
          /\ UNCHANGED faults
       \/ faults < MaxFaults /\ faults' = faults + 1
    /\ Thrown(w)
    /\ Sweeping
    /\ UNCHANGED <<stuck, rowVars, history, lateVars>>

\* It commits, and its acknowledgement is lost.
AckLost(w) ==
    LET u == job[w].user IN
    /\ faults < MaxFaults /\ faults' = faults + 1
    /\ u \in exists \ stuck
    /\ \/ pc[w] = "mark" /\ MarkRow(u) /\ UNCHANGED <<exists, history, lateVars>>
       \/ pc[w] = "drain" /\ Owns(w) /\ history[u] > 0
          /\ history' = [history EXCEPT ![u] = @ - 1] /\ UNCHANGED <<rowVars, lateVars>>
       \/ pc[w] = "final" /\ Owns(w) /\ DeleteRow(u) /\ UNCHANGED history
       \/ pc[w] = "abandon" /\ AbandonRow(w) /\ UNCHANGED <<history, lateVars>>
       \/ pc[w] = "record" /\ RecordRow(w) /\ UNCHANGED <<history, lateVars>>
    /\ Thrown(w)
    /\ Sweeping
    /\ UNCHANGED <<stuck>>

\* The process stops, or its shutdown fence stops every worker: what was
\* committed stays, the sweep's position does not.
Crash ==
    /\ faults < MaxFaults /\ faults' = faults + 1
    /\ \E w \in Workers : pc[w] # "idle"
    /\ pc' = [w \in Workers |-> "idle"]
    /\ job' = [w \in Workers |-> NoJob]
    /\ page' = <<>> /\ cursor' = 0
    /\ UNCHANGED <<stuck, rowVars, history, lateVars>>

(***************************************************************************)
(* Time, the dashboard, requests and the purge.                            *)
(***************************************************************************)
Quiet == UNCHANGED <<stuck, workVars, faults>>

Ripen(u) ==
    /\ Marked(u) /\ u \notin ripe
    /\ ripe' = ripe \cup {u}
    /\ UNCHANGED <<exists, gen, marks, banned, backoff, history, lateVars>> /\ Quiet

BackoffEnds(u) ==
    /\ u \in backoff
    /\ backoff' = backoff \ {u}
    /\ UNCHANGED <<exists, gen, marks, banned, ripe, history, lateVars>> /\ Quiet

Archive(u) ==
    /\ u \in exists \ banned
    /\ calls < MaxCalls /\ calls' = calls + 1
    /\ banned' = banned \cup {u}
    /\ UNCHANGED <<exists, gen, marks, ripe, backoff, history, traffic, purge, aged, clean>>
    /\ Quiet

\* One conditional statement: it matches only an unmarked row.
Unarchive(u) ==
    /\ u \in exists \cap banned /\ gen[u] = 0
    /\ banned' = banned \ {u}
    /\ UNCHANGED <<exists, gen, marks, ripe, backoff, history, lateVars>> /\ Quiet

\* Access is refused to a banned and to a marked user.
Authorize(u) ==
    /\ traffic[u] = "none" /\ u \in exists \ banned /\ gen[u] = 0
    /\ calls < MaxCalls /\ calls' = calls + 1
    /\ traffic' = [traffic EXCEPT ![u] = "authorized"]
    /\ UNCHANGED <<rowVars, history, purge, aged, clean>> /\ Quiet

\* An authorized request writes its row, ends it, and writes what follows the
\* end (rollups, affinity), whether or not the user is still there.
Proceed(u) ==
    /\ \/ traffic[u] = "authorized" /\ traffic' = [traffic EXCEPT ![u] = "pending"]
          /\ UNCHANGED history
       \/ traffic[u] = "pending" /\ traffic' = [traffic EXCEPT ![u] = "terminal"]
          /\ history' = [history EXCEPT ![u] = @ + 1]
       \/ traffic[u] = "terminal" /\ traffic' = [traffic EXCEPT ![u] = "none"]
          /\ history' = [history EXCEPT ![u] = @ + 1]
    /\ UNCHANGED <<rowVars, calls, purge, aged, clean>> /\ Quiet

\* Mutant: an entry is retired as soon as nothing is left.
Purge_NoGrace(u) ==
    /\ u \in purge
    /\ history' = [history EXCEPT ![u] = 0]
    /\ clean' = IF traffic[u] # "pending" THEN clean \cup {u} ELSE clean
    /\ UNCHANGED <<rowVars, traffic, calls, purge, aged>> /\ Quiet

\* A purge run: everything but a request's pending row goes; an entry that was
\* past the grace period when the run began, and of which nothing is left, is
\* to be retired.
Purge(u) ==
    /\ u \in purge
    /\ history' = [history EXCEPT ![u] = 0]
    /\ clean' = IF u \in aged /\ traffic[u] # "pending" THEN clean \cup {u} ELSE clean
    /\ UNCHANGED <<rowVars, traffic, calls, purge, aged>> /\ Quiet

Retire(u) ==
    /\ u \in clean
    /\ purge' = purge \ {u} /\ clean' = clean \ {u} /\ aged' = aged \ {u}
    /\ UNCHANGED <<rowVars, history, traffic, calls>> /\ Quiet

\* The grace period (24 h) outlasts every request that was under way.
Age(u) ==
    /\ u \in purge \ aged /\ traffic[u] = "none"
    /\ aged' = aged \cup {u}
    /\ UNCHANGED <<rowVars, history, traffic, calls, purge, clean>> /\ Quiet

Step(w) == Mark(w) \/ Check(w) \/ Drain(w) \/ Final(w) \/ Abandon(w) \/ Still(w) \/ Record(w)

Keep(u) == Purge(u) \/ Retire(u) \/ Age(u)

\* The clocks, requests under way, and the purge's schedule.
Background(u) == Ripen(u) \/ BackoffEnds(u) \/ Proceed(u) \/ Keep(u)

DeletionNext ==
    \/ \E w \in Workers : Step(w) \/ RollsBack(w) \/ AckLost(w)
    \/ \E w \in Removers, u \in Users : DeleteDurably(w, u)
    \/ Tick \/ EmptyTick \/ NextUser \/ Crash
    \/ \E u \in Users : Background(u) \/ Archive(u) \/ Unarchive(u) \/ Authorize(u)

\* The sweep runs on an interval, and what it awaits is bounded by timeouts.
DeletionSpec ==
    /\ DeletionInit /\ [][DeletionNext]_deletionVars
    /\ WF_deletionVars(Step(Sweep) \/ RollsBack(Sweep) \/ Tick \/ NextUser)
    /\ \A u \in Users : WF_deletionVars(Background(u))

(***************************************************************************)
(* Properties.                                                             *)
(***************************************************************************)
\* A user that is not marked loses nothing: once an abandon has committed and
\* the user is restored, no worker of the withdrawn generation deletes a row.
UnmarkedLosesNothing ==
    [][\A u \in exists : gen[u] = 0 => u \in exists' /\ history'[u] >= history[u]]_deletionVars

\* A failure is charged to the generation it is of: only a worker of the current
\* generation delays a deletion or gives it up.
OwnGenerationOnly ==
    [][\A u \in exists :
         (u \in backoff' \ backoff) \/ (gen[u] # 0 /\ gen'[u] = 0 /\ u \in exists') =>
            \E w \in Workers :
                pc[w] \in {"record", "abandon"} /\ job[w].user = u /\ job[w].gen = gen[u]
      ]_deletionVars

\* What a deleted user still has, or a request under way may still write, is in
\* the purge queue.
LeftoverIsQueued ==
    \A u \in Users \ exists : history[u] > 0 \/ traffic[u] # "none" => u \in purge

\* Every deletion that was accepted ends, in the user's delete or its abandon,
\* whatever failed, crashed or raced on the way, and although other users stay
\* stuck for ever.
EveryMarkEnds ==
    \A u \in Users : Marked(u) /\ u \notin stuck ~> ~Marked(u)

\* The history of a deleted user is eventually gone for good.
HistoryEnds == \A u \in Users : u \notin exists ~> [](history[u] = 0)
=============================================================================
