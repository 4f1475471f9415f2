--------------------------- MODULE CapacityRuntime ---------------------------
(***************************************************************************)
(* One model request through StoreCapacityAdmissionRuntime                 *)
(* (capacity/runtime.ts): acquire polls the durable queue until an answer, *)
(* adopts the lease, and the handler holds its response on it              *)
(* (response-lease.ts) inside a request scope (request-scope.ts).  The     *)
(* lease and its owner are those of LeaseOwner; the queue row is reduced   *)
(* to the state that acquire and terminalizeAttempt of CapacityStore read  *)
(* and write.  Around it the client aborts, the runtime closes, other      *)
(* servers admit, expire or cancel the row, queries fail before or after   *)
(* their effect, and the process crashes.                                  *)
(*                                                                         *)
(* pc is where acquire, then the handler, stands; each step is the code    *)
(* between two awaits.  The owner's signal runs its listeners at once, so  *)
(* a step that stops the owner also ends the held response.                *)
(***************************************************************************)
EXTENDS LeaseOwner

VARIABLES
  request,   \* state of the admission_request row; ADMITTED: see row
  pc,
  result,    \* what store.acquire answered last
  terminal,  \* the state acquire asks terminalizeAttempt for
  answer,    \* what acquire returned to the handler
  localDue,  \* the deadline has passed on the process clock
  dbDue,     \* ... on the database clock
  aborted,   \* the client's signal
  closed,    \* the runtime's
  body,      \* the response, as its reader sees it
  scope,     \* open, closed (nothing to release), leaked (it released an owner)
  outcome    \* how an end before the response was classified; "forgotten": not at all

acquireVars == <<result, terminal, answer>>
deadlineVars == <<localDue, dbDue>>
worldVars == <<deadlineVars, aborted, closed>>
handlerVars == <<body, scope, outcome>>
leaseVars == <<dbVars, owner, clockVars, callVars, stray, tries>>
runtimeVars == <<request, pc, acquireVars, worldVars, handlerVars>>
allVars == <<leaseVars, runtimeVars>>

RuntimeInit ==
  /\ row = "NONE" /\ ttl = 0 /\ reclaimedFor = 0
  /\ owner = "none" /\ authority = 0 /\ watchdog = 0 /\ beat = 0
  /\ phase = "idle" /\ timer = 0 /\ retry = 0 /\ stray = 0 /\ tries = 0
  /\ request = "ABSENT" /\ pc = "start"
  /\ result = "NONE" /\ terminal = "NONE" /\ answer = "NONE"
  /\ localDue = FALSE /\ dbDue = FALSE /\ aborted = FALSE /\ closed = FALSE
  /\ body = "none" /\ scope = "open" /\ outcome = "none"

\* AbortSignal.any([signal, this.shutdown.signal])
Signalled == aborted \/ closed

Go(next) == pc' = next

\* acquire returns a to the handler, and its locals are gone.
Return(a, next) == answer' = a /\ Go(next) /\ result' = "NONE" /\ terminal' = "NONE"

\* The held response's abort listener: it errors before anything is awaited.
StreamFollows ==
  body' = IF body = "held" /\ owner' \in Stopped THEN "failed" ELSE body
-----------------------------------------------------------------------------
(* The durable row, as the queries of the store see it                     *)

GrantRow == row' = "ACTIVE" /\ ttl' = Extension /\ request' = "ADMITTED" /\ UNCHANGED reclaimedFor
RowIs(state) == request' = state /\ UNCHANGED dbVars

\* acquire: creates or polls, and answers with the state it leaves.
AcquireEffect(ans) ==
  \/ Signalled /\ ans = "CANCELLED" /\ RowIs(request)
  \/ ~Signalled /\
     \/ request \in {"ABSENT", "WAITING"} /\ ~dbDue /\ ans = "ADMITTED" /\ GrantRow
     \/ request \in {"ABSENT", "WAITING"} /\ ~dbDue /\ ans = "WAITING" /\ RowIs("WAITING")
     \/ request \in {"ABSENT", "WAITING"} /\ ans = "EXPIRED" /\ RowIs("EXPIRED")
     \/ request \in {"CANCELLED", "EXPIRED"} /\ ans = request /\ RowIs(request)
     \/ request = "ADMITTED" /\ row = "ACTIVE" /\ ttl > 0 /\ ans = "ADMITTED" /\ RowIs(request)
     \/ /\ request = "ADMITTED" /\ row = "ACTIVE" /\ ttl = 0 /\ ans = "EXPIRED"
        /\ row' = "RECLAIMED" /\ UNCHANGED <<ttl, reclaimedFor, request>>
     \/ request = "ADMITTED" /\ row # "ACTIVE" /\ ans = "CANCELLED" /\ RowIs(request)

\* terminalizeAttempt: EXPIRED waits for the database clock.
TerminalizeEffect(state, ans) ==
  \/ request = "ABSENT" /\ ans = "MISSING" /\ RowIs(request)
  \/ request = "ADMITTED" /\ ans = (IF row = "ACTIVE" THEN "ADMITTED" ELSE "TERMINAL") /\ RowIs(request)
  \/ request \in {"CANCELLED", "EXPIRED"} /\ ans = request /\ RowIs(request)
  \/ request = "WAITING" /\ state = "EXPIRED" /\ ~dbDue /\ ans = "WAITING" /\ RowIs(request)
  \/ request = "WAITING" /\ (state = "CANCELLED" \/ dbDue) /\ ans = state /\ RowIs(state)

\* store.release, once and without an owner.
ReleaseEffect == row' = (IF row = "ACTIVE" THEN "RELEASED" ELSE row) /\ UNCHANGED <<ttl, reclaimedFor, request>>

\* Any server's admission pass, expiry or abandonment sweep, orphan sweep.
OthersAdmit == request = "WAITING" /\ ~dbDue /\ GrantRow
OthersEnd ==
  /\ request = "WAITING"
  /\ \E state \in {"CANCELLED", "EXPIRED"} : (state = "EXPIRED" => dbDue) /\ RowIs(state)

Elsewhere ==
  /\ OthersAdmit \/ OthersEnd
  /\ UNCHANGED <<owner, clockVars, callVars, stray, tries, pc, acquireVars, worldVars, handlerVars>>

Deadline ==
  /\ owner = "none" /\ (answer = "NONE" \/ request = "WAITING")
  /\ \/ ~localDue /\ localDue' = TRUE /\ UNCHANGED dbDue
     \/ ~dbDue /\ dbDue' = TRUE /\ UNCHANGED localDue
  /\ UNCHANGED <<leaseVars, request, pc, acquireVars, aborted, closed, handlerVars>>

ownerVars == <<owner, clockVars, callVars, stray, tries>>
-----------------------------------------------------------------------------
(* acquire                                                                 *)

\* A query took no effect, or its answer was lost: the catch block runs.
Fails(effect) == (effect \/ UNCHANGED <<dbVars, request>>) /\ Go("catch") /\ UNCHANGED acquireVars

\* The closed check, then maintain(), which may throw.
Begin ==
  /\ pc = "start"
  /\ \/ closed /\ Return("CANCELLED", "answered")
     \/ ~closed /\ (Go("acquire") \/ Go("catch")) /\ UNCHANGED acquireVars
  /\ UNCHANGED <<leaseVars, request, worldVars, handlerVars>>

\* The first query of the attempt, or one made by waitWithCapacityPolling,
\* which goes on by itself while the row waits.
Query ==
  /\ pc \in {"acquire", "poll"}
  /\ \/ \E ans \in {"ADMITTED", "WAITING", "CANCELLED", "EXPIRED"} :
          /\ AcquireEffect(ans)
          /\ result' = ans
          /\ Go(IF pc = "poll" /\ ans = "WAITING" THEN "wait" ELSE "decide")
          /\ UNCHANGED <<terminal, answer>>
     \/ Fails(\E ans \in {"ADMITTED", "WAITING", "CANCELLED", "EXPIRED"} : AcquireEffect(ans))
  /\ UNCHANGED <<ownerVars, worldVars, handlerVars>>

\* A notification, the poll interval, the abort or the local deadline.
Wake ==
  /\ pc = "wait"
  /\ \/ Signalled /\ result' = "CANCELLED" /\ Go("decide")
     \/ ~Signalled /\ localDue /\ result' = "WAITING" /\ Go("decide")
     \/ ~Signalled /\ ~localDue /\ Go("poll") /\ UNCHANGED result
  /\ UNCHANGED <<leaseVars, request, terminal, answer, worldVars, handlerVars>>

Ask(state, next) == terminal' = state /\ Go(next) /\ UNCHANGED <<result, answer>>

\* After the loop: an abort, or a durable end, is committed before it is
\* returned, so that no other server admits the attempt afterwards.
EndedLoop_Trusting ==
  /\ result # "WAITING"
  /\ IF result = "ADMITTED" /\ ~Signalled THEN Go("adopt") /\ UNCHANGED acquireVars
     ELSE Return(IF Signalled THEN "CANCELLED" ELSE result, "answered")

EndedLoop ==
  /\ result # "WAITING"
  /\ \/ Signalled /\ Ask("CANCELLED", "final")
     \/ ~Signalled /\ result \in {"CANCELLED", "EXPIRED"} /\ Ask(result, "final")
     \/ ~Signalled /\ result = "ADMITTED" /\ Go("adopt") /\ UNCHANGED acquireVars

\* The test of the while loop, and what follows it.
Decide ==
  /\ pc = "decide"
  /\ \/ /\ result = "WAITING"
        /\ \/ Signalled /\ Ask("CANCELLED", "terminalize")
           \/ ~Signalled /\ localDue /\ Ask("EXPIRED", "terminalize")
           \/ ~Signalled /\ ~localDue /\ Go("poll") /\ UNCHANGED acquireVars
     \/ EndedLoop
  /\ UNCHANGED <<leaseVars, request, worldVars, handlerVars>>

\* The answer of terminalizeAttempt is authoritative: a lease that won the
\* race is released.  Still WAITING (only asked for EXPIRED, in the loop):
\* the process clock is ahead, and the loop goes on polling.
Terminalize ==
  /\ pc \in {"terminalize", "final"}
  /\ \/ \E ans \in {"ADMITTED", "WAITING", "CANCELLED", "EXPIRED", "TERMINAL", "MISSING"} :
          /\ TerminalizeEffect(terminal, ans)
          /\ \/ ans = "ADMITTED" /\ Go("raced") /\ UNCHANGED acquireVars
             \/ ans = "WAITING" /\ pc = "terminalize" /\ Go("acquire") /\ UNCHANGED acquireVars
             \/ /\ ans # "ADMITTED" /\ (ans = "WAITING" => pc = "final")
                /\ Return(IF ans \in {"CANCELLED", "EXPIRED"} THEN ans ELSE terminal, "answered")
     \/ Fails(\E ans \in {"CANCELLED", "EXPIRED"} : TerminalizeEffect(terminal, ans))
  /\ UNCHANGED <<ownerVars, worldVars, handlerVars>>

ReleaseRaced ==
  /\ pc = "raced"
  /\ \/ ReleaseEffect /\ Return(terminal, "answered")
     \/ Fails(ReleaseEffect)
  /\ UNCHANGED <<ownerVars, worldVars, handlerVars>>

\* The failure boundary: whatever was persisted is ended, best effort, then
\* the failure is rethrown.
Catch ==
  /\ pc = "catch"
  /\ LET asked == IF Signalled THEN "CANCELLED" ELSE "EXPIRED"
     IN  \/ \E ans \in {"ADMITTED", "WAITING", "CANCELLED", "EXPIRED", "TERMINAL", "MISSING"} :
              /\ TerminalizeEffect(asked, ans)
              /\ IF ans = "ADMITTED" THEN Go("catchRelease") /\ UNCHANGED acquireVars
                 ELSE Return("THREW", "answered")
         \/ /\ \/ UNCHANGED <<dbVars, request>>
               \/ \E ans \in {"CANCELLED", "EXPIRED"} : TerminalizeEffect(asked, ans)
            /\ Return("THREW", "answered")
  /\ UNCHANGED <<ownerVars, worldVars, handlerVars>>

CatchRelease ==
  /\ pc = "catchRelease"
  /\ ReleaseEffect \/ UNCHANGED <<dbVars, request>>
  /\ Return("THREW", "answered")
  /\ UNCHANGED <<ownerVars, worldVars, handlerVars>>
-----------------------------------------------------------------------------
(* adopt, and the handler                                                  *)

\* The constructor of CapacityLeaseOwner registers with the scope and takes
\* the parent signal; an owner stopped there never sends its heartbeat.  The
\* deadline of the wait is read no more.
Adopt ==
  /\ pc = "adopt"
  /\ Go("confirm")
  /\ owner' = IF scope # "open" THEN "request_scope_closed"
              ELSE IF Signalled THEN "released" ELSE "confirming"
  /\ phase' = IF owner' = "confirming" THEN "sent" ELSE "idle"
  /\ authority' = Extension /\ watchdog' = Extension /\ beat' = Interval
  /\ localDue' = FALSE /\ dbDue' = FALSE
  /\ UNCHANGED <<dbVars, timer, retry, stray, tries, request, acquireVars, aborted, closed,
                 handlerVars>>

Released == owner \in Stopped /\ ~MoreTries

Confirm_OnlyHolding ==
  /\ pc = "confirm" /\ owner = "holding"
  /\ Return("ADMITTED", "dispatch")
  /\ UNCHANGED <<leaseVars, request, worldVars, handlerVars>>

\* owner.ready resolved: the first heartbeat call is over.
Confirm ==
  /\ pc = "confirm" /\ (owner = "holding" \/ (owner \in Stopped /\ ~InFlight))
  /\ IF closed \/ owner \in Stopped
     THEN Go("undo") /\ UNCHANGED acquireVars /\ outcome' =
            IF ~closed /\ ~Signalled /\ owner \in Lost THEN "lost" ELSE "cancelled"
     ELSE Return("ADMITTED", "dispatch") /\ UNCHANGED outcome
  /\ UNCHANGED <<leaseVars, request, worldVars, body, scope>>

Undo ==
  /\ pc = "undo" /\ Released
  /\ Return(IF outcome = "lost" THEN "LEASE_LOST" ELSE "CANCELLED", "answered")
  /\ UNCHANGED <<leaseVars, request, worldVars, handlerVars>>

\* precommitLeaseLost: a client abort is never a lease loss.
Classified ==
  IF aborted THEN "cancelled" ELSE IF owner \in Lost THEN "lost" ELSE "failed"

\* hold(): refuses a lease that is already over, else the response follows it.
Hold ==
  /\ pc = "dispatch" /\ Go("served")
  /\ \/ owner \in Stopped /\ outcome' = Classified /\ body' = "refused"
     \/ Owning /\ body' = "held" /\ UNCHANGED outcome
  /\ UNCHANGED <<leaseVars, request, acquireVars, worldVars, scope>>

\* StopOwner: release() of an owner that may have stopped already.
StopOwner(reason) == IF Owning THEN Stop(reason) ELSE UNCHANGED leaseVars

\* The dispatch failed, or its response has no body: release, then answer.
LetGo ==
  /\ pc = "dispatch" /\ Go("letgo")
  /\ outcome' = Classified
  /\ StopOwner("released")
  /\ UNCHANGED <<request, acquireVars, worldVars, body, scope>>

LetGone ==
  /\ pc = "letgo" /\ Released /\ Go("served")
  /\ body' = "refused"
  /\ UNCHANGED <<leaseVars, request, acquireVars, worldVars, scope, outcome>>

\* A handler that neither holds nor releases; its response may have a body.
Forget ==
  /\ pc = "dispatch" /\ Go("served")
  /\ \E b \in {"bare", "refused"} : body' = b
  /\ outcome' = "forgotten"
  /\ UNCHANGED <<leaseVars, request, acquireVars, worldVars, scope>>

\* acquire did not admit: the handler answers without a lease.
Refuse ==
  /\ pc = "answered" /\ Go("served") /\ body' = "refused"
  /\ UNCHANGED <<leaseVars, request, acquireVars, worldVars, scope, outcome>>
-----------------------------------------------------------------------------
(* The response: the held stream inside the stream of the request scope    *)

\* The upstream ends: the EOF is kept back until the release attempt is over.
UpstreamEof_CloseFirst ==
  /\ body \in {"held", "bare"} /\ body' = "ended"
  /\ IF body = "held" THEN StopOwner("released") ELSE UNCHANGED leaseVars

UpstreamEof ==
  /\ body \in {"held", "bare"}
  /\ \/ body = "held" /\ body' = "finishing" /\ StopOwner("released")
     \/ body = "bare" /\ body' = "ended" /\ UNCHANGED leaseVars

Finished == body = "finishing" /\ Released /\ body' = "ended" /\ UNCHANGED leaseVars

UpstreamError ==
  /\ body \in {"held", "bare"} /\ body' = "failed"
  /\ IF body = "held" THEN StopOwner("released") ELSE UNCHANGED leaseVars

\* The client cancels the body; the upstream is cancelled first.
ClientCancel ==
  /\ \/ body = "held" /\ body' = "held_cancel"
     \/ body = "bare" /\ body' = "bare_cancel"
  /\ UNCHANGED leaseVars
Cancelled ==
  \/ body = "held_cancel" /\ body' = "cancelled" /\ StopOwner("released")
  \/ body = "bare_cancel" /\ body' = "cancelled" /\ UNCHANGED leaseVars

Stream ==
  /\ pc = "served"
  /\ UpstreamEof \/ Finished \/ UpstreamError \/ ClientCancel \/ Cancelled
  /\ UNCHANGED <<request, pc, acquireVars, worldVars, scope, outcome>>

CloseScope_Keeps ==
  /\ pc = "served" /\ scope = "open"
  /\ body \in {"ended", "failed", "cancelled", "refused"}
  /\ scope' = "closed"
  /\ UNCHANGED <<leaseVars, request, pc, acquireVars, worldVars, body, outcome>>

\* The scope closes once the response has ended, and releases a forgotten owner.
CloseScope ==
  /\ pc = "served" /\ scope = "open"
  /\ body \in {"ended", "failed", "cancelled", "refused"}
  /\ scope' = IF Owning THEN "leaked" ELSE "closed"
  /\ StopOwner("request_scope_closed")
  /\ UNCHANGED <<request, pc, acquireVars, worldVars, body, outcome>>

\* Its stream passes the end on when the releases it started are over.
Deliver ==
  /\ pc = "served" /\ scope # "open" /\ (scope = "leaked" => Released)
  /\ \/ body = "ended" /\ body' = "eof"
     \/ body = "failed" /\ body' = "error"
  /\ UNCHANGED <<leaseVars, request, pc, acquireVars, worldVars, scope, outcome>>
-----------------------------------------------------------------------------
(* The world, and the lease                                                *)

Alive == pc # "dead"

Abort ==
  /\ Alive /\ ~aborted /\ aborted' = TRUE
  /\ StopOwner("released") /\ StreamFollows
  /\ UNCHANGED <<request, pc, acquireVars, deadlineVars, closed, scope, outcome>>

CloseRuntime ==
  /\ Alive /\ ~closed /\ closed' = TRUE
  /\ StopOwner("released") /\ StreamFollows
  /\ UNCHANGED <<request, pc, acquireVars, deadlineVars, aborted, scope, outcome>>

\* The steps of the lease alone; MaxLifetime is the lifetime cap.
MaxLifetime == Owning /\ Stop("max_lifetime")

\* A step of the lease, with what its listeners do.
Joint(A) == A /\ StreamFollows /\ UNCHANGED <<request, pc, acquireVars, worldVars, scope, outcome>>

LeaseStep ==
  \/ Joint(ExecuteHeartbeat) \/ Joint(ExecuteStray) \/ Joint(Reclaim) \/ Joint(OrphanRelease)
  \/ Joint(Watchdog) \/ Joint(BeatTimer) \/ Joint(Answered) \/ Joint(Threw) \/ Joint(BackoffOver)
  \/ Joint(TryRelease) \/ Joint(MaxLifetime) \/ Joint(Tick)

\* The process and all it knew is gone.
Die ==
  /\ Alive /\ Crash
  /\ Return("NONE", "dead")
  /\ aborted' = FALSE /\ closed' = FALSE
  /\ body' = "none" /\ scope' = "open" /\ outcome' = "none"
  /\ UNCHANGED <<request, deadlineVars>>

AcquireStep ==
  \/ Begin \/ Query \/ Wake \/ Decide \/ Terminalize \/ ReleaseRaced \/ Catch \/ CatchRelease
  \/ Adopt \/ Confirm \/ Undo

HandlerStep == Hold \/ LetGo \/ LetGone \/ Forget \/ Refuse \/ CloseScope \/ Deliver

RuntimeNext ==
  AcquireStep \/ HandlerStep \/ Stream \/ Elsewhere \/ Deadline \/ Abort \/ CloseRuntime
  \/ LeaseStep \/ Die

\* Queries end (with an answer or an error), timers fire, the clocks pass the
\* deadline, the event loop runs on, and some server reclaims expired leases.
RuntimeFairness ==
  /\ WF_allVars(AcquireStep) /\ WF_allVars(Deadline)
  /\ WF_allVars(Joint(Tick)) /\ WF_allVars(Joint(Reclaim)) /\ WF_allVars(Joint(TryRelease))
  /\ WF_allVars(Joint(Watchdog \/ BeatTimer))
  /\ WF_allVars(Joint(ExecuteHeartbeat \/ Answered \/ BackoffOver))

RuntimeSpec == RuntimeInit /\ [][RuntimeNext]_allVars /\ RuntimeFairness
-----------------------------------------------------------------------------
\* The client sees a clean EOF only after the durable release attempts are
\* over, and never for a held response whose lease was lost under it.
EofAfterRelease ==
  body = "eof" => ~Owning /\ (outcome # "forgotten" => Released /\ owner \notin Lost)

\* Once acquire has answered CANCELLED, EXPIRED or LEASE_LOST, no server can
\* admit the attempt any more, and a lease that won the race was given back.
NoLateAdmission ==
  answer \in {"CANCELLED", "EXPIRED", "LEASE_LOST"} =>
    request # "WAITING" /\ (row = "ACTIVE" => owner # "none")

\* No owner beats on after its request is over, its client has gone or the
\* runtime has closed, even one adopted while that happened.
NoOwnerOutlives == scope # "open" \/ Signalled => ~Owning

\* Every acquire answers, whatever the queue, the clocks and the database do.
AcquireReturns == pc = "start" ~> answer # "NONE" \/ ~Alive

\* A lease without a living owner ends, whoever was granted it and however
\* many release attempts fail.
AbandonedIsFreed == row = "ACTIVE" /\ ~Owning ~> row # "ACTIVE" \/ Owning
=============================================================================
