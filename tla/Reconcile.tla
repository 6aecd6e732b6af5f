------------------------------ MODULE Reconcile ------------------------------
(***************************************************************************)
(* Reconciliation of one user (internal/reconcile/service.go): CreateRun   *)
(* compares the ledger with a broker snapshot, ResolveDiffWithInput        *)
(* settles one difference.  Requests run concurrently; a step is one       *)
(* statement or commit of PostgreSQL under READ COMMITTED, and what a      *)
(* transaction wrote is seen by others only once it commits.               *)
(*                                                                         *)
(* Row locks are read off the program counters: a request that updated its *)
(* difference holds that row until its transaction ends (Holds), and one   *)
(* whose update found no row still holds the row of its adjustment event   *)
(* ("void_in_tx").  Request r books at most one event, so r names it.      *)
(***************************************************************************)
EXTENDS Naturals, FiniteSets

CONSTANTS
    Run,        \* the reconciliation runs that may be created
    Gap,        \* the discrepancies between the broker and the ledger
    Dividend,   \* those that are dividends missing in the ledger
    Request,    \* the resolve requests
    NoRequest,
    Choices,    \* the resolutions requests ask for
    Faulty      \* the requests whose database calls may fail by themselves

ASSUME ReconcileAssumption ==
    /\ Dividend \subseteq Gap
    /\ NoRequest \notin Request
    /\ Choices \subseteq {"accepted_as_is", "fixed_input", "adjusted"}
    /\ Faulty \subseteq Request

VARIABLES
    runs,       \* reconciliation_runs.status
    diffs,      \* reconciliation_diffs.resolution
    backing,    \* reconciliation_diffs.adjustment_event_id
    draft,      \* {what a CreateRun in progress has found}, or {}
    req,        \* what a request asks for
    pc,         \* where a request is
    event,      \* the adjustment event of a request: none, active or voided
    linked,     \* is ledger_events.reconciliation_run_id of that event set?
    settles,    \* did the request's transaction mark the run resolved?
    dead        \* has the context of the request ended?

db == <<runs, diffs, backing>>
vars == <<runs, diffs, backing, draft, req, pc, event, linked, settles, dead>>

Diff == Run \X Gap
DiffsOf(run) == {d \in Diff : d[1] = run}

Resolutions == {"accepted_as_is", "fixed_input", "adjusted"}
InFlight == {"create", "begin", "update", "settle", "commit", "void", "void_in_tx"}
Ended == {"done", "failed"}
Asked == [diff : Diff, choice : Resolutions]
Idle == [diff |-> NoRequest, choice |-> NoRequest]

Init ==
    /\ runs = [run \in Run |-> "none"]
    /\ diffs = [d \in Diff |-> "absent"]
    /\ backing = [d \in Diff |-> NoRequest]
    /\ draft = [run \in Run |-> {}]
    /\ req = [r \in Request |-> Idle]
    /\ pc = [r \in Request |-> "idle"]
    /\ event = [r \in Request |-> "none"]
    /\ linked = [r \in Request |-> FALSE]
    /\ settles = [r \in Request |-> FALSE]
    /\ dead = [r \in Request |-> FALSE]

-----------------------------------------------------------------------------
(* Variant: dividends that reconciliation has booked itself do not count.   *)
ClosesUnlinked(r, g) ==
    /\ event[r] = "active" /\ ~linked[r]
    /\ req[r].diff[2] = g
    /\ g \in Dividend

(* Does the event of request r close discrepancy g?  A dividend is matched  *)
(* by any active cash dividend.  Any other discrepancy would take an        *)
(* adjustment with figures, and the handler never passes any: the default   *)
(* built from the difference carries none.                                  *)
Closes(r, g) ==
    /\ event[r] = "active"
    /\ req[r].diff[2] = g
    /\ g \in Dividend

Found == {g \in Gap : \A r \in Request : ~Closes(r, g)}

(* CreateRun: the ledger is read first, the run and its diffs become        *)
(* visible when the transaction commits.                                    *)
Compare(run) ==
    /\ runs[run] = "none" /\ draft[run] = {}
    /\ draft' = [draft EXCEPT ![run] = {Found}]
    /\ UNCHANGED <<db, req, pc, event, linked, settles, dead>>

Publish(run) ==
    /\ \E found \in draft[run] :
         /\ runs' = [runs EXCEPT ![run] = IF found = {} THEN "resolved" ELSE "open"]
         /\ diffs' = [d \in Diff |->
              IF d \in DiffsOf(run) /\ d[2] \in found THEN "pending" ELSE diffs[d]]
    /\ draft' = [draft EXCEPT ![run] = {}]
    /\ UNCHANGED <<backing, req, pc, event, linked, settles, dead>>

Abandon(run) ==
    /\ Faulty # {}
    /\ draft[run] # {}
    /\ draft' = [draft EXCEPT ![run] = {}]
    /\ UNCHANGED <<db, req, pc, event, linked, settles, dead>>

-----------------------------------------------------------------------------
Goto(r, where) == pc' = [pc EXCEPT ![r] = where]

Fails(r) == dead[r] \/ r \in Faulty

Holds(r, d) == pc[r] \in {"settle", "commit"} /\ req[r].diff = d

(* compensateAdjustment: void the event, if one was created; a call made    *)
(* with a context that has ended fails at once.                             *)
Compensate(r, where) ==
    Goto(r, IF event[r] = "active" /\ ~dead[r] THEN where ELSE "failed")

(* A request arrives and reads its difference, outside any transaction.     *)
ReadDiff(r, d, choice) ==
    /\ pc[r] = "idle"
    /\ diffs[d] # "absent"
    /\ req' = [req EXCEPT ![r] = [diff |-> d, choice |-> choice]]
    /\ Goto(r, IF diffs[d] # "pending" THEN "failed"
               ELSE IF choice = "adjusted" THEN "create" ELSE "begin")
    /\ UNCHANGED <<db, draft, event, linked, settles, dead>>

(* ledger.CreateEvent commits on its own.                                   *)
CreateEvent(r) ==
    /\ pc[r] = "create" /\ ~dead[r]
    /\ event' = [event EXCEPT ![r] = "active"]
    /\ Goto(r, "begin")
    /\ UNCHANGED <<db, draft, req, linked, settles, dead>>

(* A failed call may have committed before its answer was lost.             *)
CreateEventFails(r) ==
    /\ pc[r] = "create" /\ Fails(r)
    /\ \E e \in {"none", "active"} : event' = [event EXCEPT ![r] = e]
    /\ Goto(r, "failed")
    /\ UNCHANGED <<db, draft, req, linked, settles, dead>>

(* Begin, and the update that links a new event to the run.                 *)
Begin(r) ==
    /\ pc[r] = "begin" /\ ~dead[r]
    /\ Goto(r, "update")
    /\ UNCHANGED <<db, draft, req, event, linked, settles, dead>>

(* Variant: the update does not ask for a pending difference.               *)
UpdateResolvedToo(r) ==
    /\ pc[r] = "update" /\ ~dead[r]
    /\ \A q \in Request \ {r} : ~Holds(q, req[r].diff)
    /\ Goto(r, "settle")
    /\ UNCHANGED <<db, draft, req, event, linked, settles, dead>>

(* UPDATE reconciliation_diffs ... WHERE resolution = 'pending': waits for  *)
(* the row, then looks at its committed state.  When it matches no row the  *)
(* compensation starts inside the transaction that has linked the event.    *)
Update(r) ==
    /\ pc[r] = "update" /\ ~dead[r]
    /\ \A q \in Request \ {r} : ~Holds(q, req[r].diff)
    /\ IF diffs[req[r].diff] = "pending"
       THEN Goto(r, "settle") ELSE Compensate(r, "void_in_tx")
    /\ UNCHANGED <<db, draft, req, event, linked, settles, dead>>

(* Variant: the run is resolved whatever else is pending in it.             *)
MaybeResolveRunUnchecked(r) ==
    /\ pc[r] = "settle" /\ ~dead[r]
    /\ settles' = [settles EXCEPT ![r] = runs[req[r].diff[1]] = "open"]
    /\ Goto(r, "commit")
    /\ UNCHANGED <<db, draft, req, event, linked, dead>>

(* The statement sees what is committed and what its transaction wrote.     *)
MaybeResolveRun(r) ==
    /\ pc[r] = "settle" /\ ~dead[r]
    /\ LET d == req[r].diff
       IN  settles' = [settles EXCEPT ![r] =
             /\ runs[d[1]] = "open"
             /\ \A x \in DiffsOf(d[1]) : x = d \/ diffs[x] # "pending"]
    /\ Goto(r, "commit")
    /\ UNCHANGED <<db, draft, req, event, linked, dead>>

(* Variant: an accepted difference is given the id of the request as well.  *)
ApplyWithoutNullif(r) ==
    LET d == req[r].diff
    IN  /\ diffs' = [diffs EXCEPT ![d] = req[r].choice]
        /\ backing' = [backing EXCEPT ![d] = r]
        /\ linked' = [linked EXCEPT ![r] = event[r] = "active"]
        /\ runs' = [runs EXCEPT ![d[1]] = IF settles[r] THEN "resolved" ELSE @]

(* What the transaction wrote becomes visible.                              *)
Apply(r) ==
    LET d == req[r].diff
    IN  /\ diffs' = [diffs EXCEPT ![d] = req[r].choice]
        /\ backing' = [backing EXCEPT ![d] =
             IF event[r] = "active" THEN r ELSE NoRequest]
        /\ linked' = [linked EXCEPT ![r] = event[r] = "active"]
        /\ runs' = [runs EXCEPT ![d[1]] = IF settles[r] THEN "resolved" ELSE @]

(* The diff is read again for the answer; that read may fail too.           *)
Commit(r) ==
    /\ pc[r] = "commit" /\ ~dead[r]
    /\ Apply(r)
    /\ \E end \in IF r \in Faulty THEN Ended ELSE {"done"} : Goto(r, end)
    /\ UNCHANGED <<draft, req, event, settles, dead>>

(* A statement fails and aborts the transaction, or the commit fails; a     *)
(* commit whose answer is lost has taken place all the same.                *)
Abort(r) ==
    /\ pc[r] \in {"begin", "update", "settle", "commit"} /\ Fails(r)
    /\ Compensate(r, "void")
    /\ \/ UNCHANGED <<db, linked>>
       \/ pc[r] = "commit" /\ Apply(r)
    /\ UNCHANGED <<draft, req, event, settles, dead>>

(* Variant: the event voided is the one the difference names.               *)
VoidTheDiffsEvent(r) ==
    /\ pc[r] \in {"void", "void_in_tx"} /\ ~dead[r]
    /\ event' = [event EXCEPT ![IF backing[req[r].diff] = NoRequest
                                THEN r ELSE backing[req[r].diff]] = "voided"]
    /\ Goto(r, "failed")
    /\ UNCHANGED <<db, draft, req, linked, settles, dead>>

(* VoidEvent, on a connection of its own: while the request's transaction   *)
(* is open ("void_in_tx") it waits for the row that transaction has linked, *)
(* and the transaction ends only when the call returns.                     *)
Void(r) ==
    /\ pc[r] = "void" /\ ~dead[r]
    /\ event' = [event EXCEPT ![r] = "voided"]
    /\ Goto(r, "failed")
    /\ UNCHANGED <<db, draft, req, linked, settles, dead>>

VoidFails(r) ==
    /\ pc[r] \in {"void", "void_in_tx"} /\ Fails(r)
    /\ \E e \in {"active", "voided"} :
         /\ e = "voided" => pc[r] = "void"
         /\ event' = [event EXCEPT ![r] = e]
    /\ Goto(r, "failed")
    /\ UNCHANGED <<db, draft, req, linked, settles, dead>>

(* Variant: the compensation is given a context that never ends.            *)
TimeoutSparingVoid(r) ==
    /\ pc[r] \in InFlight \ {"void", "void_in_tx"} /\ ~dead[r]
    /\ dead' = [dead EXCEPT ![r] = TRUE]
    /\ UNCHANGED <<db, draft, req, pc, event, linked, settles>>

(* The 30 second limit of the router, or the client going away.             *)
Timeout(r) ==
    /\ pc[r] \in InFlight /\ ~dead[r]
    /\ dead' = [dead EXCEPT ![r] = TRUE]
    /\ UNCHANGED <<db, draft, req, pc, event, linked, settles>>

(* The process ends: every open transaction is rolled back.                 *)
Crash ==
    /\ \E r \in Request : pc[r] \in InFlight
    /\ pc' = [r \in Request |-> IF pc[r] \in InFlight THEN "failed" ELSE pc[r]]
    /\ dead' = [r \in Request |-> dead[r] \/ pc[r] \in InFlight]
    /\ draft' = [run \in Run |-> {}]
    /\ UNCHANGED <<db, req, event, linked, settles>>

Statement(r) ==
    \/ CreateEvent(r) \/ CreateEventFails(r)
    \/ Begin(r) \/ Update(r) \/ MaybeResolveRun(r) \/ Commit(r) \/ Abort(r)
    \/ Void(r) \/ VoidFails(r)

Next ==
    \/ \E run \in Run : Compare(run) \/ Publish(run) \/ Abandon(run)
    \/ \E r \in Request, d \in Diff, choice \in Choices : ReadDiff(r, d, choice)
    \/ \E r \in Request : Statement(r) \/ Timeout(r)
    \/ Crash

Spec == Init /\ [][Next]_vars

(* A request that can take its next step takes it, and the limit on its     *)
(* time expires; nothing obliges a request to arrive or a call to fail.     *)
FairSpec == Spec /\ \A r \in Request : WF_vars(Statement(r)) /\ WF_vars(Timeout(r))

-----------------------------------------------------------------------------
TypeOK ==
    /\ runs \in [Run -> {"none", "open", "resolved"}]
    /\ diffs \in [Diff -> {"absent", "pending"} \union Resolutions]
    /\ backing \in [Diff -> Request \union {NoRequest}]
    /\ draft \in [Run -> SUBSET SUBSET Gap]
    /\ req \in [Request -> Asked \union {Idle}]
    /\ \A r \in Request : pc[r] # "idle" => req[r] \in Asked
    /\ pc \in [Request -> InFlight \union Ended \union {"idle"}]
    /\ event \in [Request -> {"none", "active", "voided"}]
    /\ linked \in [Request -> BOOLEAN]
    /\ settles \in [Request -> BOOLEAN] /\ dead \in [Request -> BOOLEAN]
    /\ \A d \in Diff : diffs[d] = "adjusted" <=> backing[d] # NoRequest

(***************************************************************************)
(* Safety.                                                                 *)
(***************************************************************************)

(* A resolved run has no pending difference: the check maybeResolveRun      *)
(* makes inside its transaction is still true when that transaction         *)
(* commits, whatever other requests commit in between.                      *)
ResolvedRunsHaveNothingPending ==
    \A d \in Diff : runs[d[1]] = "resolved" => diffs[d] # "pending"

(* An adjusted difference names the event one of its own requests created;  *)
(* that event is linked to the run and still counts, unless that request    *)
(* was told it had failed (a lost answer to the commit, then compensation). *)
AdjustedIsBacked ==
    \A d \in Diff : backing[d] # NoRequest =>
        LET r == backing[d]
        IN  /\ req[r].diff = d /\ linked[r]
            /\ event[r] = "active" \/ pc[r] \in {"void", "failed"}

(* What a request was told it had done stays done, whatever other requests  *)
(* do about the same difference and whatever fails: the difference keeps    *)
(* the resolution it asked for, and the event it booked.                    *)
AnswersHold ==
    \A r \in Request : pc[r] = "done" =>
        LET d == req[r].diff
        IN  /\ diffs[d] = req[r].choice
            /\ backing[d] = IF req[r].choice = "adjusted" THEN r ELSE NoRequest

(* "Once every difference is settled the run becomes resolved."             *)
SettledRunsAreResolved ==
    \A run \in Run :
        /\ runs[run] = "open"
        /\ \A r \in Request : pc[r] \in {"idle"} \union Ended
        => \E d \in DiffsOf(run) : diffs[d] = "pending"

(***************************************************************************)
(* Action and liveness properties, refinement.                             *)
(***************************************************************************)

(* A missing dividend that was adjusted is not found again by any later     *)
(* comparison, unless its event was voided after a lost answer.  (For other *)
(* discrepancies this does not hold: their adjustments change nothing.)     *)
RerunFindsNoAdjustedDividend ==
    [][\A run \in Run, d \in Diff :
         /\ d[2] \in Dividend
         /\ diffs[d] = "adjusted" /\ backing[d] \notin Faulty
         => d[2] \notin UNION (draft'[run] \ draft[run])]_vars

(* The compensation of a request that lost the race for its difference      *)
(* voids the event it booked, so that no orphan is left (service.go:335 and *)
(* :531), unless the process ends first: crashes alone change dead here.    *)
LosersVoidTheirEvents ==
    [][\A r \in Request :
         /\ pc[r] = "void_in_tx" /\ pc'[r] # "void_in_tx" /\ dead'[r] = dead[r]
         => event'[r] = "voided"]_vars

(* Every request that arrived is answered, lost races and self-blocked      *)
(* compensations included.                                                  *)
EveryRequestEnds == \A r \in Request : pc[r] \in InFlight ~> pc[r] \in Ended

(* What is committed implements the specification of resolutions.           *)
Promise == INSTANCE Resolution WITH
    Event <- Request, NoEvent <- NoRequest, status <- runs, resolution <- diffs
ResolutionSpec == Promise!Spec
=============================================================================
