--------------------------- MODULE ReconcileProofs ---------------------------
(***************************************************************************)
(* Reconciliation for every number of runs, discrepancies and concurrent   *)
(* requests, with calls that fail, answers that are lost, time limits and  *)
(* crashes.                                                                *)
(***************************************************************************)
EXTENDS Reconcile, TLAPS

(* What a request has done when it is where it is.                          *)
RequestInv ==
    \A r \in Request :
        /\ pc[r] \in {"idle", "create"} => event[r] = "none"
        /\ pc[r] = "create" => req[r].choice = "adjusted"
        /\ pc[r] \in {"begin", "update", "settle", "commit"} =>
             (req[r].choice = "adjusted" <=> event[r] = "active")

(* The row lock: only one request works on a difference after its update,   *)
(* and the difference stays pending until that request commits.             *)
LockInv ==
    /\ \A r \in Request : pc[r] \in {"settle", "commit"} => diffs[req[r].diff] = "pending"
    /\ \A r, q \in Request :
         /\ pc[r] \in {"settle", "commit"}
         /\ pc[q] \in {"settle", "commit"}
         /\ req[r].diff = req[q].diff
         => r = q

(* What maybeResolveRun saw still holds when the transaction commits.       *)
SettleInv ==
    \A r \in Request : pc[r] = "commit" /\ settles[r] =>
        \A x \in DiffsOf(req[r].diff[1]) : x = req[r].diff \/ diffs[x] # "pending"

(* Runs and their differences: none before the run is published, none       *)
(* pending once it is resolved.                                             *)
RunInv ==
    /\ \A d \in Diff : runs[d[1]] = "none" => diffs[d] = "absent"
    /\ \A run \in Run : draft[run] # {} => runs[run] = "none"
    /\ ResolvedRunsHaveNothingPending

(* The event a difference names is that of a request that has committed.    *)
BackingInv ==
    \A d \in Diff : backing[d] # NoRequest =>
        /\ pc[backing[d]] \in {"void", "done", "failed"}
        /\ req[backing[d]].diff = d
        /\ linked[backing[d]]
        /\ pc[backing[d]] = "done" => event[backing[d]] = "active"

(* The inductive invariant.                                                 *)
IInv == TypeOK /\ RequestInv /\ LockInv /\ SettleInv /\ RunInv /\ BackingInv

-----------------------------------------------------------------------------
(* A difference is of a run and about a gap.                                *)
LEMMA DiffParts == \A d \in Diff : d[1] \in Run /\ d[2] \in Gap
  BY DEF Diff

(* The invariant holds before the first run.                                *)
LEMMA InitIInv == Init => IInv
  BY ReconcileAssumption, DiffParts
  DEF Init, IInv, TypeOK, RequestInv, LockInv, SettleInv, RunInv, BackingInv,
      ResolvedRunsHaveNothingPending, InFlight, Ended, Idle, Resolutions

(* A request that is under way has a difference, a resolution and a run.    *)
LEMMA RequestParts ==
  ASSUME TypeOK, NEW r \in Request, pc[r] # "idle"
  PROVE  /\ req[r].diff \in Diff
         /\ req[r].diff[1] \in Run
         /\ req[r].choice \in Resolutions
  BY DiffParts DEF TypeOK, Asked

(***************************************************************************)
(* The actions of CreateRun.                                               *)
(***************************************************************************)
LEMMA RunSteps ==
  ASSUME IInv, NEW run \in Run, Compare(run) \/ Publish(run) \/ Abandon(run)
  PROVE  IInv'
<1> USE ReconcileAssumption, DiffParts DEF IInv, db
<1>1. CASE Compare(run)
  <2>1. Found \subseteq Gap
    BY DEF Found
  <2>2. TypeOK'
    BY <1>1, <2>1 DEF Compare, TypeOK
  <2>3. RunInv'
    BY <1>1 DEF Compare, TypeOK, RunInv, ResolvedRunsHaveNothingPending
  <2> QED BY <1>1, <2>2, <2>3 DEF Compare, RequestInv, LockInv, SettleInv, BackingInv
<1>2. CASE Publish(run)
  <2>1. PICK found \in draft[run] :
          /\ runs' = [runs EXCEPT ![run] = IF found = {} THEN "resolved" ELSE "open"]
          /\ diffs' = [d \in Diff |->
               IF d \in DiffsOf(run) /\ d[2] \in found THEN "pending" ELSE diffs[d]]
    BY <1>2 DEF Publish
  <2>2. runs[run] = "none" /\ \A d \in DiffsOf(run) : diffs[d] = "absent"
    BY <2>1 DEF RunInv, TypeOK, DiffsOf
  <2>3. \A d \in Diff : d[1] # run => diffs'[d] = diffs[d]
    BY <2>1 DEF DiffsOf
  <2>4. \A d \in Diff : diffs[d] # "absent" => diffs'[d] = diffs[d] /\ d[1] # run
    BY <2>1, <2>2 DEF DiffsOf
  <2>5. TypeOK'
    BY <1>2, <2>1, <2>2 DEF Publish, TypeOK, DiffsOf, Resolutions
  <2>6. RequestInv' /\ BackingInv'
    BY <1>2 DEF Publish, RequestInv, BackingInv
  <2>7. LockInv'
    BY <1>2, <2>4, RequestParts DEF Publish, LockInv, TypeOK
  <2>8. SettleInv'
    <3> SUFFICES ASSUME NEW r \in Request, pc[r] = "commit", settles[r],
                        NEW x \in DiffsOf(req[r].diff[1])
                 PROVE  x = req[r].diff \/ diffs'[x] # "pending"
      BY <1>2 DEF Publish, SettleInv
    <3>1. req[r].diff \in Diff /\ diffs[req[r].diff] = "pending"
      BY RequestParts DEF LockInv
    <3>2. req[r].diff[1] # run
      BY <3>1, <2>4
    <3> QED BY <3>2, <2>3 DEF SettleInv, DiffsOf
  <2>9. RunInv'
    BY <1>2, <2>1, <2>2, <2>3
    DEF Publish, TypeOK, RunInv, ResolvedRunsHaveNothingPending, DiffsOf
  <2> QED BY <2>5, <2>6, <2>7, <2>8, <2>9
<1>3. CASE Abandon(run)
  BY <1>3 DEF Abandon, TypeOK, RequestInv, LockInv, SettleInv, RunInv, BackingInv,
              ResolvedRunsHaveNothingPending
<1> QED BY <1>1, <1>2, <1>3

(***************************************************************************)
(* The statements of a resolve request.                                    *)
(***************************************************************************)
LEMMA ReadStep ==
  ASSUME IInv, NEW r \in Request, NEW d \in Diff, NEW choice \in Choices,
         ReadDiff(r, d, choice)
  PROVE  IInv'
<1> USE ReconcileAssumption, DiffParts DEF IInv, ReadDiff, Goto, db
<1>1. TypeOK'
  BY DEF TypeOK, InFlight, Ended, Asked, Resolutions
<1>2. RequestInv'
  BY DEF TypeOK, RequestInv
<1>3. LockInv' /\ SettleInv'
  BY DEF TypeOK, LockInv, SettleInv
<1>4. RunInv' /\ BackingInv'
  BY DEF TypeOK, RunInv, BackingInv, ResolvedRunsHaveNothingPending
<1> QED BY <1>1, <1>2, <1>3, <1>4

(* The steps that change neither the runs nor the differences.              *)
LEMMA StatementSteps ==
  ASSUME IInv, NEW r \in Request,
         \/ CreateEvent(r) \/ CreateEventFails(r) \/ Begin(r) \/ Update(r)
         \/ MaybeResolveRun(r) \/ Void(r) \/ VoidFails(r) \/ Timeout(r)
  PROVE  IInv'
<1> USE ReconcileAssumption, DiffParts, RequestParts DEF IInv, Goto, Compensate, db
<1>1. CASE CreateEvent(r)
  BY <1>1 DEF CreateEvent, TypeOK, InFlight, Ended, RequestInv, LockInv, SettleInv,
              RunInv, BackingInv, ResolvedRunsHaveNothingPending
<1>2. CASE CreateEventFails(r)
  BY <1>2 DEF CreateEventFails, TypeOK, InFlight, Ended, RequestInv, LockInv, SettleInv,
              RunInv, BackingInv, ResolvedRunsHaveNothingPending
<1>3. CASE Begin(r)
  BY <1>3 DEF Begin, TypeOK, InFlight, Ended, RequestInv, LockInv, SettleInv,
              RunInv, BackingInv, ResolvedRunsHaveNothingPending
<1>4. CASE Update(r)
  <2>1. TypeOK' /\ RequestInv' /\ SettleInv' /\ RunInv' /\ BackingInv'
    BY <1>4 DEF Update, TypeOK, InFlight, Ended, RequestInv, SettleInv,
                RunInv, BackingInv, ResolvedRunsHaveNothingPending
  <2>2. LockInv'
    BY <1>4 DEF Update, Holds, TypeOK, LockInv
  <2> QED BY <2>1, <2>2
<1>5. CASE MaybeResolveRun(r)
  <2>1. TypeOK' /\ RequestInv' /\ LockInv' /\ RunInv' /\ BackingInv'
    BY <1>5 DEF MaybeResolveRun, TypeOK, InFlight, Ended, RequestInv, LockInv,
                RunInv, BackingInv, ResolvedRunsHaveNothingPending
  <2>2. SettleInv'
    BY <1>5 DEF MaybeResolveRun, TypeOK, SettleInv, DiffsOf
  <2> QED BY <2>1, <2>2
<1>6. CASE Void(r)
  BY <1>6 DEF Void, TypeOK, InFlight, Ended, RequestInv, LockInv, SettleInv,
              RunInv, BackingInv, ResolvedRunsHaveNothingPending
<1>7. CASE VoidFails(r)
  BY <1>7 DEF VoidFails, TypeOK, InFlight, Ended, RequestInv, LockInv, SettleInv,
              RunInv, BackingInv, ResolvedRunsHaveNothingPending
<1>8. CASE Timeout(r)
  BY <1>8 DEF Timeout, TypeOK, InFlight, Ended, RequestInv, LockInv, SettleInv,
              RunInv, BackingInv, ResolvedRunsHaveNothingPending
<1> QED BY <1>1, <1>2, <1>3, <1>4, <1>5, <1>6, <1>7, <1>8

(* What becomes visible when a transaction commits, whether or not its      *)
(* client learns of it.                                                     *)
LEMMA ApplyStep ==
  ASSUME IInv, NEW r \in Request, pc[r] = "commit", Apply(r),
         NEW where \in {"void", "done", "failed"}, pc' = [pc EXCEPT ![r] = where],
         UNCHANGED <<draft, req, event, settles, dead>>
  PROVE  IInv'
<1> DEFINE d == req[r].diff
<1> USE ReconcileAssumption, DiffParts DEF IInv
<1>1. /\ d \in Diff /\ d[1] \in Run
      /\ req[r].choice \in Resolutions
      /\ req[r].choice = "adjusted" <=> event[r] = "active"
      /\ diffs[d] = "pending"
  BY RequestParts DEF RequestInv, LockInv
<1>2. /\ diffs' = [diffs EXCEPT ![d] = req[r].choice]
      /\ backing' = [backing EXCEPT ![d] = IF event[r] = "active" THEN r ELSE NoRequest]
      /\ linked' = [linked EXCEPT ![r] = event[r] = "active"]
      /\ runs' = [runs EXCEPT ![d[1]] = IF settles[r] THEN "resolved" ELSE runs[d[1]]]
  BY DEF Apply
<1>3. diffs'[d] # "pending" /\ \A x \in Diff : x # d => diffs'[x] = diffs[x]
  BY <1>1, <1>2 DEF TypeOK, Resolutions
<1>4. TypeOK'
  BY <1>1, <1>2 DEF TypeOK, InFlight, Ended, Resolutions
<1>5. RequestInv'
  BY DEF TypeOK, RequestInv
<1>6. LockInv'
  <2>1. \A q \in Request : pc'[q] \in {"settle", "commit"} =>
          q # r /\ pc[q] = pc'[q] /\ req[q].diff \in Diff /\ req[q].diff # d
    BY RequestParts DEF TypeOK, LockInv
  <2> QED BY <2>1, <1>3 DEF LockInv
<1>7. SettleInv'
  <2> SUFFICES ASSUME NEW q \in Request, pc'[q] = "commit", settles[q],
                      NEW x \in DiffsOf(req[q].diff[1])
               PROVE  x = req[q].diff \/ diffs'[x] # "pending"
    BY DEF SettleInv
  <2>1. pc[q] = "commit" /\ x \in Diff
    BY DEF TypeOK, DiffsOf
  <2> QED BY <2>1, <1>3 DEF SettleInv
<1>8. RunInv'
  <2>1. \A x \in Diff : x[1] = d[1] => runs[x[1]] # "none"
    BY <1>1 DEF RunInv
  <2>2. settles[r] => \A x \in Diff : x[1] = d[1] => diffs'[x] # "pending"
    BY <1>3 DEF SettleInv, DiffsOf
  <2>3. \A x \in Diff : runs'[x[1]] = "none" => diffs'[x] = "absent"
    BY <1>1, <1>2, <1>3, <2>1 DEF TypeOK, RunInv
  <2>4. \A run \in Run : draft'[run] # {} => runs'[run] = "none"
    BY <1>1, <1>2, <2>1 DEF TypeOK, RunInv
  <2>5. ResolvedRunsHaveNothingPending'
    BY <1>1, <1>2, <1>3, <2>2 DEF TypeOK, RunInv, ResolvedRunsHaveNothingPending
  <2> QED BY <2>3, <2>4, <2>5 DEF RunInv
<1>9. BackingInv'
  <2> SUFFICES ASSUME NEW x \in Diff, backing'[x] # NoRequest
               PROVE  /\ pc'[backing'[x]] \in {"void", "done", "failed"}
                      /\ req[backing'[x]].diff = x
                      /\ linked'[backing'[x]]
                      /\ pc'[backing'[x]] = "done" => event[backing'[x]] = "active"
    BY DEF BackingInv
  <2>1. CASE x = d
    <3>1. backing'[x] = r /\ event[r] = "active"
      BY <2>1, <1>1, <1>2 DEF TypeOK
    <3>2. linked'[r] /\ pc'[r] = where
      BY <3>1, <1>2 DEF TypeOK
    <3> QED BY <2>1, <3>1, <3>2
  <2>2. CASE x # d
    <3>1. backing'[x] = backing[x]
      BY <2>2, <1>1, <1>2 DEF TypeOK
    <3>2. backing[x] \in Request /\ backing[x] # r
      BY <3>1 DEF TypeOK, BackingInv
    <3> QED BY <3>1, <3>2, <1>2 DEF TypeOK, BackingInv
  <2> QED BY <2>1, <2>2
<1> QED BY <1>4, <1>5, <1>6, <1>7, <1>8, <1>9

(* The end of a request keeps it.                                           *)
LEMMA EndSteps ==
  ASSUME IInv, NEW r \in Request, Commit(r) \/ Abort(r)
  PROVE  IInv'
<1> USE ReconcileAssumption, DiffParts DEF IInv, Goto, Compensate, db
<1>1. CASE Commit(r)
  <2>1. PICK end \in IF r \in Faulty THEN Ended ELSE {"done"} : Goto(r, end)
    BY <1>1 DEF Commit
  <2> QED BY <1>1, <2>1, ApplyStep DEF Commit, Ended
<1>2. CASE Abort(r) /\ UNCHANGED <<db, linked>>
  BY <1>2, RequestParts DEF Abort, TypeOK, InFlight, Ended, RequestInv, LockInv, SettleInv,
              RunInv, BackingInv, ResolvedRunsHaveNothingPending
<1>3. CASE Abort(r) /\ pc[r] = "commit" /\ Apply(r)
  BY <1>3, ApplyStep DEF Abort
<1> QED BY <1>1, <1>2, <1>3 DEF Abort

(* A crash keeps it.                                                        *)
LEMMA CrashStep ==
  ASSUME IInv, Crash
  PROVE  IInv'
  BY RequestParts, DiffParts
  DEF IInv, Crash, TypeOK, InFlight, Ended, RequestInv, LockInv, SettleInv,
      RunInv, BackingInv, ResolvedRunsHaveNothingPending, db

(* It holds throughout.                                                     *)
LEMMA Invariance == Spec => []IInv
<1>1. ASSUME IInv, [Next]_vars PROVE IInv'
  <2>1. CASE UNCHANGED vars
    BY <1>1, <2>1 DEF vars, db, IInv, TypeOK, RequestInv, LockInv, SettleInv,
                      RunInv, BackingInv, ResolvedRunsHaveNothingPending
  <2> QED BY <1>1, <2>1, RunSteps, ReadStep, StatementSteps, EndSteps, CrashStep
          DEF Next, Statement
<1> QED BY InitIInv, <1>1, PTL DEF Spec

-----------------------------------------------------------------------------
(* The variables keep their types, and a difference names an event exactly  *)
(* when it was adjusted.                                                    *)
THEOREM Typing == Spec => []TypeOK
<1>1. IInv => TypeOK
  BY DEF IInv
<1> QED BY Invariance, <1>1, PTL

(* A resolved run has no pending difference, however requests overlap.      *)
THEOREM ResolvedRuns == Spec => []ResolvedRunsHaveNothingPending
<1>1. IInv => ResolvedRunsHaveNothingPending
  BY DEF IInv, RunInv
<1> QED BY Invariance, <1>1, PTL

(* An adjusted difference is backed by the linked and active event of one   *)
(* of its own requests, unless that request was told it had failed.         *)
THEOREM AdjustedDiffsAreBacked == Spec => []AdjustedIsBacked
<1>1. IInv => AdjustedIsBacked
  BY DEF IInv, TypeOK, BackingInv, AdjustedIsBacked
<1> QED BY Invariance, <1>1, PTL

(* What an answered request has done: its difference has been resolved as   *)
(* it asked, and no later commit touches a difference that is resolved.     *)
LEMMA AnswerStep ==
  ASSUME IInv, AnswersHold, [Next]_vars
  PROVE  AnswersHold'
<1> USE ReconcileAssumption DEF IInv, db
<1> SUFFICES ASSUME NEW r \in Request, pc'[r] = "done"
             PROVE  /\ diffs'[req'[r].diff] = req'[r].choice
                    /\ backing'[req'[r].diff] = IF req'[r].choice = "adjusted" THEN r ELSE NoRequest
  BY DEF AnswersHold
<1> DEFINE Kept == /\ diffs'[req'[r].diff] = req'[r].choice
                   /\ backing'[req'[r].diff] = IF req'[r].choice = "adjusted" THEN r ELSE NoRequest
(* An answer already given: its difference is resolved.                     *)
<1>1. ASSUME pc[r] = "done"
      PROVE  /\ req[r].diff \in Diff /\ req[r].choice \in Resolutions
             /\ diffs[req[r].diff] \in Resolutions
             /\ diffs[req[r].diff] = req[r].choice
             /\ backing[req[r].diff] = IF req[r].choice = "adjusted" THEN r ELSE NoRequest
  BY <1>1, RequestParts DEF AnswersHold
<1>2. ASSUME pc[r] = "done", req'[r] = req[r], NEW q \in Request, pc[q] = "commit", Apply(q)
      PROVE  Kept
  <2>1. diffs[req[q].diff] = "pending" /\ req[q].diff \in Diff
    BY <1>2, RequestParts DEF LockInv
  <2>2. req[q].diff # req[r].diff
    BY <1>1, <1>2, <2>1 DEF Resolutions
  <2> QED BY <1>1, <1>2, <2>1, <2>2 DEF Apply, TypeOK
<1>3. ASSUME pc[r] = "done", req'[r] = req[r], UNCHANGED <<diffs, backing>>
      PROVE  Kept
  BY <1>1, <1>3
<1>4. ASSUME NEW q \in Request, Statement(q), q # r PROVE Kept
  <2>1. pc[r] = "done" /\ req' = req
    <3>1. CASE Commit(q) \/ Abort(q)
      BY <1>4, <3>1 DEF Commit, Abort, Compensate, Goto, TypeOK
    <3>2. CASE CreateEvent(q) \/ CreateEventFails(q) \/ Begin(q) \/ Update(q)
      BY <1>4, <3>2 DEF CreateEvent, CreateEventFails, Begin, Update, Compensate, Goto, TypeOK
    <3>3. CASE MaybeResolveRun(q) \/ Void(q) \/ VoidFails(q)
      BY <1>4, <3>3 DEF MaybeResolveRun, Void, VoidFails, Goto, TypeOK
    <3> QED BY <1>4, <3>1, <3>2, <3>3 DEF Statement
  <2>2. UNCHANGED <<diffs, backing>> \/ (pc[q] = "commit" /\ Apply(q))
    BY <1>4 DEF Statement, CreateEvent, CreateEventFails, Begin, Update, MaybeResolveRun,
                Commit, Abort, Void, VoidFails
  <2> QED BY <1>2, <1>3, <2>1, <2>2
<1>5. ASSUME Statement(r) PROVE Kept
  <2>1. Commit(r)
    <3>1. ~(CreateEvent(r) \/ CreateEventFails(r) \/ Begin(r) \/ Update(r))
      BY DEF CreateEvent, CreateEventFails, Begin, Update, Compensate, Goto, TypeOK
    <3>2. ~(MaybeResolveRun(r) \/ Void(r) \/ VoidFails(r) \/ Abort(r))
      BY DEF MaybeResolveRun, Void, VoidFails, Abort, Compensate, Goto, TypeOK
    <3> QED BY <1>5, <3>1, <3>2 DEF Statement
  <2>2. req[r].diff \in Diff /\ (req[r].choice = "adjusted" <=> event[r] = "active")
    BY <2>1, RequestParts DEF Commit, RequestInv
  <2> QED BY <2>1, <2>2 DEF Commit, Apply, TypeOK
<1>6. ASSUME NEW run \in Run, Publish(run) PROVE Kept
  <2>1. PICK found \in draft[run] :
          diffs' = [d \in Diff |->
            IF d \in DiffsOf(run) /\ d[2] \in found THEN "pending" ELSE diffs[d]]
    BY <1>6 DEF Publish
  <2>2. \A d \in DiffsOf(run) : diffs[d] = "absent"
    BY <2>1 DEF RunInv, DiffsOf
  <2>3. pc[r] = "done" /\ req' = req /\ backing' = backing
    BY <1>6 DEF Publish
  <2>4. req[r].diff \notin DiffsOf(run)
    BY <1>1, <2>2, <2>3 DEF Resolutions
  <2> QED BY <1>1, <2>1, <2>3, <2>4
<1>7. ASSUME NEW run \in Run, Compare(run) \/ Abandon(run) PROVE Kept
  BY <1>3, <1>7 DEF Compare, Abandon
<1>8. ASSUME NEW q \in Request, NEW d \in Diff, NEW choice \in Choices, ReadDiff(q, d, choice)
      PROVE  Kept
  <2>1. pc[r] = "done" /\ q # r
    BY <1>8 DEF ReadDiff, Goto, TypeOK
  <2> QED BY <1>3, <1>8, <2>1 DEF ReadDiff, TypeOK
<1>9. ASSUME NEW q \in Request, Timeout(q) PROVE Kept
  BY <1>3, <1>9 DEF Timeout
<1>10. ASSUME Crash PROVE Kept
  BY <1>3, <1>10 DEF Crash, TypeOK
<1>11. ASSUME UNCHANGED vars PROVE Kept
  BY <1>3, <1>11 DEF vars
<1> QED BY <1>4, <1>5, <1>6, <1>7, <1>8, <1>9, <1>10, <1>11 DEF Next

(* What a request was told it had done stays done, however requests for the *)
(* same difference overlap and fail.                                        *)
THEOREM Answers == Spec => []AnswersHold
<1>1. Init => AnswersHold
  BY DEF Init, AnswersHold
<1> QED BY Invariance, <1>1, AnswerStep, PTL DEF Spec

(* A request whose calls work and whose event a difference names has ended, *)
(* and its event still counts.                                              *)
StandingInv ==
    \A d \in Diff : backing[d] # NoRequest /\ backing[d] \notin Faulty =>
        pc[backing[d]] \in Ended /\ event[backing[d]] = "active"

(* No statement of a request disturbs it.                                   *)
LEMMA StatementKeepsStanding ==
  ASSUME IInv, StandingInv, NEW r \in Request, Statement(r)
  PROVE  StandingInv'
<1> USE ReconcileAssumption DEF IInv, db
<1>1. pc[r] \in InFlight /\ req' = req /\ pc[r] # "idle"
      /\ \A q \in Request : q # r => pc'[q] = pc[q] /\ event'[q] = event[q]
  <2>1. CASE CreateEvent(r) \/ CreateEventFails(r) \/ Begin(r) \/ Update(r)
    BY <2>1 DEF CreateEvent, CreateEventFails, Begin, Update, Compensate, Goto, TypeOK, InFlight
  <2>2. CASE MaybeResolveRun(r) \/ Void(r) \/ VoidFails(r)
    BY <2>2 DEF MaybeResolveRun, Void, VoidFails, Goto, TypeOK, InFlight
  <2>3. CASE Commit(r) \/ Abort(r)
    BY <2>3 DEF Commit, Abort, Compensate, Goto, TypeOK, InFlight
  <2> QED BY <2>1, <2>2, <2>3 DEF Statement
(* A request under way is named by no difference, if its calls work.        *)
<1>3. \A d \in Diff : backing[d] = r => r \in Faulty
  BY <1>1 DEF StandingInv, InFlight, Ended, TypeOK
<1>4. ASSUME UNCHANGED backing PROVE StandingInv'
  BY <1>1, <1>3, <1>4 DEF StandingInv, TypeOK
<1>5. ASSUME pc[r] = "commit", Apply(r), event' = event, r \notin Faulty => pc'[r] \in Ended
      PROVE  StandingInv'
  <2> SUFFICES ASSUME NEW d \in Diff, backing'[d] # NoRequest, backing'[d] \notin Faulty
               PROVE  pc'[backing'[d]] \in Ended /\ event'[backing'[d]] = "active"
    BY DEF StandingInv
  <2>1. CASE d = req[r].diff
    <3>1. backing'[d] = r /\ event[r] = "active"
      BY <1>5, <2>1 DEF Apply, TypeOK
    <3> QED BY <1>5, <3>1
  <2>2. CASE d # req[r].diff
    <3>1. backing'[d] = backing[d] /\ backing[d] # r
      BY <1>3, <1>5, <2>2 DEF Apply, TypeOK
    <3> QED BY <1>1, <1>5, <3>1 DEF StandingInv, TypeOK
  <2> QED BY <2>1, <2>2
<1>6. CASE Commit(r)
  <2>1. PICK end \in IF r \in Faulty THEN Ended ELSE {"done"} : Goto(r, end)
    BY <1>6 DEF Commit
  <2>2. r \notin Faulty => pc'[r] \in Ended
    BY <2>1 DEF Goto, TypeOK, Ended
  <2> QED BY <1>5, <1>6, <2>2 DEF Commit
<1>7. CASE Abort(r)
  <2>1. r \notin Faulty => pc'[r] \in Ended
    BY <1>7 DEF Abort, Fails, Compensate, Goto, TypeOK, Ended
  <2> QED BY <1>4, <1>5, <1>7, <2>1 DEF Abort
<1>8. ASSUME Statement(r), ~Commit(r), ~Abort(r) PROVE StandingInv'
  <2>1. UNCHANGED backing
    BY <1>8 DEF Statement, CreateEvent, CreateEventFails, Begin, Update, MaybeResolveRun,
                Void, VoidFails
  <2> QED BY <1>4, <2>1
<1> QED BY <1>6, <1>7, <1>8

(* It holds throughout.                                                     *)
LEMMA StandingInvariance == Spec => []StandingInv
<1>1. Init => StandingInv
  BY DEF Init, StandingInv
<1>2. ASSUME IInv, StandingInv, [Next]_vars PROVE StandingInv'
  <2> USE ReconcileAssumption DEF IInv, db
  <2>1. ASSUME NEW run \in Run, Compare(run) \/ Publish(run) \/ Abandon(run)
        PROVE  StandingInv'
    BY <1>2, <2>1 DEF Compare, Publish, Abandon, StandingInv
  <2>2. ASSUME NEW r \in Request, NEW d \in Diff, NEW choice \in Choices,
               ReadDiff(r, d, choice)
        PROVE  StandingInv'
    <3>1. \A x \in Diff : backing[x] # r
      BY <1>2, <2>2 DEF ReadDiff, BackingInv, TypeOK
    <3> QED BY <1>2, <2>2, <3>1 DEF ReadDiff, Goto, StandingInv, TypeOK, Ended
  <2>3. ASSUME NEW r \in Request, Timeout(r) PROVE StandingInv'
    BY <1>2, <2>3 DEF Timeout, StandingInv
  <2>4. CASE Crash
    BY <1>2, <2>4 DEF Crash, StandingInv, TypeOK, InFlight, Ended
  <2>5. CASE UNCHANGED vars
    BY <1>2, <2>5 DEF vars, StandingInv
  <2> QED BY <1>2, <2>1, <2>2, <2>3, <2>4, <2>5, StatementKeepsStanding DEF Next
<1> QED BY Invariance, <1>1, <1>2, PTL DEF Spec

(* An adjusted dividend does not come back: its event closes its            *)
(* discrepancy for every later comparison, for any runs and requests.       *)
THEOREM RerunsFindNoAdjustedDividend == Spec => RerunFindsNoAdjustedDividend
<1> DEFINE Booked(run, d) ==
      /\ d[2] \in Dividend
      /\ diffs[d] = "adjusted" /\ backing[d] \notin Faulty
      => d[2] \notin UNION (draft'[run] \ draft[run])
<1>1. ASSUME IInv, StandingInv, [Next]_vars, NEW run \in Run, NEW d \in Diff
      PROVE  Booked(run, d)
  <2> USE DEF IInv
  <2>1. CASE draft'[run] \subseteq draft[run]
    BY <2>1
  <2>2. CASE Compare(run)
    <3> SUFFICES ASSUME d[2] \in Dividend, diffs[d] = "adjusted", backing[d] \notin Faulty
                 PROVE  d[2] \notin Found
      BY <2>2 DEF Compare, TypeOK
    <3>1. backing[d] \in Request /\ req[backing[d]].diff = d
      BY <1>1, ReconcileAssumption DEF TypeOK, BackingInv
    <3>2. pc[backing[d]] \in Ended /\ event[backing[d]] = "active"
      BY <1>1, <3>1, ReconcileAssumption DEF StandingInv
    <3> QED BY <3>1, <3>2 DEF Found, Closes
  <2>3. draft'[run] \subseteq draft[run] \/ Compare(run)
    <3>1. ASSUME NEW q \in Run, Compare(q) \/ Publish(q) \/ Abandon(q), ~Compare(run)
          PROVE  draft'[run] \subseteq draft[run]
      BY <1>1, <3>1 DEF Compare, Publish, Abandon, TypeOK
    <3>2. ASSUME NEW r \in Request, Statement(r) \/ Timeout(r) PROVE draft' = draft
      BY <3>2 DEF Statement, CreateEvent, CreateEventFails, Begin, Update, MaybeResolveRun,
                  Commit, Abort, Void, VoidFails, Timeout
    <3>3. Crash => draft'[run] \subseteq draft[run]
      BY DEF Crash
    <3> QED BY <1>1, <3>1, <3>2, <3>3 DEF Next, ReadDiff, vars
  <2> QED BY <2>1, <2>2, <2>3
<1>2. IInv /\ StandingInv /\ [Next]_vars => [\A run \in Run, d \in Diff : Booked(run, d)]_vars
  BY <1>1
<1> QED BY Invariance, StandingInvariance, <1>2, PTL DEF Spec, RerunFindsNoAdjustedDividend

(* A commit resolves one pending difference, for good, and names an event   *)
(* no other difference names.                                               *)
LEMMA ApplyResolves ==
  ASSUME IInv, NEW r \in Request, pc[r] = "commit", Apply(r)
  PROVE  Promise!Next
<1> DEFINE d == req[r].diff
           e == IF event[r] = "active" THEN r ELSE NoRequest
<1>1. /\ d \in Run \X Gap
      /\ req[r].choice \in Resolutions
      /\ diffs[d] = "pending"
      /\ req[r].choice = "adjusted" <=> e # NoRequest
  BY RequestParts, ReconcileAssumption DEF IInv, RequestInv, LockInv, Diff
<1>2. e # NoRequest => \A x \in Run \X Gap : backing[x] # e
  BY ReconcileAssumption DEF IInv, TypeOK, BackingInv, Diff
<1>3. settles[r] => \A x \in Promise!Of(d[1]) : x = d \/ diffs[x] # "pending"
  BY DEF IInv, SettleInv, DiffsOf, Diff, Promise!Of
<1>4. Promise!Resolve(d, req[r].choice, e, settles[r])
  BY <1>1, <1>2, <1>3 DEF Apply, Promise!Resolve
<1>5. settles[r] \in BOOLEAN /\ e \in Request \union {NoRequest}
  BY DEF IInv, TypeOK
<1> QED BY <1>1, <1>4, <1>5 DEF Promise!Next, Resolutions

(* Publishing a comparison opens its differences, once.                     *)
LEMMA PublishOpens ==
  ASSUME IInv, NEW run \in Run, Publish(run)
  PROVE  Promise!Next
<1>1. PICK found \in draft[run] :
        /\ runs' = [runs EXCEPT ![run] = IF found = {} THEN "resolved" ELSE "open"]
        /\ diffs' = [d \in Diff |->
             IF d \in DiffsOf(run) /\ d[2] \in found THEN "pending" ELSE diffs[d]]
  BY DEF Publish
<1>2. runs[run] = "none" /\ found \in SUBSET Gap
  BY DEF IInv, TypeOK, RunInv
<1>3. Promise!Open(run, found)
  BY <1>1, <1>2 DEF Publish, Promise!Open, Promise!Of, DiffsOf, Diff
<1> QED BY <1>2, <1>3 DEF Promise!Next

(* The committed runs and differences implement the specification of what   *)
(* reconciliation promises: every other step leaves them alone.             *)
THEOREM Refinement == Spec => ResolutionSpec
<1>1. Init => Promise!Init
  BY DEF Init, Promise!Init, Diff
<1>2. ASSUME IInv, [Next]_vars PROVE [Promise!Next]_(Promise!vars)
  <2>1. CASE \E run \in Run : Publish(run)
    BY <1>2, <2>1, PublishOpens
  <2>2. CASE \E r \in Request : pc[r] = "commit" /\ Apply(r)
    BY <1>2, <2>2, ApplyResolves
  <2>3. CASE UNCHANGED db
    BY <2>3 DEF db, Promise!vars
  <2>4. ASSUME NEW run \in Run, Compare(run) \/ Abandon(run) PROVE UNCHANGED db
    BY <2>4 DEF Compare, Abandon
  <2>5. ASSUME NEW r \in Request, NEW d \in Diff, NEW choice \in Choices,
               ReadDiff(r, d, choice)
        PROVE  UNCHANGED db
    BY <2>5 DEF ReadDiff
  <2>6. ASSUME NEW r \in Request, Statement(r)
        PROVE  UNCHANGED db \/ (pc[r] = "commit" /\ Apply(r))
    <3>1. Commit(r) \/ Abort(r) => UNCHANGED db \/ (pc[r] = "commit" /\ Apply(r))
      BY DEF Commit, Abort
    <3>2. CreateEvent(r) \/ CreateEventFails(r) \/ Begin(r) \/ Update(r) => UNCHANGED db
      BY DEF CreateEvent, CreateEventFails, Begin, Update
    <3>3. MaybeResolveRun(r) \/ Void(r) \/ VoidFails(r) => UNCHANGED db
      BY DEF MaybeResolveRun, Void, VoidFails
    <3> QED BY <2>6, <3>1, <3>2, <3>3 DEF Statement
  <2>7. ASSUME NEW r \in Request, Timeout(r) PROVE UNCHANGED db
    BY <2>7 DEF Timeout
  <2>8. Crash => UNCHANGED db
    BY DEF Crash
  <2>9. UNCHANGED vars => UNCHANGED db
    BY DEF vars, db
  <2> QED BY <1>2, <2>1, <2>2, <2>3, <2>4, <2>5, <2>6, <2>7, <2>8, <2>9 DEF Next
<1> QED BY Invariance, <1>1, <1>2, PTL DEF Spec, ResolutionSpec, Promise!Spec
=============================================================================
