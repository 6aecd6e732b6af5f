----------------------------- MODULE Resolution -----------------------------
(***************************************************************************)
(* What reconciliation promises about one user's runs: a run opens with    *)
(* its differences pending, every difference is resolved at most once and  *)
(* for good, an adjusted one names exactly one ledger event that no other  *)
(* difference names, and a run is resolved only when nothing in it is      *)
(* pending any more.                                                       *)
(***************************************************************************)
CONSTANTS Run, Gap, Event, NoEvent

VARIABLES status, resolution, backing

vars == <<status, resolution, backing>>

Of(run) == {d \in Run \X Gap : d[1] = run}

Init ==
    /\ status = [run \in Run |-> "none"]
    /\ resolution = [d \in Run \X Gap |-> "absent"]
    /\ backing = [d \in Run \X Gap |-> NoEvent]

Open(run, found) ==
    /\ status[run] = "none"
    /\ status' = [status EXCEPT ![run] = IF found = {} THEN "resolved" ELSE "open"]
    /\ resolution' = [d \in Run \X Gap |->
         IF d \in Of(run) /\ d[2] \in found THEN "pending" ELSE resolution[d]]
    /\ UNCHANGED backing

(* A run that is not settled by its last resolution stays open: the promise *)
(* to settle it is a property of its own (SettledRunsAreResolved).          *)
Resolve(d, choice, e, settles) ==
    /\ resolution[d] = "pending"
    /\ choice = "adjusted" <=> e # NoEvent
    /\ e # NoEvent => \A x \in Run \X Gap : backing[x] # e
    /\ settles => \A x \in Of(d[1]) : x = d \/ resolution[x] # "pending"
    /\ resolution' = [resolution EXCEPT ![d] = choice]
    /\ backing' = [backing EXCEPT ![d] = e]
    /\ status' = [status EXCEPT ![d[1]] = IF settles THEN "resolved" ELSE @]

Next ==
    \/ \E run \in Run, found \in SUBSET Gap : Open(run, found)
    \/ \E d \in Run \X Gap, choice \in {"accepted_as_is", "fixed_input", "adjusted"},
          e \in Event \union {NoEvent}, settles \in BOOLEAN : Resolve(d, choice, e, settles)

Spec == Init /\ [][Next]_vars
=============================================================================
