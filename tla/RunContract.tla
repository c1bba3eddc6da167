---------------------------- MODULE RunContract ----------------------------
(***************************************************************************)
(* What the runs table promises its readers, whoever executes the runs.    *)
(* A run is submitted, claimed once, and ended once.  The one exception    *)
(* is written into the contract: a run that was ended while its worker     *)
(* was still executing it is contested, and only that worker may replace   *)
(* the recorded ending.  An ending that is not contested is final, and a   *)
(* settled run is never contested again.                                   *)
(***************************************************************************)

CONSTANT Runs

VARIABLES status,      \* the status column of each run
          contested    \* ended runs whose worker has not let go of them

vars == <<status, contested>>

Terminal == {"succeeded", "failed", "errored", "timed_out", "cancelled"}
Status == Terminal \cup {"absent", "queued", "running"}

TypeOK ==
  /\ status \in [Runs -> Status]
  /\ contested \subseteq {r \in Runs : status[r] \in Terminal}

Init ==
  /\ status = [r \in Runs |-> "absent"]
  /\ contested = {}

Move(r, from, to) ==
  /\ status[r] \in from
  /\ status' = [status EXCEPT ![r] = to]

Submit(r) == Move(r, {"absent"}, "queued") /\ UNCHANGED contested
Claim(r) == Move(r, {"queued"}, "running") /\ UNCHANGED contested
Withdraw(r) == Move(r, {"queued"}, "cancelled") /\ UNCHANGED contested

End(r) ==
  /\ \E s \in Terminal : Move(r, {"running"}, s)
  /\ contested' \in {contested, contested \cup {r}}

Overturn(r) ==
  /\ r \in contested
  /\ \E s \in Terminal : Move(r, Terminal, s)
  /\ contested' \in {contested, contested \ {r}}

Settle(r) ==
  /\ r \in contested
  /\ contested' = contested \ {r}
  /\ UNCHANGED status

Next ==
  \E r \in Runs :
    Submit(r) \/ Claim(r) \/ Withdraw(r) \/ End(r) \/ Overturn(r) \/ Settle(r)

Spec == Init /\ [][Next]_vars
=============================================================================
