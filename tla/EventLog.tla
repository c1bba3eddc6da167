------------------------------ MODULE EventLog ------------------------------
(***************************************************************************)
(* What the audit log promises the rest of the platform: a list of events  *)
(* that only grows at its end, in which no event id occurs twice, and      *)
(* which gains at least one event in the very step in which a domain       *)
(* change becomes visible ("no log, no action").                           *)
(***************************************************************************)
EXTENDS Sequences

CONSTANTS Txns, Events

VARIABLES entries,   \* the event ids of the log, in order
          changes    \* the transactions whose domain changes are visible

vars == <<entries, changes>>

Range(s) == {s[i] : i \in DOMAIN s}
Distinct(s) == \A i, j \in DOMAIN s : s[i] = s[j] => i = j

Init == entries = <<>> /\ changes = {}

\* A committed transaction: what was logged stays as it is, what is new is new.
Grows(t) ==
  /\ entries' # entries
  /\ SubSeq(entries', 1, Len(entries)) = entries
  /\ Range(entries') \subseteq Events /\ Distinct(entries')
  /\ changes' \in {changes, changes \cup {t}}

Next == \E t \in Txns : Grows(t)

Spec == Init /\ [][Next]_vars
=============================================================================
