-------------------------- MODULE ActivityWorkspace -------------------------
(***************************************************************************)
(* The Activity tab's view of the platform's audit log                     *)
(* (components/ActivityWorkspace.tsx): filters, a debounced and optionally *)
(* repeated load, older pages, an event's trace, signing in and out.       *)
(*                                                                         *)
(* Answers come in any order: loads of two filters overlap, an older page  *)
(* lands on a list that has been refreshed, a load outlives a sign-out.    *)
(*                                                                         *)
(* Abstractions: the log is its sequence numbers; of the filters' values   *)
(* two are kept, one that lets every event through and one that lets the   *)
(* even ones; a page is PageRows events; the summary and the coverage are  *)
(* answered with the list; a trace is named by its event.                  *)
(***************************************************************************)
EXTENDS Naturals, SequencesExt, FiniteSetsExt

CONSTANTS
  PageRows,          \* the query's limit
  MaxLogged,         \* bound: events in the log
  RefreshSlots,      \* bound: loads under way at once
  MaxActs,           \* bound: things the user does
  MaxActivityFaults  \* bound: answers that fail

ActivityAssumption ==
  /\ {PageRows, RefreshSlots} \subseteq Nat \ {0}
  /\ {MaxLogged, MaxActs, MaxActivityFaults} \subseteq Nat

Queries == {"all", "even"}
NoSeq == 0

VARIABLES
  logged, signedIn,          \* the platform: its head, the browser's session
  user, pageState, events, nextBefore, \* the page
  query, autoRefresh, tab,   \* its controls
  debounce,                  \* the effect's 250 ms timer is set
  refreshes,                 \* the loads under way
  olderAsked,                \* the older page that is asked for
  selectedEvent, trace, traceAsked,
  busy,                      \* what signIn or verifyChain waits for
  acts, activityFaults

shownPage == <<user, pageState, events, nextBefore>>
controls == <<query, autoRefresh, tab, debounce>>
opened == <<selectedEvent, trace, traceAsked>>
activityVars == <<logged, signedIn, shownPage, controls, refreshes, olderAsked, opened, busy, acts, activityFaults>>
----------------------------------------------------------------------------
\* GET /api/audit/events: the newest rows of the query, before a number.
Matches(q, before) == {n \in 1 .. before - 1 : q = "all" \/ n % 2 = 0}

Newest[S \in SUBSET (1 .. MaxLogged), n \in 0 .. PageRows] ==
  IF S = {} \/ n = 0 THEN <<>> ELSE <<Max(S)>> \o Newest[S \ {Max(S)}, n - 1]

PageOf(q, before) ==
  LET rows == Newest[Matches(q, before), PageRows]
  IN  [rows |-> rows, next |-> IF Len(rows) < PageRows THEN NoSeq ELSE Last(rows)]

NoPage == [rows |-> <<>>, next |-> NoSeq]
FreeLoad == [at |-> "free", query |-> "all", page |-> NoPage]
NoneAsked == [query |-> "all", before |-> NoSeq]

Init ==
  /\ logged = 1 /\ signedIn = TRUE
  /\ user = FALSE /\ pageState = "idle" /\ events = <<>> /\ nextBefore = NoSeq
  /\ query = "all" /\ autoRefresh = FALSE /\ tab = "platform" /\ debounce = TRUE
  /\ refreshes = [s \in 1 .. RefreshSlots |-> FreeLoad]
  /\ olderAsked = NoneAsked
  /\ selectedEvent = NoSeq /\ trace = NoSeq /\ traceAsked = {}
  /\ busy = "no" /\ acts = 0 /\ activityFaults = 0

Mishap == activityFaults < MaxActivityFaults /\ activityFaults' = activityFaults + 1
Act == acts < MaxActs /\ acts' = acts + 1 /\ UNCHANGED activityFaults

\* Something is done on the platform.
Logs ==
  /\ logged < MaxLogged
  /\ logged' = logged + 1
  /\ UNCHANGED <<signedIn, shownPage, controls, refreshes, olderAsked, opened, busy, acts, activityFaults>>
----------------------------------------------------------------------------
\* The load.

\* load, with the query of the render it belongs to.  The page says so at once.
load(s) ==
  /\ refreshes[s].at = "free"
  /\ refreshes' = [refreshes EXCEPT ![s] = [FreeLoad EXCEPT !.at = "me", !.query = query]]
  /\ pageState' = "loading"

\* The effect's first timer.
Debounced ==
  /\ debounce
  /\ debounce' = FALSE
  /\ \E s \in DOMAIN refreshes : load(s)
  /\ UNCHANGED <<logged, signedIn, user, events, nextBefore, query, autoRefresh, tab, olderAsked, opened, busy, acts, activityFaults>>

\* Mistake: the interval keeps the query of the first render.
IntervalOfFirst ==
  /\ autoRefresh /\ tab = "platform"
  /\ \E s \in DOMAIN refreshes :
       /\ refreshes[s].at = "free"
       /\ refreshes' = [refreshes EXCEPT ![s] = [FreeLoad EXCEPT !.at = "me"]]
       /\ pageState' = "loading"
  /\ UNCHANGED <<logged, signedIn, user, events, nextBefore, controls, olderAsked, opened, busy, acts, activityFaults>>

\* Its interval, if the user asked for one.
Interval ==
  /\ autoRefresh /\ tab = "platform"
  /\ \E s \in DOMAIN refreshes : load(s)
  /\ UNCHANGED <<logged, signedIn, user, events, nextBefore, controls, olderAsked, opened, busy, acts, activityFaults>>

MeAnswered(s) ==
  /\ refreshes[s].at = "me"
  /\ user' = signedIn
  /\ IF signedIn
       THEN refreshes' = [refreshes EXCEPT ![s].at = "list"] /\ UNCHANGED pageState
       ELSE refreshes' = [refreshes EXCEPT ![s] = FreeLoad] /\ pageState' = "signed-out"
  /\ UNCHANGED <<logged, signedIn, events, nextBefore, controls, olderAsked, opened, busy, acts, activityFaults>>

\* The platform reads; a request without a session is refused.
ListRead(s) ==
  /\ refreshes[s].at = "list"
  /\ refreshes' = [refreshes EXCEPT ![s].at = "read",
                     ![s].page = IF signedIn THEN PageOf(refreshes[s].query, logged + 1) ELSE NoPage]
  /\ UNCHANGED <<logged, signedIn, shownPage, controls, olderAsked, opened, busy, acts, activityFaults>>

ListAnswered(s) ==
  /\ refreshes[s].at = "read"
  /\ events' = refreshes[s].page.rows
  /\ nextBefore' = refreshes[s].page.next
  /\ pageState' = "ready"
  /\ refreshes' = [refreshes EXCEPT ![s] = FreeLoad]
  /\ UNCHANGED <<logged, signedIn, user, controls, olderAsked, opened, busy, acts, activityFaults>>

Unreachable(s) ==
  /\ refreshes[s].at # "free" /\ Mishap
  /\ pageState' = "unreachable"
  /\ refreshes' = [refreshes EXCEPT ![s] = FreeLoad]
  /\ UNCHANGED <<logged, signedIn, user, events, nextBefore, controls, olderAsked, opened, busy, acts>>
----------------------------------------------------------------------------
\* The user.

\* A filter, the tab or the auto-refresh box: the effect starts over.
SetControls ==
  /\ Act
  /\ \/ query' \in Queries \ {query} /\ UNCHANGED <<autoRefresh, tab>>
     \/ autoRefresh' = ~autoRefresh /\ UNCHANGED <<query, tab>>
     \/ tab' \in {"platform", "local"} \ {tab} /\ UNCHANGED <<query, autoRefresh>>
  /\ debounce' = (tab' = "platform")
  /\ UNCHANGED <<logged, signedIn, shownPage, refreshes, olderAsked, opened, busy>>

loadOlder ==
  /\ Act
  /\ nextBefore # NoSeq /\ olderAsked = NoneAsked
  /\ olderAsked' = [query |-> query, before |-> nextBefore]
  /\ UNCHANGED <<logged, signedIn, shownPage, controls, refreshes, opened, busy>>

\* Appended to whatever the list is by now.
OlderAnswered ==
  /\ olderAsked # NoneAsked
  /\ LET page == IF signedIn THEN PageOf(olderAsked.query, olderAsked.before) ELSE NoPage
     IN  events' = events \o page.rows /\ nextBefore' = page.next
  /\ olderAsked' = NoneAsked
  /\ UNCHANGED <<logged, signedIn, user, pageState, controls, refreshes, opened, busy, acts, activityFaults>>

openEvent ==
  /\ Act
  /\ \E n \in ToSet(events) : /\ selectedEvent' = n
                              /\ traceAsked' = traceAsked \cup {n}
  /\ trace' = NoSeq
  /\ UNCHANGED <<logged, signedIn, shownPage, controls, refreshes, olderAsked, busy>>

TraceAnswered ==
  /\ \E n \in traceAsked : /\ trace' = n
                           /\ traceAsked' = traceAsked \ {n}
  /\ UNCHANGED <<logged, signedIn, shownPage, controls, refreshes, olderAsked, selectedEvent, busy, acts, activityFaults>>

\* signIn: the audit client's retry and a load follow the answer.  Wrong
\* passwords only leave a message.
signIn ==
  /\ Act
  /\ ~user /\ busy = "no"
  /\ busy' = "signing in"
  /\ UNCHANGED <<logged, signedIn, shownPage, controls, refreshes, olderAsked, opened>>

SignInAnswered ==
  /\ busy = "signing in"
  /\ busy' = "no"
  /\ \/ /\ signedIn' = TRUE
        /\ \E s \in DOMAIN refreshes : load(s)
     \/ UNCHANGED <<signedIn, refreshes, pageState>>
  /\ UNCHANGED <<logged, user, events, nextBefore, controls, olderAsked, opened, acts, activityFaults>>

\* signOut, as the page hears of it.
signOut ==
  /\ Act
  /\ user
  /\ signedIn' = FALSE
  /\ user' = FALSE
  /\ events' = <<>>
  /\ pageState' = "signed-out"
  /\ UNCHANGED <<logged, nextBefore, controls, refreshes, olderAsked, opened, busy>>

\* verifyChain writes to the log; whatever the answer, a load follows.
verifyChain ==
  /\ Act
  /\ user /\ busy = "no"
  /\ busy' = "verifying"
  /\ UNCHANGED <<logged, signedIn, shownPage, controls, refreshes, olderAsked, opened>>

Verified ==
  /\ busy = "verifying"
  /\ busy' = "no"
  /\ logged' = IF signedIn /\ logged < MaxLogged THEN logged + 1 ELSE logged
  /\ \E s \in DOMAIN refreshes : load(s)
  /\ UNCHANGED <<signedIn, user, events, nextBefore, controls, olderAsked, opened, acts, activityFaults>>
----------------------------------------------------------------------------
Answers(s) == MeAnswered(s) \/ ListRead(s) \/ ListAnswered(s)
User == SetControls \/ loadOlder \/ openEvent \/ signIn \/ signOut \/ verifyChain

Next ==
  \/ Logs \/ User
  \/ Debounced \/ Interval
  \/ OlderAnswered \/ TraceAnswered \/ SignInAnswered \/ Verified
  \/ \E s \in DOMAIN refreshes : Answers(s) \/ Unreachable(s)

\* Timers fire and the platform answers; nothing makes the user act.
Fairness ==
  /\ WF_activityVars(Debounced)
  /\ WF_activityVars(Interval)
  /\ WF_activityVars(SignInAnswered) /\ WF_activityVars(Verified)
  /\ WF_activityVars(OlderAnswered) /\ WF_activityVars(TraceAnswered)
  /\ \A s \in 1 .. RefreshSlots : WF_activityVars(Answers(s))

Spec == Init /\ [][Next]_activityVars /\ Fairness
----------------------------------------------------------------------------
ActivityTypeOK ==
  /\ logged \in 0 .. MaxLogged
  /\ {signedIn, user, autoRefresh, debounce} \subseteq BOOLEAN
  /\ pageState \in {"idle", "loading", "ready", "signed-out", "unreachable"}
  /\ events \in Seq(1 .. MaxLogged)
  /\ {nextBefore, selectedEvent, trace} \cup traceAsked \subseteq 0 .. MaxLogged
  /\ query \in Queries /\ tab \in {"platform", "local"}
  /\ acts \in 0 .. MaxActs /\ activityFaults \in 0 .. MaxActivityFaults

\* With auto-refresh on, the list comes to show the newest events of the
\* filter as it is now, and who is signed in, whatever loads of earlier
\* filters, older pages and failures are answered in between.
RefreshCaughtUp ==
  autoRefresh /\ tab = "platform" =>
    /\ user = signedIn
    /\ signedIn => events = PageOf(query, logged + 1).rows
=============================================================================
