------------------------- MODULE SiliconViews_proofs -------------------------
(***************************************************************************)
(* Of two silicon views no two hold a WebGL context at once, and one that  *)
(* was left is freed, however many views are opened and wherever each was  *)
(* left: in its import, before its start, during its build or after.       *)
(*                                                                         *)
(* The argument is about the zero timers.  The start of an engine is set   *)
(* for the view on the page only and cleared when that is left, so it is   *)
(* the last timer; a teardown is set only by a view that had its engine,   *)
(* and the next engine starts from a timer behind it.  So a start finds    *)
(* every engine before it torn down.                                       *)
(*                                                                         *)
(* Of the layout's own pointer and labels: each press of either pointer    *)
(* does one thing at most, a drag of the view lasts no longer than the     *)
(* press it came from, and the chips on the screen stand apart, clear of   *)
(* the page's panels where these were measured when the chips were placed. *)
(* The first follows from what each press has done so far, kept with what  *)
(* it is held with; the last from the order the slots are decided in,      *)
(* wherever the planner was interrupted.                                   *)
(***************************************************************************)
EXTENDS SiliconViews, LayoutPointer, SequenceTheorems, WellFoundedInduction, TLAPS

Tasks == [task : {"start", "dispose", "teardown"}, mount : Mounts]

\* Mounts are numbered as they come, and what each is about is kept apart.
Shape ==
  /\ shown \in 0 .. used /\ used \in 0 .. MaxMounts
  /\ kind \in [Mounts -> Kinds] /\ phase \in [Mounts -> Phases]
  /\ waits = [m \in Mounts |-> waits[m]]
  /\ live = [m \in Mounts |-> live[m]] /\ overlay = [m \in Mounts |-> overlay[m]]
  /\ disposed \in [Mounts -> BOOLEAN] /\ torn \in [Mounts -> BOOLEAN] /\ lost \in [Mounts -> BOOLEAN]
  /\ sent \in [Mounts -> BOOLEAN] /\ applied \in [Mounts -> BOOLEAN]
  /\ ready \in BOOLEAN /\ error \in BOOLEAN /\ setting \in BOOLEAN
  /\ timers \in Seq(Tasks)

\* An engine is what there is to work, to draw and to free.
Works(m) == live[m] # {} \/ waits[m] # "nothing" \/ overlay[m] # "none" \/ sent[m] \/ torn[m]

\* What a mount's effect has come to.
PhasesFit ==
  \A m \in Mounts :
    /\ m > used => phase[m] = "none"
    /\ phase[m] \in {"frame", "timer"} => m = shown
    /\ Works(m) => phase[m] = "engine"
    /\ torn[m] => m # shown /\ disposed[m] /\ live[m] = {}

\* At most one engine waits for its teardown, ahead of the start of the next.
TimersFit ==
  /\ \A i \in 1 .. Len(timers) :
       LET m == timers[i].mount
       IN  IF timers[i].task = "start"
             THEN i = Len(timers) /\ m = shown /\ phase[m] = "timer"
             ELSE /\ i = 1 /\ m # shown /\ phase[m] = "engine"
                  /\ timers[i].task = "teardown" => disposed[m]
  /\ \A m \in Mounts : phase[m] = "engine" /\ m = shown => timers = <<>>
  /\ \A m \in Mounts :
       phase[m] = "engine" /\ m # shown /\ ~torn[m] => timers # <<>> /\ timers[1].mount = m

ReadyFits ==
  \A m \in Mounts : m = shown /\ ready => phase[m] = "engine" /\ applied[m] = setting

ViewsInv == Shape /\ PhasesFit /\ TimersFit /\ ReadyFits

\* Where the element is at most the last, clearing it leaves the others.
LEMMA ClearLast ==
  ASSUME NEW S, NEW s \in Seq(S), NEW e,
         \A i \in 1 .. Len(s) : s[i] = e => i = Len(s)
  PROVE  LET r == RemoveFirst(s, e)
         IN  /\ r \in Seq(S)
             /\ Len(r) = IF s # <<>> /\ s[Len(s)] = e THEN Len(s) - 1 ELSE Len(s)
             /\ \A i \in 1 .. Len(r) : r[i] = s[i] /\ r[i] # e
<1>1. CASE \E i \in 1 .. Len(s) : s[i] = e
  <2>1. s # <<>> /\ s[Len(s)] = e /\ Len(s) \in Nat \ {0} /\ Len(s) \in 1 .. Len(s)
    BY <1>1
  <2>2. {i \in 1 .. Len(s) : s[i] = e} = {Len(s)}
    BY <2>1
  <2>3. SelectInSeq(s, LAMBDA v : v = e) = Len(s)
    BY <2>1, <2>2 DEF SelectInSeq, Min
  <2>4. RemoveFirst(s, e) = SubSeq(s, 1, Len(s) - 1) \o SubSeq(s, Len(s) + 1, Len(s))
    BY <1>1, <2>3 DEF RemoveFirst, RemoveAt
  <2> DEFINE r == SubSeq(s, 1, Len(s) - 1)
  <2>5. r \in Seq(S) /\ Len(r) = Len(s) - 1 /\ \A i \in 1 .. Len(r) : r[i] = s[i]
    <3>1. 1 \in Int /\ Len(s) - 1 \in Int /\ \A i \in 1 .. (Len(s) - 1) : s[i] \in S
      BY <2>1
    <3>2. /\ r \in Seq(S) /\ Len(r) = IF 1 <= Len(s) - 1 THEN Len(s) - 1 - 1 + 1 ELSE 0
          /\ \A i \in 1 .. (Len(s) - 1) - 1 + 1 : r[i] = s[1 + i - 1]
      BY <3>1, SubSeqProperties
    <3> HIDE DEF r
    <3>3. Len(r) = Len(s) - 1
      <4> DEFINE n == Len(s)
      <4>1. n \in Nat \ {0} /\ Len(r) = IF 1 <= n - 1 THEN n - 1 - 1 + 1 ELSE 0
        BY <2>1, <3>2
      <4> HIDE DEF n
      <4>2. Len(r) = n - 1
        BY <4>1
      <4>3. QED BY <4>2 DEF n
    <3>4. ASSUME NEW i \in 1 .. Len(r) PROVE r[i] = s[i]
      <4>1. i \in 1 .. (Len(s) - 1) - 1 + 1 /\ 1 + i - 1 = i
        BY <2>1, <3>3
      <4>2. r[i] = s[1 + i - 1]
        BY <3>2, <4>1
      <4>3. QED BY <4>1, <4>2
    <3>5. QED BY <3>2, <3>3, <3>4
  <2>6. SubSeq(s, Len(s) + 1, Len(s)) = <<>>
    BY <2>1, SubSeqEmpty
  <2>7. RemoveFirst(s, e) = r
    BY <2>4, <2>5, <2>6
  <2>8. \A i \in 1 .. Len(r) : r[i] # e
    BY <2>1, <2>5
  <2>9. QED BY <2>1, <2>5, <2>7, <2>8
<1>2. CASE ~\E i \in 1 .. Len(s) : s[i] = e
  <2>1. RemoveFirst(s, e) = s
    BY <1>2 DEF RemoveFirst
  <2>2. s # <<>> => Len(s) \in 1 .. Len(s)
    OBVIOUS
  <2>3. QED BY <1>2, <2>1, <2>2
<1>3. QED BY <1>1, <1>2
-----------------------------------------------------------------------------
LEMMA ViewsInvInit == ViewsAssumption /\ ViewsInit => ViewsInv
<1> SUFFICES ASSUME ViewsAssumption, ViewsInit PROVE ViewsInv
  OBVIOUS
<1>1. Shape
  <2>1. /\ shown \in 0 .. used /\ used \in 0 .. MaxMounts /\ timers \in Seq(Tasks)
        /\ kind \in [Mounts -> Kinds] /\ phase \in [Mounts -> Phases]
        /\ waits = [m \in Mounts |-> waits[m]]
        /\ live = [m \in Mounts |-> live[m]] /\ overlay = [m \in Mounts |-> overlay[m]]
    BY DEF ViewsAssumption, ViewsInit, Kinds, Phases, Awaits
  <2>2. [m \in Mounts |-> FALSE] \in [Mounts -> BOOLEAN]
    OBVIOUS
  <2>3. /\ disposed \in [Mounts -> BOOLEAN] /\ torn \in [Mounts -> BOOLEAN] /\ lost \in [Mounts -> BOOLEAN]
        /\ sent \in [Mounts -> BOOLEAN] /\ applied \in [Mounts -> BOOLEAN]
    BY <2>2, Zenon DEF ViewsInit
  <2>4. ready \in BOOLEAN /\ error \in BOOLEAN /\ setting \in BOOLEAN
    BY DEF ViewsInit
  <2>5. QED BY <2>1, <2>3, <2>4, Zenon DEF Shape
<1>2. PhasesFit /\ ReadyFits
  BY DEF ViewsAssumption, ViewsInit, PhasesFit, ReadyFits, Works, Mounts
<1>3. TimersFit
  BY DEF ViewsInit, TimersFit
<1>4. QED BY <1>1, <1>2, <1>3 DEF ViewsInv

LEMMA TimersNameMounts ==
  Shape => \A i \in 1 .. Len(timers) : timers[i] \in Tasks /\ timers[i].mount \in Mounts
<1> SUFFICES ASSUME Shape, NEW i \in 1 .. Len(timers)
             PROVE  timers[i] \in Tasks /\ timers[i].mount \in Mounts
  OBVIOUS
<1>1. timers \in Seq(Tasks)
  BY DEF Shape
<1>2. timers[i] \in Tasks
  BY <1>1
<1>3. QED BY <1>2 DEF Tasks

\* What leaving a view does to the timers.
LEMMA CleanUpTimers ==
  ASSUME ViewsAssumption, ViewsInv, shown # 0, CleanUp(shown)
  PROVE  /\ disposed' \in [Mounts -> BOOLEAN] /\ timers' \in Seq(Tasks)
         /\ \A m \in Mounts \ {shown} : disposed'[m] = disposed[m]
         /\ phase[shown] = "engine" =>
              /\ timers = <<>> /\ Len(timers') = 1 /\ timers'[1].mount = shown
              /\ timers'[1].task # "start"
              /\ timers'[1].task = "teardown" => disposed'[shown]
         /\ phase[shown] # "engine" =>
              /\ disposed' = disposed
              /\ Len(timers') <= Len(timers)
              /\ \A i \in 1 .. Len(timers') : timers'[i] = timers[i] /\ timers[i].task # "start"
              /\ \A i \in 1 .. Len(timers) : timers[i].task # "start" => Len(timers') >= 1
<1>1. /\ shown \in Mounts /\ timers \in Seq(Tasks)
      /\ disposed \in [Mounts -> BOOLEAN]
      /\ kind \in [Mounts -> Kinds]
  BY DEF ViewsAssumption, ViewsInv, Shape, Mounts
<1>2. CASE phase[shown] = "engine"
  <2> DEFINE t == Timer(IF kind[shown] = "layout" THEN "teardown" ELSE "dispose", shown)
  <2>1. /\ timers = <<>> /\ timers' = Append(timers, t)
        /\ disposed' = [disposed EXCEPT ![shown] = kind[shown] = "layout"]
    BY <1>1, <1>2 DEF ViewsInv, TimersFit, CleanUp
  <2>2. t \in Tasks /\ t.mount = shown /\ t.task # "start"
        /\ (t.task = "teardown" => kind[shown] = "layout")
    BY <1>1 DEF Timer, Tasks
  <2>3. timers' = <<t>>
    BY <2>1
  <2>4. disposed' \in [Mounts -> BOOLEAN] /\ (kind[shown] = "layout" => disposed'[shown])
        /\ \A m \in Mounts \ {shown} : disposed'[m] = disposed[m]
    BY <1>1, <2>1
  <2> HIDE DEF t
  <2>5. QED BY <1>2, <2>1, <2>2, <2>3, <2>4
<1>3. CASE phase[shown] # "engine"
  <2> DEFINE e == Timer("start", shown)
  <2>1. timers' = RemoveFirst(timers, e) /\ disposed' = disposed
    BY <1>3 DEF CleanUp
  <2>2. \A i \in 1 .. Len(timers) : timers[i] = e => i = Len(timers)
    BY DEF ViewsInv, TimersFit, Timer
  <2>3. \A i \in 1 .. Len(timers) : timers[i].task = "start" => timers[i] = e
    <3>1. \A i \in 1 .. Len(timers) : timers[i] \in Tasks
      BY <1>1
    <3>2. QED BY <3>1 DEF ViewsInv, TimersFit, Timer, Tasks
  <2>4. e.task = "start"
    BY DEF Timer
  <2> HIDE DEF e
  <2>5. /\ timers' \in Seq(Tasks)
        /\ Len(timers') = IF timers # <<>> /\ timers[Len(timers)] = e THEN Len(timers) - 1 ELSE Len(timers)
        /\ \A i \in 1 .. Len(timers') : timers'[i] = timers[i] /\ timers'[i] # e
    BY <1>1, <2>1, <2>2, ClearLast
  <2>6. \A i \in 1 .. Len(timers) : timers[i].task # "start" => Len(timers') >= 1
    <3>1. ASSUME NEW i \in 1 .. Len(timers), timers[i].task # "start" PROVE Len(timers') >= 1
      BY <1>1, <2>4, <2>5, <3>1
    <3>2. QED BY <3>1
  <2>7. Len(timers') <= Len(timers) /\ Len(timers') \in Nat /\ Len(timers) \in Nat
    BY <1>1, <2>5
  <2>8. QED BY <1>1, <1>3, <2>1, <2>3, <2>5, <2>6, <2>7
<1>4. QED BY <1>2, <1>3
-----------------------------------------------------------------------------
(* The engine's steps *)

Places == <<shown, used, kind, phase, disposed, torn, timers>>

\* A step of an engine, which has to be there and not torn down: what it makes
\* is its own.
LEMMA EngineStep ==
  ASSUME ViewsInv, UNCHANGED Places, UNCHANGED <<ready, setting, applied>>,
         NEW m \in Mounts, phase[m] = "engine",
         waits' = [n \in Mounts |-> waits'[n]], live' = [n \in Mounts |-> live'[n]],
         overlay' = [n \in Mounts |-> overlay'[n]], sent' \in [Mounts -> BOOLEAN],
         lost' \in [Mounts -> BOOLEAN], error' \in BOOLEAN,
         \A n \in Mounts \ {m} :
           live'[n] = live[n] /\ waits'[n] = waits[n] /\ overlay'[n] = overlay[n] /\ sent'[n] = sent[n],
         disposed[m] => live'[m] = live[m]
  PROVE  ViewsInv'
<1>1. Shape'
  BY DEF ViewsInv, Shape, Places
<1>2. PhasesFit'
  <2>1. ASSUME NEW n \in Mounts, n # m
        PROVE  /\ Works(n)' => phase[n] = "engine"
               /\ torn[n] => n # shown /\ disposed[n] /\ live'[n] = {}
    BY <2>1 DEF ViewsInv, PhasesFit, Works, Places
  <2>2. torn[m] => m # shown /\ disposed[m] /\ live'[m] = {}
    BY DEF ViewsInv, PhasesFit
  <2>3. QED BY <2>1, <2>2 DEF ViewsInv, PhasesFit, Places
<1>3. TimersFit' /\ ReadyFits'
  BY DEF ViewsInv, TimersFit, ReadyFits, Places
<1>4. QED BY <1>1, <1>2, <1>3 DEF ViewsInv

LEMMA WorkingStep ==
  ASSUME ViewsAssumption, ViewsInv, NEW m \in Mounts,
         NextTask(m) \/ FetchAnswers(m) \/ ProgramsLinked(m) \/ Frame(m) \/ OverlayArrives(m)
           \/ BuildFails(m) \/ OverlayFails(m) \/ LoseContext(m)
  PROVE  ViewsInv'
<1> USE DEF build, viewState
<1>1. /\ waits = [n \in Mounts |-> waits[n]] /\ live = [n \in Mounts |-> live[n]]
      /\ overlay = [n \in Mounts |-> overlay[n]] /\ sent \in [Mounts -> BOOLEAN]
      /\ lost \in [Mounts -> BOOLEAN] /\ error \in BOOLEAN
  BY DEF ViewsInv, Shape
<1>2. phase[m] # "engine" => waits[m] = "nothing" /\ overlay[m] = "none"
  BY DEF ViewsInv, PhasesFit, Works
<1>3. ASSUME Advance(m), waits[m] \in {"task", "fetch"} PROVE ViewsInv'
  <2>1. /\ UNCHANGED Places /\ UNCHANGED <<ready, setting, applied, overlay, sent, lost, error>>
        /\ phase[m] = "engine"
    BY <1>2, <1>3 DEF Advance, Places
  <2>2. /\ \A n \in Mounts \ {m} : live'[n] = live[n] /\ waits'[n] = waits[n]
        /\ live' = [n \in Mounts |-> live'[n]] /\ waits' = [n \in Mounts |-> waits'[n]]
        /\ (disposed[m] => live'[m] = live[m])
    BY <1>1, <1>3 DEF Advance
  <2>3. /\ overlay' = [n \in Mounts |-> overlay'[n]] /\ sent' \in [Mounts -> BOOLEAN]
        /\ lost' \in [Mounts -> BOOLEAN] /\ error' \in BOOLEAN
        /\ \A n \in Mounts \ {m} : overlay'[n] = overlay[n] /\ sent'[n] = sent[n]
    BY <1>1, <2>1, Zenon
  <2>4. QED BY <2>1, <2>2, <2>3, EngineStep
<1>4. CASE ProgramsLinked(m)
  <2>1. /\ UNCHANGED Places /\ UNCHANGED <<ready, setting, applied, overlay, sent, lost, error, live>>
        /\ phase[m] = "engine"
    BY <1>2, <1>4 DEF ProgramsLinked, Places
  <2>2. /\ \A n \in Mounts \ {m} : waits'[n] = waits[n]
        /\ waits' = [n \in Mounts |-> waits'[n]]
    BY <1>1, <1>4 DEF ProgramsLinked
  <2>3. /\ overlay' = [n \in Mounts |-> overlay'[n]] /\ sent' \in [Mounts -> BOOLEAN]
        /\ lost' \in [Mounts -> BOOLEAN] /\ error' \in BOOLEAN /\ live' = [n \in Mounts |-> live'[n]]
        /\ \A n \in Mounts \ {m} : overlay'[n] = overlay[n] /\ sent'[n] = sent[n]
    BY <1>1, <2>1, Zenon
  <2>4. QED BY <2>1, <2>2, <2>3, EngineStep
<1>5. CASE Frame(m)
  <2>1. /\ UNCHANGED Places /\ UNCHANGED <<ready, setting, applied, waits, lost, error>>
        /\ phase[m] = "engine" /\ ~disposed[m]
    BY <1>5 DEF Frame, Running, Places
  <2>2. /\ \A n \in Mounts \ {m} : live'[n] = live[n] /\ overlay'[n] = overlay[n]
        /\ live' = [n \in Mounts |-> live'[n]] /\ overlay' = [n \in Mounts |-> overlay'[n]]
    BY <1>1, <1>5 DEF Frame
  <2>3. sent' = [sent EXCEPT ![m] = TRUE]
    BY <1>5 DEF Frame
  <2>4. sent' \in [Mounts -> BOOLEAN] /\ \A n \in Mounts \ {m} : sent'[n] = sent[n]
    BY <1>1, <2>3
  <2>5. /\ waits' = [n \in Mounts |-> waits'[n]] /\ lost' \in [Mounts -> BOOLEAN] /\ error' \in BOOLEAN
        /\ \A n \in Mounts \ {m} : waits'[n] = waits[n]
    BY <1>1, <2>1, Zenon
  <2>6. QED BY <2>1, <2>2, <2>4, <2>5, EngineStep
<1>6. CASE OverlayArrives(m)
  <2>1. /\ UNCHANGED Places /\ UNCHANGED <<ready, setting, applied, waits, sent, lost, error>>
        /\ phase[m] = "engine"
    BY <1>2, <1>6 DEF OverlayArrives, Places
  <2>2. /\ \A n \in Mounts \ {m} : live'[n] = live[n] /\ overlay'[n] = overlay[n]
        /\ live' = [n \in Mounts |-> live'[n]] /\ overlay' = [n \in Mounts |-> overlay'[n]]
        /\ (disposed[m] => live'[m] = live[m])
    BY <1>1, <1>6 DEF OverlayArrives
  <2>3. /\ waits' = [n \in Mounts |-> waits'[n]] /\ lost' \in [Mounts -> BOOLEAN] /\ error' \in BOOLEAN
        /\ sent' \in [Mounts -> BOOLEAN]
        /\ \A n \in Mounts \ {m} : waits'[n] = waits[n] /\ sent'[n] = sent[n]
    BY <1>1, <2>1, Zenon
  <2>4. QED BY <2>1, <2>2, <2>3, EngineStep
<1>7. CASE BuildFails(m)
  <2>1. /\ UNCHANGED Places /\ UNCHANGED <<ready, setting, applied, overlay, live, sent, lost>>
        /\ phase[m] = "engine" /\ error' = (error \/ (m = shown /\ ~disposed[m]))
    BY <1>2, <1>7 DEF BuildFails, Places
  <2>2. /\ \A n \in Mounts \ {m} : waits'[n] = waits[n]
        /\ waits' = [n \in Mounts |-> waits'[n]]
    BY <1>1, <1>7 DEF BuildFails
  <2>3. /\ overlay' = [n \in Mounts |-> overlay'[n]] /\ sent' \in [Mounts -> BOOLEAN]
        /\ lost' \in [Mounts -> BOOLEAN] /\ live' = [n \in Mounts |-> live'[n]]
        /\ \A n \in Mounts \ {m} : overlay'[n] = overlay[n] /\ sent'[n] = sent[n]
    BY <1>1, <2>1, Zenon
  <2>4. error' \in BOOLEAN
    BY <2>1, Zenon
  <2>5. QED BY <2>1, <2>2, <2>3, <2>4, EngineStep
<1>8. CASE OverlayFails(m)
  <2>1. /\ UNCHANGED Places /\ UNCHANGED <<ready, setting, applied, waits, live, sent, lost>>
        /\ phase[m] = "engine" /\ (error' = (error \/ m = shown) \/ error' = error)
    BY <1>2, <1>8 DEF OverlayFails, ShowsError, Places
  <2>2. /\ \A n \in Mounts \ {m} : overlay'[n] = overlay[n]
        /\ overlay' = [n \in Mounts |-> overlay'[n]]
    BY <1>1, <1>8 DEF OverlayFails
  <2>3. /\ waits' = [n \in Mounts |-> waits'[n]] /\ sent' \in [Mounts -> BOOLEAN]
        /\ lost' \in [Mounts -> BOOLEAN] /\ live' = [n \in Mounts |-> live'[n]]
        /\ \A n \in Mounts \ {m} : waits'[n] = waits[n] /\ sent'[n] = sent[n]
    BY <1>1, <2>1, Zenon
  <2>4. error' \in BOOLEAN
    BY <1>1, <2>1, Zenon
  <2>5. QED BY <2>1, <2>2, <2>3, <2>4, EngineStep
<1>9. CASE LoseContext(m)
  <2>1. /\ UNCHANGED Places /\ UNCHANGED <<ready, setting, applied, waits, live, sent, overlay>>
        /\ phase[m] = "engine" /\ error' = (error \/ m = shown)
        /\ lost' = [lost EXCEPT ![m] = TRUE]
    BY <1>9 DEF LoseContext, Running, ShowsError, Places
  <2>2. lost' \in [Mounts -> BOOLEAN]
    BY <1>1, <2>1
  <2>3. /\ waits' = [n \in Mounts |-> waits'[n]] /\ sent' \in [Mounts -> BOOLEAN]
        /\ overlay' = [n \in Mounts |-> overlay'[n]] /\ live' = [n \in Mounts |-> live'[n]]
        /\ \A n \in Mounts \ {m} : waits'[n] = waits[n] /\ sent'[n] = sent[n] /\ overlay'[n] = overlay[n]
    BY <1>1, <2>1, Zenon
  <2>4. error' \in BOOLEAN
    BY <2>1, Zenon
  <2>5. QED BY <2>1, <2>2, <2>3, <2>4, EngineStep
<1>10. QED BY <1>3, <1>4, <1>5, <1>6, <1>7, <1>8, <1>9 DEF NextTask, FetchAnswers
-----------------------------------------------------------------------------
(* The page's steps *)

LEMMA OpenStep == ASSUME ViewsAssumption, ViewsInv, Open PROVE ViewsInv'
<1> USE DEF build
<1>1. /\ shown = 0 /\ used < MaxMounts /\ used' = used + 1 /\ shown' = used + 1
      /\ used + 1 \in Mounts /\ used \in Nat
      /\ kind' = [kind EXCEPT ![used + 1] = "model"] /\ phase' = [phase EXCEPT ![used + 1] = "importing"]
      /\ ready' = FALSE /\ error' = FALSE /\ setting' = FALSE
      /\ UNCHANGED <<disposed, torn, applied, timers, waits, live, overlay, lost, sent>>
  BY DEF Open, Mount, ViewsInv, Shape, ViewsAssumption, Mounts
<1>2. kind \in [Mounts -> Kinds] /\ phase \in [Mounts -> Phases] /\ MaxMounts \in Nat
  BY DEF ViewsInv, Shape, ViewsAssumption
<1>3. Shape'
  <2>1. shown' \in 0 .. used' /\ used' \in 0 .. MaxMounts
    BY <1>1, <1>2
  <2>2. kind' \in [Mounts -> Kinds] /\ phase' \in [Mounts -> Phases]
    BY <1>1, <1>2 DEF Kinds, Phases
  <2>3. ready' \in BOOLEAN /\ error' \in BOOLEAN /\ setting' \in BOOLEAN
    BY <1>1
  <2>4. QED BY <1>1, <2>1, <2>2, <2>3 DEF ViewsInv, Shape
<1> PICK n \in Mounts : n = used + 1
  BY <1>1
<1>4. phase[n] = "none" /\ ~Works(n)
  BY <1>1, <1>2 DEF ViewsInv, PhasesFit
<1>5. /\ phase'[n] = "importing" /\ ~Works(n)'
      /\ \A m \in Mounts \ {n} : phase'[m] = phase[m]
      /\ \A m \in Mounts : Works(m)' <=> Works(m)
  <2>1. phase'[n] = "importing" /\ \A m \in Mounts \ {n} : phase'[m] = phase[m]
    BY <1>1, <1>2
  <2>2. \A m \in Mounts : Works(m)' <=> Works(m)
    BY <1>1 DEF Works
  <2>3. QED BY <1>4, <2>1, <2>2
<1>6. PhasesFit'
  <2>1. ASSUME NEW m \in Mounts, m # n
        PROVE  /\ m > used' => phase'[m] = "none"
               /\ phase'[m] \in {"frame", "timer"} => m = shown'
               /\ Works(m)' => phase'[m] = "engine"
               /\ torn'[m] => m # shown' /\ disposed'[m] /\ live'[m] = {}
    BY <1>1, <1>5, <2>1 DEF ViewsInv, PhasesFit, Mounts
  <2>2. ~torn'[n] /\ ~(n > used') /\ shown' = n
    BY <1>1, <1>4 DEF Works
  <2>3. QED BY <1>5, <2>1, <2>2 DEF PhasesFit
<1>7. TimersFit'
  <2>1. \A i \in 1 .. Len(timers) : timers[i].mount \in Mounts
    BY TimersNameMounts DEF ViewsInv
  <2>2. ASSUME NEW i \in 1 .. Len(timers)
        PROVE  /\ timers[i].task # "start" /\ i = 1 /\ timers[i].mount # shown'
               /\ phase'[timers[i].mount] = "engine"
               /\ timers[i].task = "teardown" => disposed[timers[i].mount]
    BY <1>1, <1>4, <1>5, <2>1 DEF ViewsInv, TimersFit, Mounts
  <2>3. ASSUME NEW m \in Mounts, phase'[m] = "engine"
        PROVE  /\ m # shown'
               /\ ~torn[m] => timers # <<>> /\ timers[1].mount = m
    BY <1>1, <1>5, <2>3 DEF ViewsInv, TimersFit, Mounts
  <2>4. QED BY <1>1, <2>2, <2>3 DEF TimersFit
<1>8. ReadyFits'
  BY <1>1 DEF ReadyFits
<1>9. QED BY <1>3, <1>6, <1>7, <1>8 DEF ViewsInv

LEMMA LeaveStep == ASSUME ViewsAssumption, ViewsInv, Leave PROVE ViewsInv'
<1> USE DEF build, viewState
<1>1. /\ shown \in Mounts /\ shown' = 0 /\ CleanUp(shown) /\ used' = used
      /\ phase' = [phase EXCEPT ![shown] = LeftPhase(shown)]
      /\ UNCHANGED <<kind, torn, applied, waits, live, overlay, lost, sent, ready, error, setting>>
  BY DEF Leave, ViewsInv, Shape, ViewsAssumption, Mounts
<1>2. 0 \notin Mounts /\ phase \in [Mounts -> Phases]
  BY DEF Mounts, ViewsInv, Shape
<1>3. /\ \A m \in Mounts \ {shown} : phase'[m] = phase[m]
      /\ phase[shown] = "engine" <=> phase'[shown] = "engine"
      /\ phase'[shown] \notin {"frame", "timer"}
      /\ phase[shown] = "none" => phase'[shown] = "none"
      /\ phase' \in [Mounts -> Phases]
  BY <1>1, <1>2 DEF LeftPhase, Phases
<1>4. /\ disposed' \in [Mounts -> BOOLEAN] /\ timers' \in Seq(Tasks)
      /\ \A m \in Mounts \ {shown} : disposed'[m] = disposed[m]
  BY <1>1, <1>2, CleanUpTimers
<1>5. Shape'
  BY <1>1, <1>3, <1>4 DEF ViewsInv, Shape
<1>6. ~torn[shown]
  BY <1>1 DEF ViewsInv, PhasesFit
<1>7. PhasesFit'
  <2>1. \A m \in Mounts : Works(m)' <=> Works(m)
    BY <1>1 DEF Works
  <2>2. ASSUME NEW m \in Mounts
        PROVE  /\ m > used => phase'[m] = "none"
               /\ phase'[m] \notin {"frame", "timer"}
               /\ Works(m) => phase'[m] = "engine"
               /\ torn[m] => m # 0 /\ disposed'[m] /\ live[m] = {}
    BY <1>1, <1>2, <1>3, <1>4, <1>6 DEF ViewsInv, PhasesFit
  <2>3. QED BY <1>1, <2>1, <2>2 DEF PhasesFit
<1>8. TimersFit'
  <2>1. CASE phase[shown] = "engine"
    <3>1. /\ timers = <<>> /\ Len(timers') = 1 /\ timers'[1].mount = shown
          /\ timers'[1].task # "start"
          /\ timers'[1].task = "teardown" => disposed'[shown]
      BY <1>1, <1>2, <2>1, CleanUpTimers
    <3>2. timers' # <<>> /\ 1 .. Len(timers') = {1}
      BY <1>4, <3>1
    <3>3. ASSUME NEW m \in Mounts, phase'[m] = "engine", ~torn[m]
          PROVE  m = shown
      BY <1>3, <3>1, <3>3 DEF ViewsInv, TimersFit
    <3>4. QED BY <1>1, <1>2, <1>3, <2>1, <3>1, <3>2, <3>3 DEF TimersFit
  <2>2. CASE phase[shown] # "engine"
    <3>1. /\ disposed' = disposed /\ Len(timers') <= Len(timers)
          /\ \A i \in 1 .. Len(timers') : timers'[i] = timers[i] /\ timers[i].task # "start"
          /\ \A i \in 1 .. Len(timers) : timers[i].task # "start" => Len(timers') >= 1
      BY <1>1, <1>2, <2>2, CleanUpTimers
    <3>2. timers \in Seq(Tasks) /\ \A i \in 1 .. Len(timers) : timers[i].mount \in Mounts
      BY TimersNameMounts DEF ViewsInv, Shape
    <3>3. ASSUME NEW i \in 1 .. Len(timers')
          PROVE  /\ timers'[i].task # "start" /\ i = 1 /\ timers'[i].mount # 0
                 /\ phase'[timers'[i].mount] = "engine"
                 /\ timers'[i].task = "teardown" => disposed'[timers'[i].mount]
      <4>1. i \in 1 .. Len(timers)
        BY <1>4, <3>1, <3>2
      <4>2. QED BY <1>2, <1>3, <2>2, <3>1, <3>2, <4>1 DEF ViewsInv, TimersFit
    <3>4. ASSUME NEW m \in Mounts, phase'[m] = "engine", ~torn[m]
          PROVE  timers' # <<>> /\ timers'[1].mount = m
      <4>1. m # shown /\ timers # <<>> /\ timers[1].mount = m
        BY <1>3, <2>2, <3>4 DEF ViewsInv, TimersFit
      <4>2. 1 \in 1 .. Len(timers) /\ timers[1].task # "start"
        BY <3>2, <4>1 DEF ViewsInv, TimersFit
      <4>3. Len(timers') >= 1 /\ Len(timers') \in Nat
        BY <1>4, <3>1, <4>2
      <4>4. QED BY <1>4, <3>1, <4>1, <4>3
    <3>5. QED BY <1>1, <1>2, <3>3, <3>4 DEF TimersFit
  <2>3. QED BY <2>1, <2>2
<1>9. ReadyFits'
  BY <1>1, <1>2 DEF ReadyFits
<1>10. QED BY <1>5, <1>7, <1>8, <1>9 DEF ViewsInv
LEMMA SwitchStep == ASSUME ViewsAssumption, ViewsInv, SwitchSource PROVE ViewsInv'
<1> USE DEF build
<1>1. /\ shown \in Mounts /\ CleanUp(shown) /\ used < MaxMounts /\ used' = used + 1 /\ shown' = used + 1
      /\ used + 1 \in Mounts /\ used \in Nat /\ shown <= used
      /\ phase' = [phase EXCEPT ![shown] = LeftPhase(shown), ![used + 1] = "importing"]
      /\ ready' = FALSE /\ error' = FALSE /\ setting' = FALSE
      /\ UNCHANGED <<torn, applied, waits, live, overlay, lost, sent>>
  BY DEF SwitchSource, Mount, ViewsInv, Shape, ViewsAssumption, Mounts
<1>2. /\ kind \in [Mounts -> Kinds] /\ phase \in [Mounts -> Phases] /\ MaxMounts \in Nat
      /\ 0 \notin Mounts
  BY DEF ViewsInv, Shape, ViewsAssumption, Mounts
<1> PICK n \in Mounts : n = used + 1
  BY <1>1
<1>3. n # shown /\ n > used
  BY <1>1
<1>4. phase[n] = "none" /\ ~Works(n)
  BY <1>1, <1>2, <1>3 DEF ViewsInv, PhasesFit
<1>5. /\ phase'[n] = "importing" /\ ~Works(n)'
      /\ \A m \in Mounts \ {n, shown} : phase'[m] = phase[m]
      /\ phase[shown] = "engine" <=> phase'[shown] = "engine"
      /\ phase'[shown] \notin {"frame", "timer"}
      /\ phase[shown] = "none" => phase'[shown] = "none"
      /\ phase' \in [Mounts -> Phases]
      /\ \A m \in Mounts : Works(m)' <=> Works(m)
  <2>1. /\ phase'[n] = "importing" /\ phase' \in [Mounts -> Phases]
        /\ \A m \in Mounts \ {n, shown} : phase'[m] = phase[m]
        /\ phase'[shown] = LeftPhase(shown)
    BY <1>1, <1>2, <1>3 DEF LeftPhase, Phases
  <2>2. \A m \in Mounts : Works(m)' <=> Works(m)
    BY <1>1 DEF Works
  <2>3. QED BY <1>4, <2>1, <2>2 DEF LeftPhase
<1>6. /\ disposed' \in [Mounts -> BOOLEAN] /\ timers' \in Seq(Tasks)
      /\ \A m \in Mounts \ {shown} : disposed'[m] = disposed[m]
  BY <1>1, <1>2, CleanUpTimers
<1>7. Shape'
  <2>1. shown' \in 0 .. used' /\ used' \in 0 .. MaxMounts
    BY <1>1, <1>2
  <2>2. kind' \in [Mounts -> Kinds]
    BY <1>1, <1>2 DEF SwitchSource, Mount
  <2>3. ready' \in BOOLEAN /\ error' \in BOOLEAN /\ setting' \in BOOLEAN
    BY <1>1
  <2>4. QED BY <1>1, <1>5, <1>6, <2>1, <2>2, <2>3 DEF ViewsInv, Shape
<1>8. ~torn[shown]
  BY <1>1 DEF ViewsInv, PhasesFit
<1>9. PhasesFit'
  <2>1. ASSUME NEW m \in Mounts, m # n
        PROVE  /\ m > used' => phase'[m] = "none"
               /\ phase'[m] \notin {"frame", "timer"}
               /\ Works(m)' => phase'[m] = "engine"
               /\ torn'[m] => m # shown' /\ disposed'[m] /\ live'[m] = {}
    <3>1. CASE m = shown
      BY <1>1, <1>3, <1>5, <1>8, <3>1 DEF ViewsInv, PhasesFit
    <3>2. CASE m # shown
      <4>1. /\ phase'[m] = phase[m] /\ disposed'[m] = disposed[m] /\ (Works(m)' <=> Works(m))
            /\ torn'[m] = torn[m] /\ live'[m] = live[m]
        BY <1>1, <1>5, <1>6, <2>1, <3>2
      <4>2. /\ m > used => phase[m] = "none"
            /\ phase[m] \notin {"frame", "timer"}
            /\ Works(m) => phase[m] = "engine"
            /\ torn[m] => disposed[m] /\ live[m] = {}
        BY <3>2 DEF ViewsInv, PhasesFit
      <4>3. m # shown' /\ (m > used' => m > used)
        BY <1>1, <2>1 DEF Mounts
      <4>4. QED BY <4>1, <4>2, <4>3
    <3>3. QED BY <3>1, <3>2
  <2>2. ~torn'[n] /\ ~(n > used') /\ shown' = n
    BY <1>1, <1>4 DEF Works
  <2>3. QED BY <1>5, <2>1, <2>2 DEF PhasesFit
<1>10. TimersFit'
  <2>1. CASE phase[shown] = "engine"
    <3>1. /\ timers = <<>> /\ Len(timers') = 1 /\ timers'[1].mount = shown
          /\ timers'[1].task # "start"
          /\ timers'[1].task = "teardown" => disposed'[shown]
      BY <1>1, <1>2, <2>1, CleanUpTimers
    <3>2. timers' # <<>> /\ 1 .. Len(timers') = {1}
      BY <1>6, <3>1
    <3>3. ASSUME NEW m \in Mounts, phase'[m] = "engine", ~torn[m]
          PROVE  m = shown
      BY <1>5, <3>1, <3>3 DEF ViewsInv, TimersFit
    <3>4. QED BY <1>1, <1>3, <1>5, <2>1, <3>1, <3>2, <3>3 DEF TimersFit
  <2>2. CASE phase[shown] # "engine"
    <3>1. /\ disposed' = disposed /\ Len(timers') <= Len(timers)
          /\ \A i \in 1 .. Len(timers') : timers'[i] = timers[i] /\ timers[i].task # "start"
          /\ \A i \in 1 .. Len(timers) : timers[i].task # "start" => Len(timers') >= 1
      BY <1>1, <1>2, <2>2, CleanUpTimers
    <3>2. timers \in Seq(Tasks) /\ \A i \in 1 .. Len(timers) : timers[i].mount \in Mounts
      BY TimersNameMounts DEF ViewsInv, Shape
    <3>3. ASSUME NEW i \in 1 .. Len(timers')
          PROVE  /\ timers'[i].task # "start" /\ i = 1 /\ timers'[i].mount # n
                 /\ phase'[timers'[i].mount] = "engine"
                 /\ timers'[i].task = "teardown" => disposed'[timers'[i].mount]
      <4>1. i \in 1 .. Len(timers)
        BY <1>6, <3>1, <3>2
      <4> DEFINE m == timers[i].mount
      <4>2. /\ timers'[i] = timers[i] /\ timers[i].task # "start" /\ m \in Mounts
            /\ i = 1 /\ m # shown /\ phase[m] = "engine" /\ (timers[i].task = "teardown" => disposed[m])
        BY <3>1, <3>2, <4>1 DEF ViewsInv, TimersFit
      <4>3. m # n /\ phase'[m] = "engine" /\ disposed'[m] = disposed[m]
        BY <1>4, <1>5, <1>6, <4>2
      <4>4. QED BY <4>2, <4>3
    <3>4. ASSUME NEW m \in Mounts, phase'[m] = "engine"
          PROVE  m # n /\ (~torn[m] => timers' # <<>> /\ timers'[1].mount = m)
      <4>1. m # n /\ m # shown /\ phase[m] = "engine"
        BY <1>5, <2>2, <3>4
      <4>2. SUFFICES ASSUME ~torn[m] PROVE timers' # <<>> /\ timers'[1].mount = m
        BY <4>1
      <4>3. timers # <<>> /\ timers[1].mount = m
        BY <4>1, <4>2 DEF ViewsInv, TimersFit
      <4>4. 1 \in 1 .. Len(timers) /\ timers[1].task # "start"
        BY <3>2, <4>1, <4>3 DEF ViewsInv, TimersFit
      <4>5. Len(timers') >= 1 /\ Len(timers') \in Nat
        BY <1>6, <3>1, <4>4
      <4>6. QED BY <1>6, <3>1, <4>3, <4>5
    <3>5. QED BY <1>1, <3>3, <3>4 DEF TimersFit
  <2>3. QED BY <2>1, <2>2
<1>11. ReadyFits'
  BY <1>1 DEF ReadyFits
<1>12. QED BY <1>7, <1>9, <1>10, <1>11 DEF ViewsInv

LEMMA SettingStep == ASSUME ViewsAssumption, ViewsInv, Toggle \/ ReadyRender PROVE ViewsInv'
<1> USE DEF build
<1>1. /\ shown \in Mounts /\ applied \in [Mounts -> BOOLEAN] /\ setting \in BOOLEAN
      /\ UNCHANGED <<shown, used, kind, phase, disposed, torn, timers, waits, live, overlay, sent, lost, error>>
  BY DEF Toggle, ReadyRender, ViewsInv, Shape, ViewsAssumption, Mounts
<1>2. /\ ready' \in BOOLEAN /\ setting' \in BOOLEAN
      /\ ready' => phase[shown] = "engine" /\ applied' = [applied EXCEPT ![shown] = setting']
      /\ applied' = applied \/ applied' = [applied EXCEPT ![shown] = setting']
  <2>1. CASE Toggle
    BY <1>1, <2>1 DEF Toggle, ViewsInv, Shape, ReadyFits
  <2>2. CASE ReadyRender
    BY <1>1, <2>2 DEF ReadyRender, ViewsInv, PhasesFit, Works
  <2>3. QED BY <2>1, <2>2
<1>3. applied' \in [Mounts -> BOOLEAN] /\ (ready' => applied'[shown] = setting')
  BY <1>1, <1>2
<1>4. Shape'
  BY <1>1, <1>2, <1>3 DEF ViewsInv, Shape
<1>5. PhasesFit' /\ TimersFit'
  <2>1. \A m \in Mounts : Works(m)' <=> Works(m)
    BY <1>1 DEF Works
  <2>2. QED BY <1>1, <2>1 DEF ViewsInv, PhasesFit, TimersFit
<1>6. ReadyFits'
  BY <1>1, <1>2, <1>3 DEF ReadyFits
<1>7. QED BY <1>4, <1>5, <1>6 DEF ViewsInv
-----------------------------------------------------------------------------
(* The mount effect's steps, and the teardown *)

\* Before it has an engine, a mount's effect goes on without it.
LEMMA EffectStep ==
  ASSUME ViewsInv, NEW m \in Mounts, phase[m] # "engine", m <= used, phase'[m] # "engine",
         phase' \in [Mounts -> Phases], \A n \in Mounts \ {m} : phase'[n] = phase[n],
         phase'[m] \in {"frame", "timer"} => m = shown, error' \in BOOLEAN,
         UNCHANGED <<shown, used, kind, disposed, torn, waits, live, overlay, sent, lost,
                     ready, setting, applied>>
  PROVE  PhasesFit' /\ ReadyFits' /\ (timers' \in Seq(Tasks) => Shape')
<1>1. \A n \in Mounts : Works(n)' <=> Works(n)
  BY DEF Works
<1>2. PhasesFit'
  <2>1. ~Works(m) /\ ~torn[m] /\ used \in Int /\ ~(m > used)
    BY DEF ViewsInv, PhasesFit, Works, Shape, Mounts
  <2>2. ASSUME NEW n \in Mounts
        PROVE  /\ n > used => phase'[n] = "none"
               /\ phase'[n] \in {"frame", "timer"} => n = shown
               /\ Works(n) => phase'[n] = "engine"
               /\ torn[n] => n # shown /\ disposed[n] /\ live[n] = {}
    BY <2>1 DEF ViewsInv, PhasesFit
  <2>3. QED BY <1>1, <2>2 DEF PhasesFit
<1>3. ReadyFits'
  BY DEF ViewsInv, ReadyFits
<1>4. ASSUME timers' \in Seq(Tasks) PROVE Shape'
  BY <1>4 DEF ViewsInv, Shape
<1>5. QED BY <1>2, <1>3, <1>4

LEMMA ImportStep ==
  ASSUME ViewsAssumption, ViewsInv, NEW m \in Mounts, Imported(m) \/ ImportFails(m)
  PROVE  ViewsInv'
<1> USE DEF build, viewState
<1>1. phase \in [Mounts -> Phases] /\ error \in BOOLEAN /\ timers \in Seq(Tasks)
  BY DEF ViewsInv, Shape
<1>2. /\ phase[m] = "importing" /\ phase'[m] \in {"frame", "none", "failed"}
      /\ phase'[m] = "frame" => m = shown
      /\ phase' \in [Mounts -> Phases] /\ \A n \in Mounts \ {m} : phase'[n] = phase[n]
  BY <1>1 DEF Imported, ImportFails, Phases
<1>3. /\ UNCHANGED <<shown, used, kind, disposed, torn, waits, live, overlay, sent, lost,
                     ready, setting, applied, timers>>
      /\ error' = error \/ error' = (error \/ m = shown)
  BY DEF Imported, ImportFails, ShowsError
<1>4. error' \in BOOLEAN
  BY <1>1, <1>3, Zenon
<1>5. m <= used
  BY <1>2 DEF ViewsInv, PhasesFit, Shape, Mounts
<1>6. Shape' /\ PhasesFit' /\ ReadyFits'
  BY <1>1, <1>2, <1>3, <1>4, <1>5, EffectStep
<1>7. TimersFit'
  <2>1. ASSUME NEW n \in Mounts
        PROVE  /\ phase'[n] = "engine" <=> phase[n] = "engine"
               /\ phase[n] = "timer" => phase'[n] = "timer"
    BY <1>2
  <2>2. \A i \in 1 .. Len(timers) : timers[i].mount \in Mounts
    BY TimersNameMounts DEF ViewsInv
  <2>3. QED BY <1>3, <2>1, <2>2 DEF ViewsInv, TimersFit
<1>8. QED BY <1>6, <1>7 DEF ViewsInv

LEMMA PaintedStep == ASSUME ViewsAssumption, ViewsInv, NEW m \in Mounts, Painted(m) PROVE ViewsInv'
<1> USE DEF build, viewState
<1> DEFINE e == Timer("start", m)
<1>1. /\ phase \in [Mounts -> Phases] /\ error \in BOOLEAN /\ timers \in Seq(Tasks)
      /\ e \in Tasks /\ e.task = "start" /\ e.mount = m
  BY DEF ViewsInv, Shape, Tasks, Timer
<1>2. /\ phase[m] = "frame" /\ phase' = [phase EXCEPT ![m] = "timer"] /\ timers' = Append(timers, e)
      /\ UNCHANGED <<shown, used, kind, disposed, torn, waits, live, overlay, sent, lost,
                     ready, error, setting, applied>>
  BY DEF Painted
<1>3. m = shown /\ m <= used
  BY <1>2 DEF ViewsInv, PhasesFit, Shape, Mounts
<1>4. /\ phase'[m] = "timer" /\ \A n \in Mounts \ {m} : phase'[n] = phase[n]
      /\ phase' \in [Mounts -> Phases]
  BY <1>1, <1>2 DEF Phases
<1> HIDE DEF e
<1>5. /\ timers' \in Seq(Tasks) /\ Len(timers') = Len(timers) + 1 /\ timers'[Len(timers')] = e
      /\ \A i \in 1 .. Len(timers) : timers'[i] = timers[i]
      /\ timers' # <<>> /\ Len(timers) \in Nat
  BY <1>1, <1>2
<1>6. Shape' /\ PhasesFit' /\ ReadyFits'
  BY <1>1, <1>2, <1>3, <1>4, <1>5, EffectStep
<1>7. \A i \in 1 .. Len(timers) : timers[i].mount \in Mounts /\ timers[i].task # "start" /\ timers[i].mount # m
  BY <1>2, <1>3, TimersNameMounts DEF ViewsInv, TimersFit
<1>8. TimersFit'
  <2>1. ASSUME NEW i \in 1 .. Len(timers'), i # Len(timers')
        PROVE  /\ timers'[i].task # "start" /\ i = 1 /\ timers'[i].mount # shown
               /\ phase'[timers'[i].mount] = "engine"
               /\ timers'[i].task = "teardown" => disposed[timers'[i].mount]
    <3>1. i \in 1 .. Len(timers) /\ timers'[i] = timers[i]
      BY <1>5, <2>1
    <3>2. QED BY <1>3, <1>4, <1>7, <3>1 DEF ViewsInv, TimersFit
  <2>2. ASSUME NEW n \in Mounts, phase'[n] = "engine"
        PROVE  n # shown /\ (~torn[n] => timers'[1].mount = n)
    <3>1. n # m /\ phase[n] = "engine"
      BY <1>4, <2>2
    <3>2. ~torn[n] => timers # <<>> /\ timers[1].mount = n
      BY <1>3, <3>1 DEF ViewsInv, TimersFit
    <3>3. timers # <<>> => 1 \in 1 .. Len(timers)
      BY <1>1
    <3>4. QED BY <1>3, <1>5, <3>1, <3>2, <3>3
  <2>3. \A i \in 1 .. Len(timers') :
          i = Len(timers') => timers'[i].task = "start" /\ timers'[i].mount = shown /\ phase'[shown] = "timer"
    BY <1>1, <1>3, <1>4, <1>5
  <2>4. QED BY <1>2, <1>3, <1>5, <2>1, <2>2, <2>3 DEF TimersFit
<1>9. QED BY <1>6, <1>8 DEF ViewsInv

\* The start of an engine is the only timer left.
LEMMA StartIsAlone ==
  ASSUME ViewsAssumption, ViewsInv, NEW m \in Mounts, IsNext("start", m)
  PROVE  /\ timers' = <<>> /\ m = shown /\ phase[m] = "timer" /\ m <= used
         /\ \A n \in Mounts : phase[n] = "engine" => n # m /\ torn[n]
<1>1. timers \in Seq(Tasks) /\ timers # <<>> /\ Head(timers) = Timer("start", m) /\ timers' = Tail(timers)
  BY DEF IsNext, ViewsInv, Shape
<1>2. 1 \in 1 .. Len(timers) /\ timers[1] = Timer("start", m) /\ timers[1].task = "start" /\ timers[1].mount = m
  BY <1>1 DEF Timer
<1>3. Len(timers) = 1 /\ m = shown /\ phase[m] = "timer"
  BY <1>2 DEF ViewsInv, TimersFit
<1>4. timers' = <<>>
  BY <1>1, <1>3
<1>5. m <= used
  BY <1>3 DEF ViewsInv, PhasesFit, Shape, Mounts
<1>6. ASSUME NEW n \in Mounts, phase[n] = "engine" PROVE n # m /\ torn[n]
  BY <1>2, <1>3, <1>6 DEF ViewsInv, TimersFit
<1>7. QED BY <1>3, <1>4, <1>5, <1>6

LEMMA StartStep ==
  ASSUME ViewsAssumption, ViewsInv, NEW m \in Mounts, Start(m) PROVE ViewsInv'
<1> USE DEF viewState
<1>1. /\ timers' = <<>> /\ m = shown /\ phase[m] = "timer" /\ m <= used
      /\ \A n \in Mounts : phase[n] = "engine" => n # m /\ torn[n]
  BY StartIsAlone DEF Start
<1>2. /\ phase' = [phase EXCEPT ![m] = "engine"] /\ live' = [live EXCEPT ![m] = Created[kind[m]]]
      /\ waits' = [waits EXCEPT ![m] = "task"]
      /\ UNCHANGED <<shown, used, kind, disposed, torn, overlay, sent, lost, ready, error, setting, applied>>
  BY DEF Start
<1>3. Shape'
  <2>1. phase' \in [Mounts -> Phases]
    BY <1>2 DEF ViewsInv, Shape, Phases
  <2>2. live' = [n \in Mounts |-> live'[n]] /\ waits' = [n \in Mounts |-> waits'[n]]
    BY <1>2 DEF ViewsInv, Shape
  <2>3. timers' \in Seq(Tasks)
    BY <1>1
  <2>4. QED BY <1>2, <2>1, <2>2, <2>3 DEF ViewsInv, Shape
<1>4. /\ phase'[m] = "engine" /\ ~torn[m] /\ ~(m > used)
      /\ \A n \in Mounts \ {m} : phase'[n] = phase[n] /\ live'[n] = live[n] /\ waits'[n] = waits[n]
  BY <1>1, <1>2 DEF ViewsInv, Shape, PhasesFit, Works, Mounts
<1>5. PhasesFit'
  <2>1. ASSUME NEW n \in Mounts \ {m}
        PROVE  /\ n > used => phase'[n] = "none"
               /\ phase'[n] \in {"frame", "timer"} => n = shown
               /\ Works(n)' => phase'[n] = "engine"
               /\ torn[n] => n # shown /\ disposed[n] /\ live'[n] = {}
    BY <1>2, <1>4 DEF ViewsInv, PhasesFit, Works
  <2>2. QED BY <1>2, <1>4, <2>1 DEF PhasesFit
<1>6. TimersFit'
  BY <1>1, <1>2, <1>4 DEF TimersFit
<1>7. ReadyFits'
  BY <1>1, <1>2, <1>4 DEF ViewsInv, ReadyFits
<1>8. QED BY <1>3, <1>5, <1>6, <1>7 DEF ViewsInv

LEMMA StartFailsStep ==
  ASSUME ViewsAssumption, ViewsInv, NEW m \in Mounts, StartFails(m) PROVE ViewsInv'
<1> USE DEF build
<1>1. /\ timers' = <<>> /\ m = shown /\ phase[m] = "timer" /\ m <= used
      /\ \A n \in Mounts : phase[n] = "engine" => n # m /\ torn[n]
  BY StartIsAlone DEF StartFails
<1>2. /\ phase' = [phase EXCEPT ![m] = "failed"] /\ error' = (error \/ m = shown)
      /\ UNCHANGED <<shown, used, kind, disposed, torn, waits, live, overlay, sent, lost, ready, setting, applied>>
  BY DEF StartFails, ShowsError
<1>3. error' \in BOOLEAN
  BY <1>2, Zenon
<1>4. /\ phase' \in [Mounts -> Phases] /\ phase'[m] = "failed"
      /\ \A n \in Mounts \ {m} : phase'[n] = phase[n]
  BY <1>2 DEF ViewsInv, Shape, Phases
<1>5. timers' \in Seq(Tasks)
  BY <1>1
<1>6. Shape' /\ PhasesFit' /\ ReadyFits'
  BY <1>1, <1>2, <1>3, <1>4, <1>5, EffectStep
<1>7. TimersFit'
  BY <1>1, <1>2, <1>4 DEF TimersFit
<1>8. QED BY <1>6, <1>7 DEF ViewsInv

\* A teardown is the first and only one, of a mount that is not shown.
LEMMA FreedStep ==
  ASSUME ViewsAssumption, ViewsInv, NEW m \in Mounts, Dispose(m) \/ TearDown(m) PROVE ViewsInv'
<1> USE DEF viewState
<1>1. /\ timers \in Seq(Tasks) /\ timers # <<>> /\ timers' = Tail(timers)
      /\ timers[1] = Timer("dispose", m) \/ timers[1] = Timer("teardown", m)
      /\ TearDown(m) => timers[1] = Timer("teardown", m)
  BY DEF Dispose, TearDown, IsNext, ViewsInv, Shape
<1>2. timers[1].task # "start" /\ timers[1].mount = m /\ 1 \in 1 .. Len(timers)
  BY <1>1 DEF Timer
<1>3. m # shown /\ phase[m] = "engine" /\ (timers[1].task = "teardown" => disposed[m])
  BY <1>2 DEF ViewsInv, TimersFit
<1>4. /\ live' = [live EXCEPT ![m] = {}] /\ torn' = [torn EXCEPT ![m] = TRUE]
      /\ disposed' = disposed \/ disposed' = [disposed EXCEPT ![m] = TRUE]
      /\ TearDown(m) \/ disposed' = [disposed EXCEPT ![m] = TRUE]
      /\ UNCHANGED <<shown, used, kind, phase, waits, overlay, lost, sent, ready, error, setting, applied>>
  BY DEF Dispose, TearDown, Freed
<1>5. disposed \in [Mounts -> BOOLEAN] /\ torn \in [Mounts -> BOOLEAN]
  BY DEF ViewsInv, Shape
<1>6. /\ disposed' \in [Mounts -> BOOLEAN] /\ torn' \in [Mounts -> BOOLEAN]
      /\ disposed'[m] /\ torn'[m]
      /\ \A n \in Mounts \ {m} : disposed'[n] = disposed[n] /\ torn'[n] = torn[n]
  <2>1. TearDown(m) => disposed[m]
    BY <1>1, <1>3 DEF Timer
  <2>2. torn' \in [Mounts -> BOOLEAN] /\ torn'[m] /\ \A n \in Mounts \ {m} : torn'[n] = torn[n]
    BY <1>4, <1>5
  <2>3. CASE disposed' = [disposed EXCEPT ![m] = TRUE]
    BY <1>5, <2>2, <2>3
  <2>4. CASE TearDown(m) /\ disposed' = disposed
    BY <1>5, <2>1, <2>2, <2>4
  <2>5. QED BY <1>4, <2>3, <2>4
<1>7. /\ timers' \in Seq(Tasks) /\ Len(timers') = Len(timers) - 1 /\ Len(timers) \in Nat
      /\ \A i \in 1 .. Len(timers') : timers'[i] = timers[i + 1] /\ i + 1 \in 1 .. Len(timers)
  BY <1>1
<1>8. /\ live' = [n \in Mounts |-> live'[n]] /\ live'[m] = {}
      /\ \A n \in Mounts \ {m} : live'[n] = live[n]
  BY <1>4 DEF ViewsInv, Shape
<1>9. Shape'
  BY <1>4, <1>6, <1>7, <1>8 DEF ViewsInv, Shape
<1>10. PhasesFit'
  <2>1. ASSUME NEW n \in Mounts \ {m}
        PROVE  /\ n > used => phase[n] = "none"
               /\ phase[n] \in {"frame", "timer"} => n = shown
               /\ Works(n)' => phase[n] = "engine"
               /\ torn'[n] => n # shown /\ disposed'[n] /\ live'[n] = {}
    <3>1. Works(n)' <=> Works(n)
      BY <1>4, <1>6, <1>8 DEF Works
    <3>2. QED BY <1>6, <1>8, <3>1 DEF ViewsInv, PhasesFit
  <2>2. m > used => phase[m] = "none"
    BY DEF ViewsInv, PhasesFit
  <2>3. QED BY <1>3, <1>4, <1>6, <1>8, <2>1, <2>2 DEF PhasesFit
<1>11. TimersFit'
  <2>1. \A i \in 1 .. Len(timers') :
          /\ timers'[i].task = "start" /\ i = Len(timers') /\ timers'[i].mount = shown
          /\ phase[timers'[i].mount] = "timer"
    <3>1. SUFFICES ASSUME NEW i \in 1 .. Len(timers')
                   PROVE  /\ timers'[i].task = "start" /\ i = Len(timers') /\ timers'[i].mount = shown
                          /\ phase[timers'[i].mount] = "timer"
      OBVIOUS
    <3>2. timers'[i] = timers[i + 1] /\ i + 1 \in 1 .. Len(timers) /\ i + 1 # 1
      BY <1>7
    <3>3. /\ timers[i + 1].task = "start" /\ i + 1 = Len(timers) /\ timers[i + 1].mount = shown
          /\ phase[timers[i + 1].mount] = "timer"
      BY <3>2 DEF ViewsInv, TimersFit
    <3>4. QED BY <1>7, <3>2, <3>3
  <2>2. ASSUME NEW n \in Mounts, phase[n] = "engine" PROVE n # shown /\ torn'[n]
    <3>1. n # shown
      BY <1>1, <2>2 DEF ViewsInv, TimersFit
    <3>2. ~torn[n] => timers[1].mount = n
      BY <2>2, <3>1 DEF ViewsInv, TimersFit
    <3>3. QED BY <1>2, <1>6, <3>1, <3>2
  <2>3. QED BY <1>4, <2>1, <2>2 DEF TimersFit
<1>12. ReadyFits'
  BY <1>4 DEF ViewsInv, ReadyFits
<1>13. QED BY <1>9, <1>10, <1>11, <1>12 DEF ViewsInv

-----------------------------------------------------------------------------
(* The theorems *)

LEMMA ViewsInvNext == ViewsAssumption /\ ViewsInv /\ [ViewsNext]_viewsVars => ViewsInv'
<1> SUFFICES ASSUME ViewsAssumption, ViewsInv, [ViewsNext]_viewsVars PROVE ViewsInv'
  OBVIOUS
<1>1. CASE Page \/ ReadyRender
  BY <1>1, OpenStep, LeaveStep, SwitchStep, SettingStep DEF Page
<1>2. ASSUME NEW m \in Mounts, Loading(m) \/ Breaking(m) PROVE ViewsInv'
  BY <1>2, WorkingStep, ImportStep, PaintedStep, StartStep, StartFailsStep, FreedStep
     DEF Loading, Breaking
<1>3. CASE UNCHANGED viewsVars
  <2>1. Shape' /\ PhasesFit' /\ TimersFit' /\ ReadyFits'
    BY <1>3 DEF viewsVars, build, viewState, ViewsInv, Shape, PhasesFit, TimersFit, ReadyFits, Works
  <2>2. QED BY <2>1 DEF ViewsInv
<1>4. QED BY <1>1, <1>2, <1>3 DEF ViewsNext

\* The inductive invariant of the pages holds: phases, timers and flags of the
\* mounts fit together, whatever fails.
THEOREM ViewsInvariantHolds == ASSUME ViewsAssumption PROVE ViewsSpec => []ViewsInv
BY ViewsInvInit, ViewsInvNext, PTL DEF ViewsSpec

\* One WebGL context lives at a time, a torn-down engine holds nothing and makes
\* nothing, and an engine that runs off the page has its teardown queued.
THEOREM NothingIsLeftBehind == ASSUME ViewsAssumption PROVE ViewsSpec => []NothingLeftBehind
<1>1. ViewsInv => NothingLeftBehind
  <2> SUFFICES ASSUME ViewsInv PROVE NothingLeftBehind
    OBVIOUS
  <2>1. ASSUME NEW m \in Mounts, live[m] # {}
        PROVE  /\ phase[m] = "engine" /\ ~torn[m]
               /\ m # shown => timers # <<>> /\ timers[1].mount = m
               /\ m = shown => timers = <<>>
    BY <2>1 DEF ViewsInv, PhasesFit, TimersFit, Works
  <2>2. OneContext
    BY <2>1 DEF OneContext
  <2>3. timers # <<>> => 1 \in DOMAIN timers
    BY DEF ViewsInv, Shape
  <2>4. LeftIsFreed
    BY <2>1, <2>3 DEF LeftIsFreed, ViewsInv, PhasesFit
  <2>5. QED BY <2>2, <2>4 DEF NothingLeftBehind
<1>2. QED BY <1>1, ViewsInvariantHolds, PTL

\* A view that is ready works by the toolbar's settings, those changed while it
\* loaded included.
THEOREM SettingsAlwaysAgree == ASSUME ViewsAssumption PROVE ViewsSpec => []SettingsAgree
<1>1. ViewsInv => SettingsAgree
  BY DEF ViewsInv, ReadyFits, SettingsAgree
<1>2. QED BY <1>1, ViewsInvariantHolds, PTL

\* The two together: what a
\* page that opens and leaves views in any order can rely on.
THEOREM ViewsStaySound == ASSUME ViewsAssumption PROVE ViewsSpec => []ViewsAreSound
<1>1. NothingLeftBehind /\ SettingsAgree => ViewsAreSound
  BY DEF ViewsAreSound
<1>2. QED BY <1>1, NothingIsLeftBehind, SettingsAlwaysAgree, PTL
-----------------------------------------------------------------------------
(* The layout's pointer and labels *)

\* A set of numbers that is not empty has a least element.
LEMMA LeastNumber ==
  ASSUME NEW T \in SUBSET Nat, T # {}
  PROVE  \E x \in T : \A y \in T : x <= y
<1> DEFINE R == OpToRel(<, Nat)
<1>1. IsWellFoundedOn(R, Nat)
  BY NatLessThanWellFounded
<1>2. PICK x \in T : \A y \in T : ~(<<y, x>> \in R)
  BY <1>1, WFMin
<1>3. \A y \in T : ~(y < x)
  BY <1>2 DEF OpToRel
<1>4. QED BY <1>3

\* What the first n slots show: f is as `update` decides, one after another.
Decided(f, list, c, covered, n) ==
  f = [i \in 1 .. n |->
         /\ Shows(list[i], c, covered)
         /\ \A j \in 1 .. i - 1 : f[j] => boxAt(list[j], c) \cap boxAt(list[i], c) = {}]

LEMMA DecidedOneMore ==
  ASSUME NEW list, NEW c, NEW covered, NEW n \in Nat, NEW f, Decided(f, list, c, covered, n)
  PROVE  \E g : Decided(g, list, c, covered, n + 1)
<1> DEFINE last == /\ Shows(list[n + 1], c, covered)
                   /\ \A j \in 1 .. n : f[j] => boxAt(list[j], c) \cap boxAt(list[n + 1], c) = {}
           g == [i \in 1 .. n + 1 |-> IF i = n + 1 THEN last ELSE f[i]]
           of(h, i) == /\ Shows(list[i], c, covered)
                       /\ \A j \in 1 .. i - 1 : h[j] => boxAt(list[j], c) \cap boxAt(list[i], c) = {}
<1>1. f = [i \in 1 .. n |-> of(f, i)]
  BY DEF Decided
<1> HIDE DEF last
<1>2. /\ \A j \in 1 .. n : g[j] = f[j] /\ j # n + 1 /\ j \in 1 .. n + 1
      /\ g[n + 1] = last
  OBVIOUS
<1> HIDE DEF g
<1>3. ASSUME NEW i \in 1 .. n + 1
      PROVE  of(g, i) = of(f, i)
  <2>1. \A j \in 1 .. i - 1 : j \in 1 .. n
    OBVIOUS
  <2>2. \A j \in 1 .. i - 1 : g[j] = f[j]
    BY <1>2, <2>1
  <2> QED BY <2>2
<1>4. ASSUME NEW i \in 1 .. n + 1
      PROVE  g[i] = of(g, i)
  <2>1. CASE i = n + 1
    <3>1. g[i] = last /\ i - 1 = n
      BY <1>2, <2>1
    <3>2. last = of(f, i)
      BY <2>1, <3>1 DEF last
    <3> QED BY <1>3, <3>1, <3>2
  <2>2. CASE i \in 1 .. n
    <3>1. g[i] = f[i]
      BY <1>2, <2>2
    <3> HIDE DEF of
    <3>2. f[i] = of(f, i)
      BY <1>1, <2>2
    <3> QED BY <1>3, <3>1, <3>2
  <2>3. i = n + 1 \/ i \in 1 .. n
    OBVIOUS
  <2> HIDE DEF of
  <2> QED BY <2>1, <2>2, <2>3
<1>5. g = [i \in 1 .. n + 1 |-> of(g, i)]
  <2> HIDE DEF of
  <2>1. \A i \in 1 .. n + 1 : g[i] = of(g, i)
    BY <1>4
  <2>2. g = [i \in 1 .. n + 1 |-> g[i]]
    BY DEF g
  <2> QED BY <2>1, <2>2
<1>6. Decided(g, list, c, covered, n + 1)
  <2> QED BY <1>5 DEF Decided
<1> QED BY <1>6

LEMMA DecidedExists ==
  ASSUME NEW list, NEW c, NEW covered, NEW n \in Nat
  PROVE  \E f : Decided(f, list, c, covered, n)
<1> DEFINE T == {k \in Nat : ~\E f : Decided(f, list, c, covered, k)}
<1>1. 0 \notin T
  <2>1. Decided(<<>>, list, c, covered, 0)
    BY DEF Decided
  <2> QED BY <2>1
<1>2. ASSUME NEW k \in Nat, k \notin T
      PROVE  k + 1 \notin T
  <2>1. PICK f : Decided(f, list, c, covered, k)
    BY <1>2
  <2> QED BY <2>1, DecidedOneMore
<1>3. T = {}
  <2> SUFFICES ASSUME T # {} PROVE FALSE
    OBVIOUS
  <2>1. PICK k \in T : \A m \in T : k <= m
    BY LeastNumber
  <2>2. k \in Nat /\ k # 0 /\ k - 1 \in Nat /\ k - 1 \notin T /\ (k - 1) + 1 = k
    BY <1>1, <2>1
  <2> HIDE DEF T
  <2> QED BY <1>2, <2>1, <2>2
<1> QED BY <1>3

\* Chips are clear of one another, of the right edge and of the measured panels.
Apart(chips, covered) ==
  \A i, j \in DOMAIN chips : /\ (i # j => chips[i] \cap chips[j] = {})
                             /\ ~Hidden(chips[i], covered)

LEMMA UpdateStandsApart ==
  ASSUME NEW list, NEW n \in Nat, DOMAIN list = 1 .. n, NEW c, NEW covered
  PROVE  DOMAIN update(list, c, covered) = DOMAIN list /\ Apart(update(list, c, covered), covered)
<1> DEFINE on == CHOOSE f : Decided(f, list, c, covered, n)
           chips == [i \in 1 .. n |-> IF on[i] THEN boxAt(list[i], c) ELSE {}]
<1>1. Decided(on, list, c, covered, n)
  BY DecidedExists
<1>2. update(list, c, covered) = chips
  BY DEF update, Decided
<1> HIDE DEF on
<1>3. ASSUME NEW i \in 1 .. n, on[i]
      PROVE  /\ ~Hidden(boxAt(list[i], c), covered)
             /\ \A j \in 1 .. i - 1 : on[j] => boxAt(list[j], c) \cap boxAt(list[i], c) = {}
  BY <1>1, <1>3 DEF Decided, Shows
<1>4. ASSUME NEW i \in 1 .. n, NEW j \in 1 .. n, j < i
      PROVE  chips[i] \cap chips[j] = {}
  <2>1. CASE on[i] /\ on[j]
    BY <1>3, <1>4, <2>1
  <2>2. CASE ~on[i] \/ ~on[j]
    BY <2>2
  <2> QED BY <2>1, <2>2
<1>5. ASSUME NEW i \in 1 .. n
      PROVE  ~Hidden(chips[i], covered)
  <2>1. CASE on[i]
    BY <1>3, <2>1
  <2>2. CASE ~on[i]
    BY <2>2 DEF Hidden
  <2> QED BY <2>1, <2>2
<1>6. DOMAIN chips = 1 .. n
  OBVIOUS
<1> HIDE DEF chips
<1>7. ASSUME NEW i \in 1 .. n, NEW j \in 1 .. n, i # j
      PROVE  chips[i] \cap chips[j] = {}
  <2>1. i < j \/ j < i
    BY <1>7
  <2> QED BY <1>4, <2>1
<1>8. Apart(chips, covered)
  BY <1>5, <1>6, <1>7 DEF Apart
<1> QED BY <1>2, <1>6, <1>8
-----------------------------------------------------------------------------
\* The invariant.

PlanRecords ==
  [stage : {"place"}, chosen : Seq(Nameable), accepted : SUBSET Int, todo : SUBSET (Shapes \cup {Region})]
Drags == [pointer : Pointers, grab : Nat, from : Nat, moved : BOOLEAN]

PressShape ==
  /\ pan \in Drags \cup {NoPan}
  /\ held \in [Pointers -> {"left", "other", NotPressed}]
  /\ press \in [Pointers -> [panned : BOOLEAN, clicks : 0 .. 2]]
  /\ dragMode \in {"rotate", "pan"} /\ picked \in Nameable

ViewShape ==
  /\ pose \in Cameras /\ lastPose \in Cameras /\ flight \in 0 .. FlightFrames
  /\ sectionOn \in BOOLEAN /\ inside \in BOOLEAN /\ dragging \in BOOLEAN /\ dirty \in BOOLEAN
  /\ hoverWait \in BOOLEAN /\ spot \in Spots /\ hover \in Nameable /\ drawn \in SUBSET Shapes

LabelShape ==
  /\ planWait \in BOOLEAN /\ labelsStale \in BOOLEAN /\ labelMode \in {"all", "key", "off"}
  /\ planner = NoPlan \/ (planner \in PlanRecords /\ planner.todo # {})
  /\ labelled \in SUBSET Nameable
  /\ anchors \in Seq(Nameable) /\ DOMAIN boxes = DOMAIN anchors
  /\ panel \in BOOLEAN /\ measured \in BOOLEAN /\ occluders \in SUBSET Spots /\ placedUnder \in SUBSET Spots

\* A press that lasts has selected nothing, and one that has moved the view
\* still holds it.
PressesFit ==
  \A p \in Pointers :
    /\ press[p].clicks <= 1 /\ (press[p].panned => press[p].clicks = 0)
    /\ held[p] # NotPressed => press[p].clicks = 0 /\ (press[p].panned => Captured(p) /\ pan.moved)

PointerInv ==
  PressShape /\ ViewShape /\ LabelShape /\ PressesFit /\ PanIsHeld /\ LabelsStandApart

LEMMA NamesAreNumbers ==
  ASSUME PointerAssumption
  PROVE  /\ Shapes \in SUBSET (0 .. 5) /\ Nameable \in SUBSET Nat
         /\ Region \in Nameable /\ Surface \in Nameable /\ NothingHit \in Nameable
         /\ \A a \in Nameable, c \in Cameras : boxAt(a, c) \in SUBSET Int
BY DEF PointerAssumption, Nameable, Spots, Region, Surface, NothingHit, Cameras, boxAt, PlaceOf, Shapes

LEMMA UnderIsNameable ==
  ASSUME PointerAssumption, LabelShape, drawn \in SUBSET Shapes, NEW s \in Spots, NEW c \in Cameras
  PROVE  under(s, c) \in Nameable
<1>1. pick(s, c) \in Nameable
  BY NamesAreNumbers DEF pick, Nameable
<1>2. labelAt(s) \in Nameable
  <2> DEFINE hit == {i \in DOMAIN boxes : s \in boxes[i]}
  <2>1. CASE hit = {}
    BY <2>1, NamesAreNumbers DEF labelAt
  <2>2. CASE hit # {}
    <3>1. hit \in SUBSET (1 .. Len(anchors)) /\ hit \in SUBSET Nat /\ Len(anchors) \in Nat
      BY DEF LabelShape
    <3>2. \E i \in hit : \A j \in hit : i <= j
      BY <2>2, <3>1, LeastNumber
    <3> DEFINE first == CHOOSE i \in hit : \A j \in hit : i <= j
    <3>3. first \in 1 .. Len(anchors)
      BY <3>1, <3>2
    <3>4. labelAt(s) = anchors[first]
      BY <2>2 DEF labelAt
    <3> HIDE DEF first
    <3> QED BY <3>3, <3>4 DEF LabelShape
  <2> QED BY <2>1, <2>2
<1> QED BY <1>1, <1>2 DEF under

\* The planner's order has a first element.
LEMMA FirstIsThere ==
  ASSUME PointerAssumption, NEW S \in SUBSET (Shapes \cup {Region}), S # {}
  PROVE  FirstOf(S) \in S
<1> DEFINE key(a) == 100 * LabelRank(a) + a
           T == {key(a) : a \in S}
<1>1. \A a \in S : LabelRank(a) \in 0 .. 3 /\ a \in 0 .. 10
  BY NamesAreNumbers DEF LabelRank, Region
<1>2. T \in SUBSET Nat /\ T # {}
  BY <1>1
<1>3. PICK a \in S : \A b \in S : key(a) <= key(b)
  <2>1. PICK x \in T : \A y \in T : x <= y
    BY <1>2, LeastNumber
  <2> QED BY <2>1
<1>4. ASSUME NEW b \in S \ {a}
      PROVE  RanksBefore(a, b)
  <2>1. /\ LabelRank(a) \in 0 .. 3 /\ LabelRank(b) \in 0 .. 3 /\ a \in 0 .. 10 /\ b \in 0 .. 10 /\ a # b
        /\ 100 * LabelRank(a) + a <= 100 * LabelRank(b) + b
    BY <1>1, <1>3
  <2> QED BY <2>1 DEF RanksBefore
<1> HIDE DEF key, T
<1> QED BY <1>4 DEF FirstOf

LEMMA PlanGoesOn ==
  ASSUME PointerAssumption, NEW p \in PlanRecords, p.todo # {}, NEW c \in Cameras, NEW covered
  PROVE  PlaceNext(p, c, covered) \in PlanRecords
<1> DEFINE a == FirstOf(p.todo)
           taken == [p EXCEPT !.todo = {b \in @ : ~SameEntry(a, b)}, !.chosen = Append(@, a),
                              !.accepted = @ \cup boxAt(a, c)]
           passed == [p EXCEPT !.todo = @ \ {a}]
<1>1. p.todo \in SUBSET (Shapes \cup {Region}) /\ p.chosen \in Seq(Nameable) /\ p.accepted \in SUBSET Int
  BY DEF PlanRecords
<1>2. a \in p.todo /\ a \in Nameable
  BY <1>1, FirstIsThere DEF Nameable
<1> HIDE DEF a
<1>3. Append(p.chosen, a) \in Seq(Nameable) /\ boxAt(a, c) \in SUBSET Int
  BY <1>1, <1>2, NamesAreNumbers
<1>4. taken \in PlanRecords /\ passed \in PlanRecords
  BY <1>1, <1>3 DEF PlanRecords
<1>5. PlaceNext(p, c, covered) \in {taken, passed}
  <2> DEFINE next(b) == IF Acceptable(b, c, covered, p.accepted)
                          THEN [p EXCEPT !.todo = {d \in @ : ~SameEntry(b, d)}, !.chosen = Append(@, b),
                                         !.accepted = @ \cup boxAt(b, c)]
                          ELSE [p EXCEPT !.todo = @ \ {b}]
  <2>1. PlaceNext(p, c, covered) = CHOOSE q \in {next(b) : b \in {a}} : TRUE
    BY DEF PlaceNext, a
  <2>2. next(a) \in {taken, passed}
    OBVIOUS
  <2> HIDE DEF next, taken, passed
  <2>3. {next(b) : b \in {a}} = {next(a)}
    OBVIOUS
  <2>4. PlaceNext(p, c, covered) = next(a)
    BY <2>1, <2>3
  <2> QED BY <2>2, <2>4
<1> QED BY <1>4, <1>5
-----------------------------------------------------------------------------
\* The steps.

\* What holds of chips that no step but a frame touches.
LEMMA LabelsStay ==
  ASSUME PointerInv, UNCHANGED <<boxes, placedUnder>>
  PROVE  LabelsStandApart'
BY DEF PointerInv, LabelsStandApart, Hidden

LEMMA PressStep ==
  ASSUME PointerAssumption, PointerInv,
         NEW p \in Pointers, NEW s \in PointerSpots, NEW button \in 0 .. 2, NEW modified \in BOOLEAN,
         onPointerDown(p, button, modified, s)
  PROVE  PointerInv'
<1>1. held[p] = NotPressed /\ held' = [held EXCEPT ![p] = IF button = 0 THEN "left" ELSE "other"]
      /\ press' = [press EXCEPT ![p] = FreshPress] /\ flight' = 0 /\ drawn' = drawn
      /\ UNCHANGED <<pose, sectionOn, dragMode, pointer, hovering, labels, picked>>
  BY DEF onPointerDown, Input
<1>2. pan' = pan \/ (pan = NoPan /\ pan' \in Drags /\ pan'.pointer = p)
  <2>1. s \in Nat /\ pose + s \in Nat
    BY DEF PointerInv, ViewShape, PointerAssumption, Spots, Cameras
  <2>2. pan' = pan \/ (pan = NoPan /\ pan' = [pointer |-> p, grab |-> pose + s, from |-> s, moved |-> FALSE])
    BY DEF onPointerDown
  <2> DEFINE drag == [pointer |-> p, grab |-> pose + s, from |-> s, moved |-> FALSE]
  <2>3. drag \in Drags /\ drag.pointer = p
    BY <2>1 DEF Drags
  <2> HIDE DEF drag
  <2> QED BY <2>2, <2>3 DEF drag
<1>3. PressShape'
  BY <1>1, <1>2 DEF PointerInv, PressShape, FreshPress
<1>4. ViewShape' /\ LabelShape'
  BY <1>1 DEF PointerInv, ViewShape, LabelShape, pointer, hovering, labels, planVars, panels, FlightFrames
<1>5. PressesFit'
  <2> SUFFICES ASSUME NEW q \in Pointers
               PROVE  /\ press'[q].clicks <= 1 /\ (press'[q].panned => press'[q].clicks = 0)
                      /\ held'[q] # NotPressed => press'[q].clicks = 0 /\ (press'[q].panned => Captured(q)' /\ pan'.moved)
    BY DEF PressesFit
  <2>1. CASE q = p
    BY <1>1, <2>1 DEF FreshPress, PointerInv, PressShape
  <2>2. CASE q # p
    <3>1. press'[q] = press[q] /\ held'[q] = held[q]
      BY <1>1, <2>2 DEF PointerInv, PressShape
    <3>2. Captured(q) => pan' = pan
      BY <1>2 DEF Captured
    <3> QED BY <3>1, <3>2 DEF PointerInv, PressesFit, Captured
  <2> QED BY <2>1, <2>2
<1>6. PanIsHeld'
  BY <1>1, <1>2 DEF PointerInv, PanIsHeld, PressShape, NotPressed, Drags
<1>7. LabelsStandApart'
  BY <1>1, LabelsStay DEF labels, panels
<1> QED BY <1>3, <1>4, <1>5, <1>6, <1>7 DEF PointerInv

LEMMA PanMoveStep ==
  ASSUME PointerAssumption, PointerInv, NEW p \in Pointers, NEW s \in PointerSpots, onPanMove(p, s)
  PROVE  PointerInv'
<1>1. /\ Captured(p) /\ inside' = FALSE /\ dirty' = TRUE /\ drawn' = drawn
      /\ UNCHANGED <<flight, sectionOn, dragMode, down, held, spot, dragging, hovering, labels, picked>>
      /\ \/ UNCHANGED <<pose, pan, press>>
         \/ /\ pan' = [pan EXCEPT !.moved = TRUE] /\ press' = [press EXCEPT ![p].panned = TRUE]
            /\ pose' \in Cameras
  BY DEF onPanMove, Input, Left, Cameras
<1>2. pan \in Drags /\ pan.pointer = p /\ held[p] # NotPressed
  BY <1>1 DEF Captured, PointerInv, PressShape, PanIsHeld
<1>3. PressShape' /\ PanIsHeld' /\ pan' \in Drags /\ pan'.pointer = p
  <2>1. pan' \in Drags /\ pan'.pointer = p
    BY <1>1, <1>2 DEF Drags
  <2>2. press' \in [Pointers -> [panned : BOOLEAN, clicks : 0 .. 2]]
    BY <1>1 DEF PointerInv, PressShape
  <2>3. PressShape'
    BY <1>1, <2>1, <2>2 DEF PointerInv, PressShape
  <2> QED BY <1>1, <1>2, <2>1, <2>3 DEF PanIsHeld
<1>4. ViewShape' /\ LabelShape'
  BY <1>1 DEF PointerInv, ViewShape, LabelShape, hovering, labels, planVars, panels, panels
<1>5. pan' # NoPan
  BY <1>3 DEF Drags, NoPan, Pointers
<1>6. PressesFit'
  <2> SUFFICES ASSUME NEW q \in Pointers
               PROVE  /\ press'[q].clicks <= 1 /\ (press'[q].panned => press'[q].clicks = 0)
                      /\ held'[q] # NotPressed => press'[q].clicks = 0 /\ (press'[q].panned => Captured(q)' /\ pan'.moved)
    BY DEF PressesFit
  <2>1. CASE UNCHANGED <<pose, pan, press>>
    BY <1>1, <2>1 DEF PointerInv, PressesFit, Captured
  <2>2. CASE pan' = [pan EXCEPT !.moved = TRUE] /\ press' = [press EXCEPT ![p].panned = TRUE]
    <3>1. pan'.moved /\ press'[q].clicks = press[q].clicks /\ (q # p => press'[q] = press[q]) /\ held' = held
      BY <1>1, <1>2, <2>2 DEF PointerInv, PressShape, Drags
    <3>2. CASE q = p
      BY <1>2, <1>3, <1>5, <3>1, <3>2 DEF PointerInv, PressesFit, Captured
    <3>3. CASE q # p
      BY <1>2, <3>1, <3>3 DEF PointerInv, PressesFit, Captured
    <3> QED BY <3>2, <3>3
  <2> QED BY <1>1, <2>1, <2>2
<1>7. LabelsStandApart'
  BY <1>1, LabelsStay DEF labels, panels
<1> QED BY <1>3, <1>4, <1>6, <1>7 DEF PointerInv

\* A release, or a cancelled press: the drag of that pointer ends with it.
LEMMA ReleaseStep ==
  ASSUME PointerAssumption, PointerInv, NEW p \in Pointers,
         \/ onPointerCancel(p) \/ \E s \in PointerSpots : onPointerUp(p, s)
  PROVE  PointerInv'
<1>1. /\ held[p] # NotPressed /\ held' = [held EXCEPT ![p] = NotPressed]
      /\ UNCHANGED <<pose, flight, sectionOn, dragMode, spot, dragging, hovering, labels, drawn>>
      /\ IF Captured(p) THEN pan' = NoPan /\ inside' = FALSE /\ dirty' = TRUE ELSE UNCHANGED <<pan, inside, dirty>>
  BY DEF onPointerCancel, onPointerUp, Left
<1>2. /\ press' = press \/ (press' = [press EXCEPT ![p].clicks = @ + 1] /\ ~press[p].panned)
      /\ picked' \in Nameable
  <2>1. picked' = picked \/ \E s \in Spots : picked' = under(s, pose)
    BY DEF onPointerCancel, onPointerUp, PointerAssumption
  <2>2. picked' \in Nameable
    BY <2>1, UnderIsNameable DEF PointerInv, PressShape, ViewShape
  <2>3. ASSUME NEW s \in PointerSpots, ClicksPan(p) \/ ClicksCanvas(p, s)
        PROVE  ~press[p].panned
    BY <1>1, <2>3 DEF ClicksPan, ClicksCanvas, PointerInv, PressesFit
  <2> QED BY <2>2, <2>3 DEF onPointerCancel, onPointerUp
<1>3. PressShape'
  <2>1. pan' \in Drags \cup {NoPan} /\ held' \in [Pointers -> {"left", "other", NotPressed}]
    BY <1>1 DEF PointerInv, PressShape
  <2>2. press[p].clicks = 0
    BY <1>1 DEF PointerInv, PressesFit
  <2>3. press' \in [Pointers -> [panned : BOOLEAN, clicks : 0 .. 2]]
    BY <1>2, <2>2 DEF PointerInv, PressShape
  <2> QED BY <1>1, <1>2, <2>1, <2>3 DEF PointerInv, PressShape
<1>4. ViewShape' /\ LabelShape'
  BY <1>1 DEF PointerInv, ViewShape, LabelShape, hovering, labels, planVars, panels, panels
<1>5. PressesFit' /\ PanIsHeld'
  <2>1. ASSUME NEW q \in Pointers
        PROVE  /\ press'[q].clicks <= 1 /\ (press'[q].panned => press'[q].clicks = 0)
               /\ held'[q] # NotPressed => press'[q].clicks = 0 /\ (press'[q].panned => Captured(q)' /\ pan'.moved)
    <3>1. CASE q = p
      <4>1. press[p].clicks = 0 /\ held'[p] = NotPressed
        BY <1>1 DEF PointerInv, PressesFit, PressShape
      <4>2. /\ press'[p].panned = press[p].panned /\ press'[p].clicks \in {0, 1}
            /\ press[p].panned => press'[p].clicks = 0
        BY <1>2, <4>1 DEF PointerInv, PressShape
      <4> QED BY <3>1, <4>1, <4>2
    <3>2. CASE q # p
      <4>1. press'[q] = press[q] /\ held'[q] = held[q]
        BY <1>1, <1>2, <3>2 DEF PointerInv, PressShape
      <4>2. Captured(q) => pan' = pan
        BY <1>1, <3>2 DEF Captured
      <4> QED BY <4>1, <4>2 DEF PointerInv, PressesFit, Captured
    <3> QED BY <3>1, <3>2
  <2>2. PanIsHeld'
    <3> SUFFICES ASSUME pan' # NoPan PROVE held'[pan'.pointer] # NotPressed
      BY DEF PanIsHeld
    <3>1. pan' = pan /\ pan.pointer # p /\ pan.pointer \in Pointers
      BY <1>1 DEF Captured, PointerInv, PressShape, Drags
    <3> QED BY <1>1, <3>1 DEF PointerInv, PanIsHeld, PressShape
  <2> QED BY <2>1, <2>2 DEF PressesFit
<1>6. LabelsStandApart'
  BY <1>1, LabelsStay DEF labels, panels
<1> QED BY <1>3, <1>4, <1>5, <1>6 DEF PointerInv

\* The steps that leave the presses and the chips alone.
LEMMA QuietStep ==
  ASSUME PointerAssumption, PointerInv, UNCHANGED <<pan, held, press, boxes, placedUnder, occluders, anchors, planner, labelled>>,
         ViewShape', panel' \in BOOLEAN, measured' \in BOOLEAN, dragMode' \in {"rotate", "pan"}, picked' \in Nameable,
         planWait' \in BOOLEAN, labelsStale' \in BOOLEAN, labelMode' \in {"all", "key", "off"}
  PROVE  PointerInv'
<1>1. PressShape' /\ LabelShape' /\ PressesFit' /\ PanIsHeld'
  BY DEF PointerInv, PressShape, LabelShape, PressesFit, PanIsHeld, Captured
<1>2. LabelsStandApart'
  BY LabelsStay
<1> QED BY <1>1, <1>2 DEF PointerInv

LEMMA OtherInputsStep ==
  ASSUME PointerAssumption, PointerInv,
         \/ \E p \in Pointers, s \in PointerSpots : onPointerMove(p, s)
         \/ onPointerLeave \/ PressGrowsOld \/ onDoubleClick \/ Escape
         \/ setDragMode \/ setLabelMode \/ setSection \/ Stream \/ PanelRenders
         \/ HoverDue \/ MeasureDue \/ PlanDue
  PROVE  PointerInv'
<1>1. CASE \E p \in Pointers, s \in PointerSpots : onPointerMove(p, s)
  <2>1. PICK p \in Pointers, s \in PointerSpots : onPointerMove(p, s)
    BY <1>1
  <2>2. /\ spot' \in Spots /\ inside' = TRUE /\ dirty' = TRUE /\ dragging' \in BOOLEAN /\ drawn' = drawn
        /\ pose' \in Cameras
        /\ UNCHANGED <<flight, sectionOn, presses, hovering, labels, picked>>
    BY <2>1 DEF onPointerMove, Input, PointerInv, ViewShape, PointerAssumption
  <2>3. ViewShape'
    BY <2>2 DEF PointerInv, ViewShape, hovering
  <2> QED BY <2>2, <2>3, QuietStep DEF PointerInv, PressShape, LabelShape, presses, labels, planVars, panels, panels
<1>2. CASE onPointerLeave \/ PressGrowsOld \/ onDoubleClick \/ Stream \/ PanelRenders \/ HoverDue \/ MeasureDue \/ PlanDue
  <2>1. ViewShape'
    <3>1. /\ UNCHANGED <<pose, sectionOn, spot, dragging, hover, lastPose>>
          /\ flight' \in {flight, FlightFrames} /\ inside' \in {inside, FALSE} /\ dirty' \in {dirty, TRUE}
          /\ hoverWait' \in {hoverWait, FALSE} /\ drawn' \in SUBSET Shapes
      BY <1>2 DEF onPointerLeave, PressGrowsOld, onDoubleClick, Stream, PanelRenders, HoverDue, MeasureDue, PlanDue, Input, Left,
                  pointer, hovering, PointerInv, ViewShape
    <3>2. flight' \in 0 .. FlightFrames
      BY <3>1 DEF PointerInv, ViewShape, FlightFrames
    <3>3. inside' \in BOOLEAN /\ dirty' \in BOOLEAN /\ hoverWait' \in BOOLEAN
      BY <3>1 DEF PointerInv, ViewShape
    <3> QED BY <3>1, <3>2, <3>3 DEF PointerInv, ViewShape
  <2>2. UNCHANGED <<pan, held, press, boxes, placedUnder, occluders, anchors, planner, labelled, dragMode, picked,
                    labelsStale, labelMode>>
        /\ planWait' \in BOOLEAN /\ panel' \in BOOLEAN /\ measured' \in BOOLEAN
    BY <1>2 DEF onPointerLeave, PressGrowsOld, onDoubleClick, Stream, PanelRenders, HoverDue, MeasureDue, PlanDue, presses, labels, planVars, panels,
                PointerInv, LabelShape
  <2> QED BY <2>1, <2>2, QuietStep DEF PointerInv, PressShape, LabelShape
<1>3. CASE Escape \/ setDragMode \/ setLabelMode \/ setSection
  <2>1. ViewShape'
    <3>1. /\ UNCHANGED <<pose, pointer, hovering, drawn>>
          /\ flight' \in {flight, FlightFrames} /\ sectionOn' \in {sectionOn, ~sectionOn}
      BY <1>3 DEF Escape, setDragMode, setLabelMode, setSection, Input
    <3>2. flight' \in 0 .. FlightFrames
      BY <3>1 DEF PointerInv, ViewShape, FlightFrames
    <3>3. sectionOn' \in BOOLEAN
      BY <3>1 DEF PointerInv, ViewShape
    <3> QED BY <3>1, <3>2, <3>3 DEF PointerInv, ViewShape, pointer, hovering
  <2>2. /\ UNCHANGED <<pan, held, press, boxes, panel, occluders, measured, placedUnder, anchors, planner, labelled>>
        /\ planWait' \in BOOLEAN /\ labelsStale' \in BOOLEAN /\ labelMode' \in {"all", "key", "off"}
        /\ dragMode' \in {"rotate", "pan"} /\ picked' \in Nameable
    BY <1>3, NamesAreNumbers
       DEF Escape, setDragMode, setLabelMode, setSection, presses, labels, planVars, panels, PointerInv, PressShape, LabelShape
  <2> QED BY <2>1, <2>2, QuietStep DEF PointerInv, LabelShape
<1> QED BY <1>1, <1>2, <1>3

\* The planner's part of a frame.
LEMMA PlannedFits ==
  ASSUME PointerAssumption, LabelShape, drawn \in SUBSET Shapes, NEW c \in Cameras, NEW covered, NEW done \in BOOLEAN,
         Planned(c, covered, done)
  PROVE  /\ planWait' \in BOOLEAN /\ labelled' \in SUBSET Nameable /\ anchors' \in Seq(Nameable)
         /\ planner' = NoPlan \/ (planner' \in PlanRecords /\ planner'.todo # {})
         /\ ~done => anchors' = anchors
<1>1. CASE ~Plans
  BY <1>1 DEF Planned, planVars, LabelShape
<1>2. CASE Plans
  <2> DEFINE p == PlanStep(c, covered)
  <2>1. Resumed(p, done)
    BY <1>2 DEF Planned
  <2>2. p \in PlanRecords
    <3>1. CASE Kept = NoPlan
      <4>1. {a \in drawn \cup (IF sectionOn THEN {} ELSE {Region}) : OnScreen(a, c)} \in SUBSET (Shapes \cup {Region})
        OBVIOUS
      <4>2. <<>> \in Seq(Nameable)
        OBVIOUS
      <4> QED BY <3>1, <4>1, <4>2 DEF PlanStep, Gathered, PlanRecords
    <3>2. CASE Kept # NoPlan
      <4>1. planner # NoPlan /\ planner \in PlanRecords /\ planner.todo # {}
        BY <3>2 DEF Kept, LabelShape
      <4> QED BY <3>2, <4>1, PlanGoesOn DEF PlanStep
    <3> QED BY <3>1, <3>2
  <2> HIDE DEF p
  <2>3. p.chosen \in Seq(Nameable) /\ p.stage = "place"
    BY <2>2 DEF PlanRecords
  <2>4. \A i \in DOMAIN p.chosen : p.chosen[i] \in Nameable
    BY <2>3
  <2>5. CASE Finished(p)
    <3>1. {p.chosen[i] : i \in DOMAIN p.chosen} \in SUBSET Nameable
      BY <2>4
    <3>2. done /\ anchors' = p.chosen /\ labelled' = {p.chosen[i] : i \in DOMAIN p.chosen}
          /\ planner' = NoPlan /\ planWait' = TRUE
      BY <2>1, <2>5 DEF Resumed
    <3> QED BY <2>3, <3>1, <3>2
  <2>6. CASE ~Finished(p)
    <3>1. p.todo # {}
      BY <2>3, <2>6 DEF Finished
    <3>2. ~done /\ planner' = p /\ UNCHANGED <<anchors, labelled, planWait>>
      BY <2>1, <2>6 DEF Resumed
    <3> QED BY <2>2, <3>1, <3>2 DEF LabelShape
  <2> QED BY <2>5, <2>6
<1> QED BY <1>1, <1>2

LEMMA FrameStep ==
  ASSUME PointerAssumption, PointerInv, PointerFrame
  PROVE  PointerInv'
<1>1. PICK c \in Cameras :
        /\ IF flight > 0 THEN flight' = flight - 1 ELSE c = pose /\ UNCHANGED flight
        /\ pose' = c /\ lastPose' = c
        /\ Hovers(c, c # lastPose)
        /\ \E done \in BOOLEAN :
             /\ IF Asks(c) \/ Redrawn(c # lastPose, done) THEN refreshOccluders ELSE UNCHANGED <<occluders, measured>>
             /\ Planned(c, occluders', done)
             /\ IF Redrawn(c # lastPose, done)
                  THEN boxes' = update(anchors', c, occluders') /\ placedUnder' = occluders'
                  ELSE /\ boxes' = [i \in DOMAIN anchors' |-> IF i \in DOMAIN boxes THEN boxes[i] ELSE {}]
                       /\ UNCHANGED placedUnder
             /\ labelsStale' = FALSE
        /\ UNCHANGED <<sectionOn, presses, spot, inside, dragging, labelMode, panel, picked, drawn, inputs, changes>>
  BY DEF PointerFrame
<1>2. PICK done \in BOOLEAN :
        /\ IF Asks(c) \/ Redrawn(c # lastPose, done) THEN refreshOccluders ELSE UNCHANGED <<occluders, measured>>
        /\ Planned(c, occluders', done)
        /\ IF Redrawn(c # lastPose, done)
             THEN boxes' = update(anchors', c, occluders') /\ placedUnder' = occluders'
             ELSE /\ boxes' = [i \in DOMAIN anchors' |-> IF i \in DOMAIN boxes THEN boxes[i] ELSE {}]
                  /\ UNCHANGED placedUnder
        /\ labelsStale' = FALSE
  BY <1>1
<1>3. /\ planWait' \in BOOLEAN /\ labelled' \in SUBSET Nameable /\ anchors' \in Seq(Nameable)
      /\ planner' = NoPlan \/ (planner' \in PlanRecords /\ planner'.todo # {})
      /\ ~done => anchors' = anchors
  BY <1>2, PlannedFits DEF PointerInv, ViewShape
<1>4. occluders' \in SUBSET Spots /\ measured' \in BOOLEAN
  <2>1. (occluders' = occluders /\ measured' = measured) \/ (occluders' = Panels /\ measured' = TRUE)
    BY <1>2 DEF refreshOccluders
  <2>2. Panels \in SUBSET Spots
    BY DEF Panels, SelectionPanel, Spots
  <2> QED BY <2>1, <2>2 DEF PointerInv, LabelShape
<1>5. DOMAIN boxes' = DOMAIN anchors' /\ Apart(boxes', placedUnder')
  <2>1. CASE Redrawn(c # lastPose, done)
    <3>1. Len(anchors') \in Nat /\ DOMAIN anchors' = 1 .. Len(anchors')
      BY <1>3
    <3>2. DOMAIN update(anchors', c, occluders') = DOMAIN anchors' /\ Apart(update(anchors', c, occluders'), occluders')
      BY <3>1, UpdateStandsApart
    <3> QED BY <1>2, <2>1, <3>2
  <2>2. CASE ~Redrawn(c # lastPose, done)
    <3>1. anchors' = anchors /\ DOMAIN boxes = DOMAIN anchors
      BY <1>3, <2>2 DEF Redrawn, PointerInv, LabelShape
    <3>2. DOMAIN boxes' = DOMAIN boxes /\ \A i \in DOMAIN boxes : boxes'[i] = boxes[i]
      BY <1>2, <2>2, <3>1
    <3>3. Apart(boxes, placedUnder) /\ placedUnder' = placedUnder
      BY <1>2, <2>2 DEF Apart, PointerInv, LabelsStandApart
    <3> QED BY <3>1, <3>2, <3>3 DEF Apart
  <2> QED BY <2>1, <2>2
<1>6. LabelsStandApart'
  BY <1>5 DEF Apart, LabelsStandApart, Hidden
<1>7. LabelShape'
  <2>1. placedUnder' \in SUBSET Spots /\ panel' \in BOOLEAN
    BY <1>1, <1>2, <1>4 DEF PointerInv, LabelShape
  <2> QED BY <1>1, <1>2, <1>3, <1>5, <1>4, <2>1 DEF PointerInv, LabelShape
<1>8. ViewShape'
  <2>1. flight' \in 0 .. FlightFrames
    BY <1>1 DEF PointerInv, ViewShape, FlightFrames
  <2>2. under(spot, c) \in Nameable
    BY UnderIsNameable DEF PointerInv, ViewShape
  <2>3. hover' \in Nameable /\ dirty' \in BOOLEAN /\ hoverWait' \in BOOLEAN
    BY <1>1, <2>2, NamesAreNumbers DEF Hovers, PointerInv, ViewShape
  <2> QED BY <1>1, <2>1, <2>3 DEF PointerInv, ViewShape
<1>9. PressShape' /\ PressesFit' /\ PanIsHeld'
  BY <1>1 DEF presses, PointerInv, PressShape, PressesFit, PanIsHeld, Captured
<1> QED BY <1>6, <1>7, <1>8, <1>9 DEF PointerInv

LEMMA PointerStart ==
  ASSUME PointerAssumption, PointerInit
  PROVE  PointerInv
<1>1. anchors \in Seq(Nameable) /\ DOMAIN boxes = DOMAIN anchors /\ LabelsStandApart
  BY DEF PointerInit, LabelsStandApart
<1>2. PressShape /\ PressesFit /\ PanIsHeld
  BY NamesAreNumbers DEF PointerInit, PressShape, PressesFit, PanIsHeld, FreshPress
<1>3. ViewShape
  <2>1. drawn \in SUBSET Shapes /\ hover \in Nameable
    BY NamesAreNumbers DEF PointerInit
  <2>2. spot \in Spots /\ pose \in Cameras /\ lastPose \in Cameras /\ flight \in 0 .. FlightFrames
    BY DEF PointerInit, Spots, Cameras, FlightFrames
  <2> QED BY <2>1, <2>2 DEF PointerInit, ViewShape
<1>4. LabelShape
  BY <1>1 DEF PointerInit, LabelShape
<1> QED BY <1>1, <1>2, <1>3, <1>4 DEF PointerInv

LEMMA PointerStep ==
  ASSUME PointerAssumption, PointerInv, [PointerNext]_pointerVars
  PROVE  PointerInv'
<1>1. CASE UNCHANGED pointerVars
  BY <1>1, QuietStep DEF pointerVars, presses, pointer, hovering, labels, planVars, panels,
                         PointerInv, ViewShape, PressShape, LabelShape
<1>2. ASSUME NEW p \in Pointers, NEW s \in PointerSpots,
             \E button \in (IF p = "touch" THEN {0} ELSE 0 .. 2), modified \in BOOLEAN :
               onPointerDown(p, button, modified, s)
      PROVE  PointerInv'
  <2>1. PICK button \in 0 .. 2, modified \in BOOLEAN : onPointerDown(p, button, modified, s)
    BY <1>2
  <2> QED BY <2>1, PressStep
<1>3. ASSUME NEW p \in Pointers, NEW s \in PointerSpots, onPanMove(p, s)
      PROVE  PointerInv'
  BY <1>3, PanMoveStep
<1>4. ASSUME NEW p \in Pointers, onPointerCancel(p) \/ \E s \in PointerSpots : onPointerUp(p, s)
      PROVE  PointerInv'
  BY <1>4, ReleaseStep
<1>5. CASE \/ \E p \in Pointers, s \in PointerSpots : onPointerMove(p, s)
           \/ onPointerLeave \/ PressGrowsOld \/ onDoubleClick \/ Escape
           \/ setDragMode \/ setLabelMode \/ setSection \/ Stream \/ PanelRenders
           \/ HoverDue \/ MeasureDue \/ PlanDue
  BY <1>5, OtherInputsStep
<1>6. CASE PointerFrame
  BY <1>6, FrameStep
<1> QED BY <1>1, <1>2, <1>3, <1>4, <1>5, <1>6 DEF PointerNext

\* Whatever presses, releases and cancellations the two pointers go through, a
\* press does one thing and the view is dragged only by a pointer that is still
\* down; and whatever cameras and panels the planner has looked past, the chips
\* on the screen do not overlap, pass the right edge, or lie where a panel was
\* measured when they were placed (a panel opened since may cover one).
THEOREM PointerStaysSound == ASSUME PointerAssumption PROVE PointerSpec => []PointerIsSound
<1>1. PointerInit => PointerInv
  BY PointerStart
<1>2. PointerInv /\ [PointerNext]_pointerVars => PointerInv'
  BY PointerStep
<1>3. PointerInv => PointerIsSound
  <2> SUFFICES ASSUME PointerInv PROVE PointerIsSound
    OBVIOUS
  <2>1. planner.stage \in {"none", "place"}
    BY DEF PointerInv, LabelShape, NoPlan, PlanRecords
  <2>2. PointerTypeOK
    BY <2>1 DEF PointerTypeOK, PointerInv, PressShape, ViewShape, LabelShape
  <2>3. OnePressOneDeed
    BY DEF OnePressOneDeed, PointerInv, PressesFit
  <2> QED BY <2>2, <2>3 DEF PointerIsSound, PointerInv
<1> QED BY <1>1, <1>2, <1>3, PTL DEF PointerSpec
=============================================================================
