-------------------------- MODULE TuiHandoffProofs --------------------------
(* Proofs about TuiHandoff: its type invariant, and that the hand-off of an  *)
(* action is synchronous for any number of threads as long as nothing        *)
(* touches the two semaphores past tui_submit_action's protocol.             *)
EXTENDS TuiHandoff, TLAPS

Exiting == {"post_exit", "join", "done"}
Holds(s) == pc[s] \in {"write", "post", "release"}
Busy == tui \in {"decide", "clear", "give"}

\* One token is in one place: in sem_wait_action, in sem_have_action, with a thread
\* between its wait and its post, or with the TUI thread.
OneToken ==
    /\ waitAction \in {0, 1} /\ haveAction \in {0, 1} /\ ~redrawAll
    /\ waitAction = 1 => haveAction = 0
    /\ Busy => waitAction = 0 /\ haveAction = 0
    /\ \A s \in Submitters : Holds(s) => waitAction = 0 /\ haveAction = 0 /\ ~Busy
    /\ \A s, t \in Submitters : Holds(s) /\ Holds(t) => s = t

\* Where the action of a call is until the TUI thread has read it.
ActionTracked ==
    \A s \in Submitters :
        /\ pc[s] = "post" => owner = s
        /\ pc[s] = "confirm" =>
              s \in drawn \/ (owner = s /\ (haveAction = 1 \/ tui = "decide"))
        /\ pc[s] = "release" => s \in drawn

IInv ==
    /\ TypeInvariant
    /\ terminate <=> pc[Main] \in Exiting
    /\ Undisturbed => OneToken /\ ActionTracked

-----------------------------------------------------------------------------
\* The main thread is one of those that submit.
LEMMA MainSubmits == Main \in Submitters
  BY DEF Submitters

\* The initial values have their types.
LEMMA InitTyped == Init => TypeInvariant
<1>1. Init => pc \in [Submitters -> {"idle"}] /\ req \in [Submitters -> {"draw"}]
              /\ calls \in [Submitters -> {0}]
  BY DEF Init
<1>2. Init => redrawAll \in BOOLEAN /\ terminate \in BOOLEAN /\ disturbed \in BOOLEAN
  BY DEF Init
<1>3. Init => /\ waitAction \in Nat /\ haveAction \in Nat
              /\ resizes \in Nat /\ sigints \in Nat
  BY DEF Init
<1> QED BY <1>1, <1>2, <1>3 DEF Init, TypeInvariant

\* The values every variable of the model keeps to.
THEOREM TypeCorrect == Spec => []TypeInvariant
<1>1. Init => TypeInvariant
  BY InitTyped
<1>2. TypeInvariant /\ [Next]_vars => TypeInvariant'
  <2> SUFFICES ASSUME TypeInvariant, [Next]_vars PROVE TypeInvariant'
    OBVIOUS
  <2> USE MainSubmits DEF TypeInvariant
  <2>1. ASSUME NEW s \in Submitters, Call(s) PROVE TypeInvariant'
    BY <2>1, KindsAssumption DEF Call, sems
  <2>2. ASSUME NEW s \in Submitters, Submit(s) PROVE TypeInvariant'
    <3>1. CASE Acquire(s) BY <3>1 DEF Acquire, bounds
    <3>2. CASE Write(s) BY <3>2 DEF Write, sems, bounds
    <3>3. CASE PostHave(s) BY <3>3 DEF PostHave, bounds
    <3>4. CASE Confirm(s) BY <3>4 DEF Confirm, bounds
    <3>5. CASE Release(s) BY <3>5 DEF Release, bounds
    <3> QED BY <2>2, <3>1, <3>2, <3>3, <3>4, <3>5 DEF Submit
  <2>3. CASE Interrupt BY <2>3 DEF Interrupt, sems
  <2>4. CASE Resize BY <2>4 DEF Resize
  <2>5. CASE Tui
    <3>1. CASE TuiTake BY <3>1 DEF TuiTake, bounds
    <3>2. CASE TuiRedrawAll BY <3>2 DEF TuiRedrawAll, sems, bounds
    <3>3. CASE TuiDraw
      <4>1. redrawAll' \in BOOLEAN /\ haveAction' \in Nat /\ disturbed' \in BOOLEAN
        <5>1. CASE action = "redraw"
          BY <3>3, <5>1 DEF TuiDraw
        <5>2. CASE action # "redraw"
          BY <3>3, <5>2 DEF TuiDraw
        <5> QED BY <5>1, <5>2
      <4>2. drawn' \subseteq Submitters
        BY <3>3 DEF TuiDraw
      <4> QED BY <3>3, <4>1, <4>2 DEF TuiDraw, bounds
    <3>4. CASE TuiClear BY <3>4 DEF TuiClear, sems, bounds
    <3>5. CASE TuiGive BY <3>5 DEF TuiGive, bounds
    <3>6. CASE TuiLoop BY <3>6 DEF TuiLoop, sems, bounds
    <3> QED BY <2>5, <3>1, <3>2, <3>3, <3>4, <3>5, <3>6 DEF Tui
  <2>6. CASE Finalize BY <2>6 DEF Finalize, sems, bounds
  <2>7. CASE FinalizePost BY <2>7 DEF FinalizePost, bounds
  <2>8. CASE FinalizeJoin BY <2>8 DEF FinalizeJoin, sems, bounds
  <2>9. CASE UNCHANGED vars BY <2>9 DEF vars, sems, bounds
  <2> QED BY <2>1, <2>2, <2>3, <2>4, <2>5, <2>6, <2>7, <2>8, <2>9 DEF Next
<1> QED BY <1>1, <1>2, PTL DEF Spec

-----------------------------------------------------------------------------
\* A step that leaves the program running and undisturbed keeps the token in one
\* place and every action tracked.
LEMMA StepKeepsInvariant ==
  ASSUME IInv, TypeInvariant', [Next]_vars PROVE IInv'
<1> USE MainSubmits DEF IInv, Exiting
<1>1. ASSUME NEW s \in Submitters, Call(s) PROVE IInv'
  BY <1>1 DEF Call, sems, TypeInvariant, Undisturbed, OneToken, ActionTracked, Holds, Busy
<1>2. ASSUME NEW s \in Submitters, Acquire(s) PROVE IInv'
  BY <1>2 DEF Acquire, bounds, TypeInvariant, Undisturbed, OneToken, ActionTracked, Holds, Busy
<1>3. ASSUME NEW s \in Submitters, Write(s) PROVE IInv'
  BY <1>3 DEF Write, sems, bounds, TypeInvariant, Undisturbed, OneToken, ActionTracked, Holds, Busy
<1>4. ASSUME NEW s \in Submitters, PostHave(s) PROVE IInv'
  BY <1>4 DEF PostHave, bounds, TypeInvariant, Undisturbed, OneToken, ActionTracked, Holds, Busy
<1>5. ASSUME NEW s \in Submitters, Confirm(s) PROVE IInv'
  BY <1>5 DEF Confirm, bounds, TypeInvariant, Undisturbed, OneToken, ActionTracked, Holds, Busy
<1>6. ASSUME NEW s \in Submitters, Release(s) PROVE IInv'
  BY <1>6 DEF Release, bounds, TypeInvariant, Undisturbed, OneToken, ActionTracked, Holds, Busy
<1>7. CASE Interrupt
  BY <1>7 DEF Interrupt, sems, TypeInvariant, Undisturbed
<1>8. CASE Resize
  BY <1>8 DEF Resize, Undisturbed
<1>9. CASE TuiTake
  BY <1>9 DEF TuiTake, bounds, TypeInvariant, Undisturbed, OneToken, ActionTracked, Holds, Busy
<1>10. CASE TuiRedrawAll
  BY <1>10 DEF TuiRedrawAll, sems, bounds, Undisturbed, OneToken
<1>11. CASE TuiDraw
  BY <1>11, ThreadsAssumption
     DEF TuiDraw, bounds, TypeInvariant, Undisturbed, OneToken, ActionTracked, Holds, Busy
<1>12. CASE TuiClear
  BY <1>12 DEF TuiClear, sems, bounds, TypeInvariant, Undisturbed, OneToken, ActionTracked, Holds, Busy
<1>13. CASE TuiGive
  BY <1>13 DEF TuiGive, bounds, TypeInvariant, Undisturbed, OneToken, ActionTracked, Holds, Busy
<1>14. CASE TuiLoop
  BY <1>14 DEF TuiLoop, sems, bounds, Undisturbed, OneToken, ActionTracked, Holds, Busy
<1>15. CASE Finalize
  BY <1>15 DEF Finalize, sems, bounds, TypeInvariant, Undisturbed
<1>16. CASE FinalizePost
  BY <1>16 DEF FinalizePost, bounds, TypeInvariant, Undisturbed
<1>17. CASE FinalizeJoin
  BY <1>17 DEF FinalizeJoin, sems, bounds, TypeInvariant, Undisturbed
<1>18. CASE UNCHANGED vars
  BY <1>18 DEF vars, sems, bounds, Undisturbed, OneToken, ActionTracked, Holds, Busy
<1> QED
  BY <1>1, <1>2, <1>3, <1>4, <1>5, <1>6, <1>7, <1>8, <1>9, <1>10, <1>11, <1>12, <1>13,
     <1>14, <1>15, <1>16, <1>17, <1>18 DEF Next, Submit, Tui

\* The inductive invariant holds in every state.
LEMMA Invariance == Spec => []IInv
<1>1. Init => IInv
  <2>1. Init => TypeInvariant
    BY InitTyped
  <2>2. Init => OneToken /\ ActionTracked
    BY DEF Init, OneToken, ActionTracked, Holds, Busy
  <2>3. Init => ~terminate /\ pc[Main] \notin Exiting
    BY MainSubmits DEF Init, Exiting
  <2> QED BY <2>1, <2>2, <2>3 DEF IInv
<1>2. IInv /\ TypeInvariant' /\ [Next]_vars => IInv'
  BY StepKeepsInvariant
<1> QED BY <1>1, <1>2, TypeCorrect, PTL DEF Spec

\* tui_submit_action returns only after its action was drawn, for any number of
\* threads, as long as no resize, `redraw' command or interrupted wait has come.
THEOREM HandoffIsSynchronous == Spec => []UndisturbedHandoff
<1>1. IInv => UndisturbedHandoff
  BY DEF IInv, ActionTracked, UndisturbedHandoff, ReturnsOnlyWhenDrawn
<1> QED BY <1>1, Invariance, PTL

\* Under the same condition the slot has one user at a time, so that no action is
\* replaced or cleared before it was drawn.
THEOREM SlotIsExclusive == Spec => []UndisturbedSlot
<1>1. IInv => UndisturbedSlot
  BY DEF IInv, OneToken, Holds, Busy, UndisturbedSlot, SlotHasOneUser
<1> QED BY <1>1, Invariance, PTL
=============================================================================
