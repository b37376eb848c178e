----------------------------- MODULE TuiHandoff -----------------------------
(***************************************************************************)
(* The hand-off of drawing actions to the TUI thread (src/src/tui.c).      *)
(*                                                                         *)
(* Every thread that changes what is shown calls tui_submit_action(): it   *)
(* takes the token of sem_wait_action, stores the action in a one-place    *)
(* slot, posts sem_have_action and waits until the token is back.  The TUI *)
(* thread takes sem_have_action, draws what the slot asks for and gives    *)
(* the token back.  The terminal's resize handler, the `redraw' command    *)
(* and a SIGINT that interrupts a wait all reach the two semaphores past   *)
(* that protocol.                                                          *)
(*                                                                         *)
(* The kinds of actions that draw one part of the screen behave alike here *)
(* and are the one value "draw".  Drawing itself is abstracted.            *)
(***************************************************************************)
EXTENDS Naturals, FiniteSets

CONSTANTS
    Main,        \* the thread of main.c: commands, signals, exit()
    Joined,      \* submitting threads exit() joins before tui_finalize (the play thread)
    Detached,    \* submitting threads nobody joins (ALSA's volume watcher)
    Nobody,      \* no thread: the owner of an empty slot
    Kinds,       \* what is submitted: a subset of {"draw", "redraw"}
    MaxCalls,    \* bound: calls of tui_submit_action per thread
    MaxResizes,  \* bound: SIGWINCHs delivered
    MaxSigints   \* bound: SIGINTs that interrupt a wait of the main thread

Submitters == {Main} \cup Joined \cup Detached

ASSUME ThreadsAssumption ==
    /\ Main \notin Joined \cup Detached
    /\ Joined \cap Detached = {}
    /\ Nobody \notin Submitters
ASSUME KindsAssumption == Kinds \subseteq {"draw", "redraw"}
ASSUME BoundsAssumption ==
    MaxCalls \in Nat /\ MaxResizes \in Nat /\ MaxSigints \in Nat

VARIABLES
    waitAction,  \* value of sem_wait_action
    haveAction,  \* value of sem_have_action
    action,      \* the slot `action'
    redrawAll,   \* whole_redraw_required
    terminate,   \* terminate
    pc,          \* where each submitting thread is
    req,         \* the argument of the call each submitting thread is in
    tui,         \* where the TUI thread is
    calls,       \* calls begun per thread (bounded by MaxCalls)
    resizes,     \* SIGWINCHs delivered (bounded by MaxResizes)
    sigints,     \* waits interrupted (bounded by MaxSigints)
    owner,       \* history: whose action is in the slot
    drawn,       \* history: the threads whose current action the TUI thread has read
    disturbed    \* history: a semaphore has been used past the protocol

sems == <<waitAction, haveAction>>
bounds == <<calls, resizes, sigints>>
vars == <<sems, action, redrawAll, terminate, pc, req, tui, bounds,
          owner, drawn, disturbed>>

Init ==
    /\ waitAction = 1 /\ haveAction = 0
    /\ action = "none" /\ redrawAll = FALSE /\ terminate = FALSE
    /\ pc = [s \in Submitters |-> "idle"]
    /\ req = [s \in Submitters |-> "draw"]
    /\ tui = "wait"
    /\ calls = [s \in Submitters |-> 0] /\ resizes = 0 /\ sigints = 0
    /\ owner = Nobody /\ drawn = {} /\ disturbed = FALSE

-----------------------------------------------------------------------------
(* tui_submit_action: five steps of a submitting thread *)

\* A thread calls tui_submit_action(kind); the play thread is gone once exit() runs.
Call(s) ==
    /\ pc[s] = "idle" /\ calls[s] < MaxCalls
    /\ s \in Joined => pc[Main] \notin {"post_exit", "join", "done"}
    /\ \E kind \in Kinds :
        /\ kind = "redraw" => s = Main
        /\ req' = [req EXCEPT ![s] = kind]
    /\ pc' = [pc EXCEPT ![s] = "acquire"]
    /\ calls' = [calls EXCEPT ![s] = @ + 1]
    /\ drawn' = drawn \ {s}
    /\ UNCHANGED <<sems, action, redrawAll, terminate, tui, resizes, sigints,
                   owner, disturbed>>

\* Mutated form: the first wait is missing, the token is only counted.
AcquireUnguarded(s) ==
    /\ pc[s] = "acquire"
    /\ waitAction' = waitAction - 1
    /\ pc' = [pc EXCEPT ![s] = "write"]
    /\ UNCHANGED <<haveAction, action, redrawAll, terminate, req, tui, bounds,
                   owner, drawn, disturbed>>

\* First sem_wait(&sem_wait_action).
Acquire(s) ==
    /\ pc[s] = "acquire" /\ waitAction > 0
    /\ waitAction' = waitAction - 1
    /\ pc' = [pc EXCEPT ![s] = "write"]
    /\ UNCHANGED <<haveAction, action, redrawAll, terminate, req, tui, bounds,
                   owner, drawn, disturbed>>

Write(s) ==
    /\ pc[s] = "write"
    /\ action' = req[s] /\ owner' = s
    /\ pc' = [pc EXCEPT ![s] = "post"]
    /\ UNCHANGED <<sems, redrawAll, terminate, req, tui, bounds, drawn, disturbed>>

PostHave(s) ==
    /\ pc[s] = "post"
    /\ haveAction' = haveAction + 1
    /\ pc' = [pc EXCEPT ![s] = "confirm"]
    /\ UNCHANGED <<waitAction, action, redrawAll, terminate, req, tui, bounds,
                   owner, drawn, disturbed>>

\* Mutated form: the second wait does not block.
ConfirmAtOnce(s) ==
    /\ pc[s] = "confirm"
    /\ pc' = [pc EXCEPT ![s] = "release"]
    /\ UNCHANGED <<sems, action, redrawAll, terminate, req, tui, bounds,
                   owner, drawn, disturbed>>

\* Second sem_wait(&sem_wait_action).
Confirm(s) ==
    /\ pc[s] = "confirm" /\ waitAction > 0
    /\ waitAction' = waitAction - 1
    /\ pc' = [pc EXCEPT ![s] = "release"]
    /\ UNCHANGED <<haveAction, action, redrawAll, terminate, req, tui, bounds,
                   owner, drawn, disturbed>>

\* Mutated form: the token is not put back.
ReleaseKept(s) ==
    /\ pc[s] = "release"
    /\ pc' = [pc EXCEPT ![s] = "idle"]
    /\ UNCHANGED <<sems, action, redrawAll, terminate, req, tui, bounds,
                   owner, drawn, disturbed>>

Release(s) ==
    /\ pc[s] = "release"
    /\ waitAction' = waitAction + 1
    /\ pc' = [pc EXCEPT ![s] = "idle"]
    /\ UNCHANGED <<haveAction, action, redrawAll, terminate, req, tui, bounds,
                   owner, drawn, disturbed>>

\* SIGINT's handler is installed without SA_RESTART and tui_submit_action ignores
\* what sem_wait returns: a wait that blocks returns EINTR and the call goes on
\* without the token.
Interrupt ==
    /\ sigints < MaxSigints /\ waitAction = 0
    /\ \/ pc[Main] = "acquire" /\ pc' = [pc EXCEPT ![Main] = "write"]
       \/ pc[Main] = "confirm" /\ pc' = [pc EXCEPT ![Main] = "release"]
    /\ sigints' = sigints + 1
    /\ disturbed' = TRUE
    /\ UNCHANGED <<sems, action, redrawAll, terminate, req, tui, calls, resizes,
                   owner, drawn>>

-----------------------------------------------------------------------------
(* tui_terminal_resized, the handler of SIGWINCH *)

\* Mutated form: the handler sets the flag only.
ResizeWithoutPost ==
    /\ resizes < MaxResizes /\ pc[Main] # "done"
    /\ redrawAll' = TRUE
    /\ resizes' = resizes + 1 /\ disturbed' = TRUE
    /\ UNCHANGED <<sems, action, terminate, pc, req, tui, calls, sigints, owner, drawn>>

Resize ==
    /\ resizes < MaxResizes /\ pc[Main] # "done"
    /\ redrawAll' = TRUE
    /\ haveAction' = haveAction + 1
    /\ resizes' = resizes + 1 /\ disturbed' = TRUE
    /\ UNCHANGED <<waitAction, action, terminate, pc, req, tui, calls, sigints,
                   owner, drawn>>

-----------------------------------------------------------------------------
(* _thread_tui_function *)

TuiTake ==
    /\ tui = "wait" /\ haveAction > 0
    /\ haveAction' = haveAction - 1
    /\ tui' = "decide"
    /\ UNCHANGED <<waitAction, action, redrawAll, terminate, pc, req, bounds,
                   owner, drawn, disturbed>>

\* whole_redraw_required: everything is drawn and the slot is left as it is.
TuiRedrawAll ==
    /\ tui = "decide" /\ redrawAll
    /\ redrawAll' = FALSE
    /\ tui' = "give"
    /\ UNCHANGED <<sems, action, terminate, pc, req, bounds, owner, drawn, disturbed>>

\* The switch over the slot, and what it draws.
TuiDraw ==
    /\ tui = "decide" /\ ~redrawAll
    /\ IF action = "redraw"
       THEN redrawAll' = TRUE /\ haveAction' = haveAction + 1 /\ disturbed' = TRUE
       ELSE UNCHANGED <<redrawAll, haveAction, disturbed>>
    /\ drawn' = IF owner = Nobody THEN drawn ELSE drawn \cup {owner}
    /\ tui' = "clear"
    /\ UNCHANGED <<waitAction, action, terminate, pc, req, bounds, owner>>

\* action = none
TuiClear ==
    /\ tui = "clear"
    /\ action' = "none" /\ owner' = Nobody
    /\ tui' = "give"
    /\ UNCHANGED <<sems, redrawAll, terminate, pc, req, bounds, drawn, disturbed>>

TuiGive ==
    /\ tui = "give"
    /\ waitAction' = waitAction + 1
    /\ tui' = "loop"
    /\ UNCHANGED <<haveAction, action, redrawAll, terminate, pc, req, bounds,
                   owner, drawn, disturbed>>

\* while(!terminate)
TuiLoop ==
    /\ tui = "loop"
    /\ tui' = IF terminate THEN "exited" ELSE "wait"
    /\ UNCHANGED <<sems, action, redrawAll, terminate, pc, req, bounds,
                   owner, drawn, disturbed>>

-----------------------------------------------------------------------------
(* exit(): sound_finalize has joined the play thread, then tui_finalize *)

Finalize ==
    /\ pc[Main] = "idle" /\ \A s \in Joined : pc[s] = "idle"
    /\ action' = "none" /\ owner' = Nobody
    /\ terminate' = TRUE
    /\ pc' = [pc EXCEPT ![Main] = "post_exit"]
    /\ UNCHANGED <<sems, redrawAll, req, tui, bounds, drawn, disturbed>>

\* Mutated form: does not wake the thread it is about to join.
FinalizeSilent ==
    /\ pc[Main] = "post_exit"
    /\ pc' = [pc EXCEPT ![Main] = "join"]
    /\ UNCHANGED <<sems, action, redrawAll, terminate, req, tui, bounds,
                   owner, drawn, disturbed>>

FinalizePost ==
    /\ pc[Main] = "post_exit"
    /\ haveAction' = haveAction + 1
    /\ pc' = [pc EXCEPT ![Main] = "join"]
    /\ UNCHANGED <<waitAction, action, redrawAll, terminate, req, tui, bounds,
                   owner, drawn, disturbed>>

FinalizeJoin ==
    /\ pc[Main] = "join" /\ tui = "exited"
    /\ pc' = [pc EXCEPT ![Main] = "done"]
    /\ UNCHANGED <<sems, action, redrawAll, terminate, req, tui, bounds,
                   owner, drawn, disturbed>>

-----------------------------------------------------------------------------
Submit(s) == Acquire(s) \/ Write(s) \/ PostHave(s) \/ Confirm(s) \/ Release(s)
Tui == TuiTake \/ TuiRedrawAll \/ TuiDraw \/ TuiClear \/ TuiGive \/ TuiLoop

Next ==
    \/ \E s \in Submitters : Call(s) \/ Submit(s)
    \/ Interrupt \/ Resize
    \/ Tui
    \/ Finalize \/ FinalizePost \/ FinalizeJoin

Spec == Init /\ [][Next]_vars

\* The scheduler runs every thread that can run.  No thread has to make a call,
\* no signal has to come and nobody has to leave the program.
Fairness ==
    /\ \A s \in Submitters : WF_vars(Submit(s))
    /\ WF_vars(Tui)
    /\ WF_vars(FinalizePost) /\ WF_vars(FinalizeJoin)

FairSpec == Spec /\ Fairness

-----------------------------------------------------------------------------
TypeInvariant ==
    /\ waitAction \in Nat /\ haveAction \in Nat
    /\ action \in {"none", "draw", "redraw"}
    /\ redrawAll \in BOOLEAN /\ terminate \in BOOLEAN /\ disturbed \in BOOLEAN
    /\ pc \in [Submitters -> {"idle", "acquire", "write", "post", "confirm", "release",
                              "post_exit", "join", "done"}]
    /\ req \in [Submitters -> {"draw", "redraw"}]
    /\ tui \in {"wait", "decide", "clear", "give", "loop", "exited"}
    /\ calls \in [Submitters -> Nat] /\ resizes \in Nat /\ sigints \in Nat
    /\ owner \in Submitters \cup {Nobody}
    /\ drawn \subseteq Submitters

\* When a call of tui_submit_action is about to return, the TUI thread has read its
\* action from the slot: no other call replaced it, nothing cleared it unseen, and
\* the wait for the token was a wait for the drawing.
ReturnsOnlyWhenDrawn == \A s \in Submitters : pc[s] = "release" => s \in drawn

\* The slot has one user at a time: a thread between its wait for the token and its
\* post, or the TUI thread between its switch over the slot and clearing it.
SlotHasOneUser ==
    /\ \A s, t \in Submitters :
          pc[s] \in {"write", "post"} /\ pc[t] \in {"write", "post"} => s = t
    /\ tui \in {"decide", "clear"} =>
          \A s \in Submitters : pc[s] \notin {"write", "post"}

\* No resize, `redraw' command or interrupted wait has touched the semaphores, and
\* the program is not shutting down.
Undisturbed == ~disturbed /\ ~terminate

\* Undisturbed, the hand-off is synchronous for every number of threads: see
\* ReturnsOnlyWhenDrawn.
UndisturbedHandoff == Undisturbed => ReturnsOnlyWhenDrawn

\* Undisturbed, no action is stored over another or cleared unseen: see SlotHasOneUser.
UndisturbedSlot == Undisturbed => SlotHasOneUser

\* A call of tui_submit_action returns, resizes, redraws and signals included, unless
\* the program is shutting down.
SubmitReturns ==
    \A s \in Submitters : pc[s] = "acquire" ~> (pc[s] = "idle" \/ terminate)

\* A full redraw that a resize or the `redraw' command asks for happens, unless the
\* TUI thread has left.
RedrawHappens == redrawAll ~> (~redrawAll \/ tui = "exited")

\* tui_finalize returns: the TUI thread is woken, sees terminate and can be joined.
FinalizeReturns == terminate ~> pc[Main] = "done"
=============================================================================
