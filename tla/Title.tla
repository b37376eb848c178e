------------------------------- MODULE Title --------------------------------
(***************************************************************************)
(* The title of the window: a string with a reference count                *)
(* (generic/rc_string.c) that state_set_title (state.c) replaces, called   *)
(* by a command and by the play thread at the end of a track, and that the *)
(* TUI thread draws (tui.c), asked by that call or by a redraw of the      *)
(* whole screen.  Between its steps a call may be overtaken by another.    *)
(* A use of a freed string, or of NULL, ends the behaviour: `fault'.       *)
(***************************************************************************)
EXTENDS Integers

CONSTANTS
    Writers,    \* threads that set the title
    Main,       \* the one that sets the first
    MaxTitles,  \* bound: titles made
    MaxRedraws  \* bound: redraws of the whole screen

WritersAssumption ==
    /\ Main \in Writers /\ "redraw" \notin Writers
    /\ MaxTitles \in Nat \ {0} /\ MaxRedraws \in Nat

NULL == 0
Titles == 1..MaxTitles

VARIABLES
    pc, new,    \* of a writer: the step, and the string it made
    title,      \* _title_text
    made,       \* strings made so far
    rc,         \* reference counts, 0 once freed
    tui, drawn, \* step of tui_draw_title_line, and the string it holds
    asked,      \* the writer it draws for, or "redraw"
    redraws,
    disturbed,  \* two of the writers and a redraw were busy at the same time
    fault       \* "none", "freed" or "null"

vars == <<pc, new, title, made, rc, tui, drawn, asked, redraws, disturbed, fault>>

Init ==
    /\ pc = [w \in Writers |-> "idle"] /\ new = [w \in Writers |-> NULL]
    /\ title = NULL /\ made = 0 /\ rc = [s \in Titles |-> 0]
    /\ tui = "idle" /\ drawn = NULL /\ asked = "redraw" /\ redraws = 0
    /\ disturbed = FALSE /\ fault = "none"

Busy(p, t, a) ==
    {w \in Writers : p[w] # "idle"} \cup {r \in {"redraw"} : t # "idle" /\ a = r}
Two(busy) == \E v, w \in busy : v # w
Watch == disturbed' = (disturbed \/ Two(Busy(pc', tui', asked')))

\* Mutated form: the assertions of rc_string.c are not there.
AddAnyway(s, n) ==
    IF s = NULL THEN fault' = "null" /\ UNCHANGED rc
    ELSE rc' = [rc EXCEPT ![s] = @ + n] /\ UNCHANGED fault
\* rcs_ref and rcs_unref of a string.
Add(s, n) ==
    IF s = NULL THEN fault' = "null" /\ UNCHANGED rc
    ELSE IF rc[s] = 0 THEN fault' = "freed" /\ UNCHANGED rc
    ELSE rc' = [rc EXCEPT ![s] = @ + n] /\ UNCHANGED fault

-----------------------------------------------------------------------------
(* rcs_format, state_set_title, rcs_unref *)

Step(w, from, to) == fault = "none" /\ pc[w] = from /\ pc' = [pc EXCEPT ![w] = to]

Format(w) ==
    /\ Step(w, "idle", "release") /\ made < MaxTitles /\ (w = Main \/ title # NULL)
    /\ made' = made + 1 /\ new' = [new EXCEPT ![w] = made + 1] /\ rc' = [rc EXCEPT ![made + 1] = 1]
    /\ UNCHANGED <<title, tui, drawn, asked, redraws, fault>> /\ Watch

\* rcs_unref takes a NULL, which is the title before the first.
Release(w) ==
    /\ Step(w, "release", "store")
    /\ IF title = NULL THEN UNCHANGED <<rc, fault>> ELSE Add(title, -1)
    /\ UNCHANGED <<new, title, made, tui, drawn, asked, redraws>> /\ Watch

Store(w) ==
    /\ Step(w, "store", "take") /\ title' = new[w]
    /\ UNCHANGED <<new, made, rc, tui, drawn, asked, redraws, fault>> /\ Watch

\* Mutated form: the title is kept without a reference of its own.
TakeNot(w) ==
    /\ Step(w, "take", "submit")
    /\ UNCHANGED <<new, title, made, rc, tui, drawn, asked, redraws, fault>> /\ Watch
Take(w) ==
    /\ Step(w, "take", "submit") /\ Add(title, 1)
    /\ UNCHANGED <<new, title, made, tui, drawn, asked, redraws>> /\ Watch

\* tui_submit_action: the writer waits until the TUI thread has drawn.
Submit(w) ==
    /\ Step(w, "submit", "wait") /\ tui = "idle"
    /\ tui' = "ref" /\ drawn' = title /\ asked' = w
    /\ UNCHANGED <<new, title, made, rc, redraws, fault>> /\ Watch

\* Mutated form: the maker's own reference is not given up.
DropNot(w) ==
    /\ Step(w, "drop", "idle")
    /\ UNCHANGED <<new, title, made, rc, tui, drawn, asked, redraws, fault>> /\ Watch
Drop(w) ==
    /\ Step(w, "drop", "idle") /\ Add(new[w], -1)
    /\ UNCHANGED <<new, title, made, tui, drawn, asked, redraws>> /\ Watch

-----------------------------------------------------------------------------
(* tui_draw_title_line *)

Redraw ==
    /\ fault = "none" /\ tui = "idle" /\ redraws < MaxRedraws /\ redraws' = redraws + 1
    /\ tui' = "ref" /\ drawn' = title /\ asked' = "redraw"
    /\ UNCHANGED <<pc, new, title, made, rc, fault>> /\ Watch

TuiRef ==
    /\ fault = "none" /\ tui = "ref" /\ tui' = "value" /\ Add(drawn, 1)
    /\ UNCHANGED <<pc, new, title, made, drawn, asked, redraws>> /\ Watch

TuiValue ==
    /\ fault = "none" /\ tui = "value" /\ tui' = "unref" /\ Add(drawn, 0)
    /\ UNCHANGED <<pc, new, title, made, drawn, asked, redraws>> /\ Watch

TuiUnref ==
    /\ fault = "none" /\ tui = "unref" /\ tui' = "idle" /\ Add(drawn, -1)
    /\ pc' = IF asked = "redraw" THEN pc ELSE [pc EXCEPT ![asked] = "drop"]
    /\ UNCHANGED <<new, title, made, drawn, asked, redraws>> /\ Watch

Next ==
    \/ \E w \in Writers : Format(w) \/ Release(w) \/ Store(w) \/ Take(w) \/ Submit(w) \/ Drop(w)
    \/ Redraw \/ TuiRef \/ TuiValue \/ TuiUnref

Spec == Init /\ [][Next]_vars

-----------------------------------------------------------------------------
(* Properties *)

TypeInvariant ==
    /\ pc \in [Writers -> {"idle", "release", "store", "take", "submit", "wait", "drop"}]
    /\ new \in [Writers -> Titles \cup {NULL}] /\ title \in Titles \cup {NULL} /\ made \in 0..MaxTitles
    /\ rc \in [Titles -> Nat] /\ tui \in {"idle", "ref", "value", "unref"}
    /\ drawn \in Titles \cup {NULL} /\ asked \in Writers \cup {"redraw"} /\ redraws \in 0..MaxRedraws
    /\ disturbed \in BOOLEAN /\ fault \in {"none", "freed", "null"}

\* No freed string is used as long as one call at a time replaces or redraws the title.
FreedOnlyWhenDisturbed == fault = "freed" => disturbed

\* Then every replaced title is freed, too, and the current one is held once.
OldTitlesFreed ==
    ~disturbed /\ fault = "none" /\ tui = "idle" /\ (\A w \in Writers : pc[w] = "idle") =>
        \A s \in Titles : rc[s] = IF s = title THEN 1 ELSE 0

\* Why: one count for the title, unless it is being replaced, one for its maker until it has
\* been drawn, one for who draws it.
Held(s) ==
    (IF s = title /\ (\A w \in Writers : pc[w] \notin {"store", "take"}) THEN 1 ELSE 0)
    + (IF \E w \in Writers : pc[w] # "idle" /\ new[w] = s THEN 1 ELSE 0)
    + (IF tui \in {"value", "unref"} /\ drawn = s THEN 1 ELSE 0)

\* And what its maker is about to replace is another title, what is drawn the current one.
Placed ==
    /\ title <= made /\ (tui # "idle" => drawn = title)
    /\ \A w \in Writers :
          /\ pc[w] # "idle" => new[w] \in 1..made
          /\ pc[w] \in {"release", "store"} => new[w] # title
          /\ pc[w] \in {"take", "submit", "wait", "drop"} => new[w] = title
          /\ pc[w] = "wait" <=> (tui # "idle" /\ asked = w)

Alone == ~disturbed => ~Two(Busy(pc, tui, asked))
Counted ==
    ~disturbed => /\ fault # "freed"
                  /\ fault = "none" => Placed /\ \A s \in Titles : rc[s] = Held(s)

\* rc_string.h: the reference counter `is required to be > 0, otherwise we are accessing
\* freed memory'.
CounterPositive == fault # "freed"
\* rc_string.h: the argument of rcs_ref is declared nonnull.
NonNull == fault # "null"
=============================================================================
