------------------------------ MODULE Textbox -------------------------------
(***************************************************************************)
(* The text box (help, details of a track, the users somebody follows):    *)
(* handle_textbox and its commands (commands/textbox.c, the end of         *)
(* commands/playlist.c), its part of state.c, the window tui.c draws it in *)
(* and the subscriptions a toggled item adds to the configuration          *)
(* (config.c).  Every change of the state is drawn before the setter       *)
(* returns (TuiHandoff), so setter and drawing are one step.               *)
(*                                                                         *)
(* Keys that read beyond the items or the URLs of a track are not          *)
(* followed: what they do is undefined.                                    *)
(***************************************************************************)
EXTENDS Integers, Sequences, SequencesExt

CONSTANTS
    NUsers,   \* the users there are
    NUrls,    \* URLs in the description of the selected track
    Limit,    \* of cmd_tb_goto: 555
    MaxPos,   \* bound: the position scrolled to
    MaxWins,  \* bound: windows created
    MaxSubs   \* bound: subscriptions in the configuration

SizesAssumption ==
    /\ NUsers \in Nat \ {0} /\ NUrls \in Nat /\ Limit \in Nat
    /\ MaxPos \in Nat /\ MaxWins \in Nat \ {0, 1} /\ MaxSubs \in Nat

Users == 1..NUsers

VARIABLES
    title,          \* of the box; "none" for NULL, while the list is shown
    items,          \* the users in the box, with FLAG_SUBSCRIBED; <<>> also for NULL
    pos, selected,  \* uppermost line; selected item
    win, wins,      \* textbox_window.win is set; windows that exist
    screen,         \* what the pad was last drawn with, and from which line it is shown
    url_count,      \* of the selected track, -1 for URL_COUNT_UNINITIALIZED
    subs, saved,    \* config_subscribe; the file with the dynamic configuration
    unsaved         \* a write of that file has failed or was cut short

box == <<title, items, pos, selected>>
window == <<win, wins, screen>>
config == <<subs, saved, unsaved>>
vars == <<box, window, url_count, config>>

Item(u, checked) == [user |-> u, checked |-> checked]
Nothing == [items |-> <<>>, selected |-> 0, pos |-> 0]

Init ==
    /\ title = "none" /\ items = <<>> /\ pos = 0 /\ selected = 0
    /\ win = FALSE /\ wins = 0 /\ screen = Nothing /\ url_count = -1
    /\ subs = <<>> /\ saved = <<>> /\ unsaved = FALSE

-----------------------------------------------------------------------------
(* tui_update_textbox *)

NewWindows(n, i, s) ==
    /\ wins + n <= MaxWins /\ win' = TRUE /\ wins' = wins + n
    /\ screen' = [items |-> i, selected |-> s, pos |-> 0]

\* textbox_items_modified: the box is drawn anew, in a new window.
RedrawItems == NewWindows(1, items', selected')
\* textbox_modified: the box is created, deleted, or shown from another line.
Redraw ==
    IF title' # "none" THEN
        IF win THEN screen' = [screen EXCEPT !.pos = pos'] /\ UNCHANGED <<win, wins>>
        ELSE NewWindows(1, items', selected')
    ELSE win /\ win' = FALSE /\ wins' = wins - 1 /\ screen' = Nothing

-----------------------------------------------------------------------------
(* The commands that open a box *)

Help ==
    /\ title = "none" /\ title' = "help" /\ UNCHANGED <<items, pos, selected, url_count, config>>
    /\ Redraw

\* The first time, the URLs of the description are collected.
Details ==
    /\ title = "none" /\ title' = "details" /\ url_count' = NUrls
    /\ UNCHANGED <<items, pos, selected, config>> /\ Redraw

\* soundcloud_get_subscriptions, marked with what the configuration has.
Subscriptions(followed) ==
    /\ title = "none" /\ title' = "subscriptions"
    /\ items' = [i \in DOMAIN followed |-> Item(followed[i], followed[i] \in Range(subs))]
    /\ NewWindows(2, items', selected) \* with the text, and again with the items
    /\ UNCHANGED <<pos, selected, url_count, config>>

-----------------------------------------------------------------------------
(* The keys of a box *)

\* Mutated form: the position is left for the next box.
CloseKeepPos ==
    /\ title # "none" /\ title' = "none"
    /\ UNCHANGED <<items, pos, selected, url_count, config>> /\ Redraw
\* The position goes back to the top, then the box goes; items and selection stay.
Close ==
    /\ title # "none" /\ title' = "none" /\ pos' = 0
    /\ UNCHANGED <<items, selected, url_count, config>> /\ Redraw

Scroll(p) ==
    /\ title # "none" /\ pos' = p /\ UNCHANGED <<title, items, selected>>
    /\ Redraw /\ UNCHANGED <<url_count, config>>

\* Mutated form: the new selection is drawn as a change of the position is.
GotoItemUndrawn(delta) ==
    LET to == selected + delta IN
    /\ title # "none"
    /\ selected' = IF to < 0 THEN 0 ELSE IF to < Limit THEN to ELSE Limit
    /\ UNCHANGED <<title, items, pos>> /\ Redraw /\ UNCHANGED <<url_count, config>>
\* Mutated form: the selection ends a line late.
GotoItemLate(delta) ==
    LET to == selected + delta IN
    /\ title # "none"
    /\ selected' = IF to < 0 THEN 0 ELSE IF to <= Limit + 1 THEN to ELSE Limit
    /\ UNCHANGED <<title, items, pos>> /\ RedrawItems /\ UNCHANGED <<url_count, config>>
GotoItem(delta) ==
    LET to == selected + delta IN
    /\ title # "none"
    /\ selected' = IF to < 0 THEN 0 ELSE IF to < Limit THEN to ELSE Limit
    /\ UNCHANGED <<title, items, pos>> /\ RedrawItems /\ UNCHANGED <<url_count, config>>

\* Mutated form: the file is written before the subscription is added.
SaveBefore == saved' = subs /\ UNCHANGED unsaved
\* config_add_subscription: the file is written, unless it cannot be opened.
Save == saved' = Append(subs, items[selected + 1].user) /\ UNCHANGED unsaved
SaveFails == unsaved' = TRUE /\ UNCHANGED saved

\* The flag is turned round; in either direction the user is added.
Toggle ==
    /\ title # "none" /\ selected < Len(items) /\ Len(subs) < MaxSubs
    /\ items' = [items EXCEPT ![selected + 1].checked = ~@]
    /\ (Save \/ SaveFails) /\ subs' = Append(subs, items[selected + 1].user)
    /\ UNCHANGED <<title, pos, selected>> /\ RedrawItems /\ UNCHANGED url_count

\* A digit opens a URL of the track, one that has been collected.
Digit(d) == title # "none" /\ url_count # -1 /\ d < url_count /\ UNCHANGED vars

\* The program ends, perhaps while it writes, and reads what the file has.
Restart ==
    /\ \E n \in 0..Len(saved) :
        /\ subs' = SubSeq(saved, 1, n) /\ saved' = subs' /\ unsaved' = (unsaved \/ n < Len(saved))
    /\ title' = "none" /\ items' = <<>> /\ pos' = 0 /\ selected' = 0
    /\ win' = FALSE /\ wins' = 0 /\ screen' = Nothing /\ url_count' = -1

Next ==
    \/ Help \/ Details \/ Close \/ Toggle \/ Restart
    \/ \E f \in {<<>>} \cup {<<u>> : u \in Users} \cup {[u \in Users |-> u]} : Subscriptions(f)
    \/ \E p \in 0..MaxPos : Scroll(p)
    \/ \E delta \in {-1, 1} : GotoItem(delta)
    \/ \E d \in 0..9 : Digit(d)

Spec == Init /\ [][Next]_vars

-----------------------------------------------------------------------------
(* Properties *)

TypeInvariant ==
    /\ title \in {"none", "help", "details", "subscriptions"} /\ pos \in 0..MaxPos
    /\ selected \in 0..Limit /\ url_count \in {-1, NUrls} /\ wins \in 0..MaxWins
    /\ \A i \in DOMAIN items : items[i].user \in Users
    /\ subs \in Seq(Users) /\ saved \in Seq(Users)

\* A window is there exactly while there is a title, and the items and the selection in it
\* are those of the state; the line it begins with, too, unless the items were redrawn.
ScreenShowsState ==
    /\ win <=> title # "none"
    /\ win => screen.items = items /\ screen.selected = selected /\ screen.pos \in {0, pos}

\* A box opens at its top, and the first scroll goes on from there.
OpensAtTop == title = "none" => pos = 0

\* The file holds the subscriptions in use, but for a write that failed or was cut short.
SavedIsUsed == ~unsaved => saved = subs

\* tui.c: a new textbox is created `if there is none'.
OneWindow == wins <= 1
\* config.h: a user is added to the configuration: the box shows which are in it.
CheckedIsSubscribed ==
    title = "subscriptions" => \A i \in DOMAIN items : items[i].checked <=> items[i].user \in Range(subs)
=============================================================================
