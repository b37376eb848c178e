---------------------------- MODULE CommandLine -----------------------------
(***************************************************************************)
(* The input line (commands/playlist.c): handle_command with its list of   *)
(* suggestions and completion by TAB, handle_search, and the dispatcher    *)
(* that takes the line apart.  Both share one buffer that lives as long as *)
(* the program: only its first byte is cleared for a new line.             *)
(*                                                                         *)
(* A name is a sequence of characters; the table of commands is a sequence *)
(* of names.  Every action is one turn of the loop around getch().         *)
(***************************************************************************)
EXTENDS Integers, Sequences, SequencesExt, FiniteSetsExt

CONSTANTS
    Names,      \* commands[i].name
    Listview,   \* the commands whose valid_scope is not scope_textbox
    Typed,      \* characters that are typed
    Size,       \* buffer_size: the buffer has one byte more
    Height,     \* SUGGESTION_LIST_HEIGHT
    NUL

K == Len(Names)     \* command_count
Nothing == -1       \* NOTHING_SELECTED
Huge == K + 3       \* SIZE_MAX

TableAssumption ==
    /\ Size \in Nat \ {0} /\ Names \in Seq(Seq(STRING))
    /\ \A i \in 1..K : Len(Names[i]) \in 1..Size - 2 /\ NUL \notin Range(Names[i])
    /\ NUL \notin Typed /\ Height \in Nat \ {0} /\ Listview \subseteq 1..K

VARIABLES
    mode,      \* "off", or the function that reads keys: "command" or "search"
    buffer,    \* state_get_input()
    pos,       \* the position in buffer
    matching,  \* matching_commands: command numbers, 0 ends the list
    shown,     \* shown_commands
    selected,  \* state_get_sugg_selected()
    suggest,   \* suggest_pos
    prior,     \* pos_prior_suggest
    retab,
    window,    \* whether there is a suggestion_window
    ran        \* the command dispatched last, with its argument

line == <<pos, matching, shown, selected, suggest, prior, retab>>
vars == <<mode, buffer, line, window, ran>>

TextAt(b, from) == \* the string that begins at an address
    LET end == Min({i \in from..Size : b[i] = NUL}) IN [i \in 1..end - from |-> b[from + i - 1]]
Text == TextAt(buffer, 0)
Put(s) == \* sprintf(buffer, "%s ", s)
    [i \in 0..Size |-> IF i < Len(s) THEN s[i + 1] ELSE IF i = Len(s) THEN " "
                       ELSE IF i = Len(s) + 1 THEN NUL ELSE buffer[i]]
Filter(b) == \* submit_updated_suggestion_list: what is behind the end stays
    LET found == {i \in 1..K : IsPrefix(TextAt(b, 0), Names[i])}
    IN  \E order \in UNION {Bijection(1..n, found) : n \in 0..K} : \* that of the table
            /\ \A i, j \in DOMAIN order : i < j => order[i] < order[j]
            /\ shown' = Len(order)
            /\ matching' = [i \in 0..K |-> IF i < Len(order) THEN order[i + 1]
                                           ELSE IF i = Len(order) THEN 0 ELSE matching[i]]

Init ==
    /\ mode = "off" /\ buffer = [i \in 0..Size |-> NUL] /\ pos = 0
    /\ matching = [i \in 0..K |-> (i + 1) % (K + 1)] /\ shown = K
    /\ selected = 0 /\ suggest = 0 /\ prior = Nothing /\ retab = FALSE
    /\ window = FALSE /\ ran = [command |-> 0, argument |-> <<>>]

Open(m) == \* the beginning of handle_command and of handle_search
    /\ mode = "off" /\ mode' = m
    /\ buffer' = [buffer EXCEPT ![0] = NUL]
    /\ pos' = 0 /\ suggest' = 0 /\ prior' = Nothing /\ retab' = FALSE
    /\ matching' = [i \in 0..K |-> (i + 1) % (K + 1)] /\ shown' = K
    /\ IF m = "command" THEN selected' = Nothing /\ window' = TRUE ELSE UNCHANGED <<selected, window>>
    /\ UNCHANGED ran

Close == mode' = "off" /\ window' = FALSE /\ UNCHANGED line  \* state_set_commands(NULL)
Escape == mode # "off" /\ Close /\ UNCHANGED <<buffer, ran>>

Dispatch(b) == \* command_dispatcher, when a command and not a search was typed
    LET matches == {i \in 1..K : IsPrefix(Names[i], TextAt(b, 0)) /\ b[Len(Names[i])] \in {NUL, " "}}
        c == Min(matches)
    IN  ran' = IF mode = "search" THEN ran
               ELSE IF matches = {} THEN [command |-> 0, argument |-> <<>>]
               ELSE [command |-> c, argument |-> TextAt(b, Len(Names[c]) + 1)]

\* Mutated form: the suggestions stay on the screen.
EnterOpen ==
    /\ mode # "off" /\ mode' = "off" /\ Dispatch(buffer) /\ UNCHANGED <<line, buffer, window>>
Enter ==
    /\ mode # "off" /\ Close /\ Dispatch(buffer) /\ UNCHANGED buffer

Up ==
    /\ mode = "command" /\ retab' = FALSE
    /\ selected' = IF selected = Nothing THEN IF shown = 0 THEN Huge ELSE shown - 1
                   ELSE IF selected > 0 THEN selected - 1 ELSE Nothing
    /\ UNCHANGED <<mode, buffer, pos, matching, shown, suggest, prior, window, ran>>

Down ==
    /\ mode = "command" /\ retab' = FALSE
    /\ selected' = IF selected = Nothing THEN 0 ELSE IF selected < shown THEN selected + 1 ELSE Nothing
    /\ UNCHANGED <<mode, buffer, pos, matching, shown, suggest, prior, window, ran>>

Tab ==
    LET cut == IF prior = Nothing THEN buffer ELSE [buffer EXCEPT ![prior] = NUL]
        from == IF ~retab /\ selected # Nothing THEN selected ELSE suggest
        fits == {i \in from..shown - 1 : IsPrefix(TextAt(cut, 0), Names[matching[i]])}
        stem == IF prior = Nothing THEN pos ELSE prior
    IN  /\ mode = "command" /\ retab' = TRUE
        /\ IF from >= shown
           THEN /\ suggest' = 0 /\ buffer' = [cut EXCEPT ![stem] = NUL]
                /\ pos' = stem /\ prior' = Nothing /\ selected' = Nothing
           ELSE /\ prior' = stem
                /\ IF fits = {} THEN buffer' = cut /\ suggest' = from /\ UNCHANGED <<pos, selected>>
                   ELSE LET i == Min(fits) IN
                        /\ buffer' = Put(Names[matching[i]]) /\ pos' = Len(Names[matching[i]]) + 1
                        /\ selected' = i /\ suggest' = i + 1
        /\ UNCHANGED <<mode, matching, shown, window, ran>>

Backspace ==
    /\ mode # "off" /\ UNCHANGED ran
    /\ IF pos = 0 THEN Close /\ UNCHANGED buffer
       ELSE /\ pos' = pos - 1 /\ buffer' = [buffer EXCEPT ![pos - 1] = NUL]
            /\ IF mode = "command" THEN Filter(buffer') /\ retab' = FALSE
               ELSE UNCHANGED <<matching, shown, retab>>
            /\ UNCHANGED <<mode, selected, suggest, prior, window>>

Insert(b) ==
    /\ mode # "off" /\ buffer' = b /\ pos' = pos + 1 /\ UNCHANGED <<selected, suggest, prior>>
    /\ IF mode = "command" THEN Filter(b) ELSE UNCHANGED <<matching, shown>>
    /\ IF pos' = Size THEN mode' = "off" /\ window' = FALSE /\ Dispatch(b) /\ UNCHANGED retab
       ELSE UNCHANGED <<mode, window, ran>> /\ retab' = (retab /\ mode = "search")

\* Mutated form: no NUL is put behind the character.
TypeOpen(c) == Insert([buffer EXCEPT ![pos] = c])
\* A full line is taken like Enter.
Type(c) == Insert([buffer EXCEPT ![pos] = c, ![pos + 1] = NUL])

Next ==
    \/ \E m \in {"command", "search"} : Open(m)
    \/ \E c \in Typed : Type(c)
    \/ Escape \/ Enter \/ Up \/ Down \/ Tab \/ Backspace

Spec == Init /\ [][Next]_vars

-----------------------------------------------------------------------------
(* Properties *)

\* The buffer ends with a NUL whatever is typed and completed: it is never overrun.
TypeInvariant ==
    /\ mode \in {"off", "command", "search"} /\ window \in BOOLEAN /\ retab \in BOOLEAN
    /\ DOMAIN buffer = 0..Size /\ \E i \in 0..Size : buffer[i] = NUL
    /\ pos \in 0..Size /\ prior \in {Nothing} \cup 0..Size
    /\ matching \in [0..K -> 0..K] /\ matching[K] = 0 /\ shown \in 0..K
    /\ suggest \in 0..Huge + 1 /\ selected \in {Nothing} \cup 0..Huge
    /\ ran.command \in 0..K

\* The assertion of tui_update_suggestion_list: the suggestions are closed once per time
\* they were opened, on every way out of the input.
WindowWhileCommand == window <=> mode = "command"

\* What is searched for is what was typed, although the buffer keeps older text.
SearchesTyped == mode = "search" => pos = Len(Text)

\* command.c: `repeat' takes no argument or one of three; so a command typed without an
\* argument gets none.
ArgumentTyped ==
    [][Enter /\ mode = "command" /\ ran'.command # 0 =>
        ran'.argument = SubSeq(Text, Len(Names[ran'.command]) + 2, Len(Text))]_vars

\* Comment in handle_command: pos is `the position in buffer', the end of its text.
PosIsEnd == mode = "command" => pos = Len(Text)

\* Comment of submit_updated_suggestion_list: the list shows the commands that begin with
\* the text (no completion being under way).
First == IF selected = Nothing THEN 0 ELSE selected - (selected % Height)
ShowsMatching ==
    mode = "command" /\ prior = Nothing /\ selected <= K =>
        \A i \in First..First + Height - 1 :
            (i <= K /\ \A j \in First..i : matching[j] # 0) => IsPrefix(Text, Names[matching[i]])

\* Comments of command.c and of the dispatcher: only the list view has commands, those of
\* the text box cannot be typed.
OnlyListview == ran.command \in Listview \cup {0}
=============================================================================
