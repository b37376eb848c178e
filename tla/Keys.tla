-------------------------------- MODULE Keys --------------------------------
(***************************************************************************)
(* Keys and commands: the lines map(scope, key, command) of the            *)
(* configuration (config.c), how a command is found by its name            *)
(* (command.c), and what a pressed key runs in the list view (main.c) and  *)
(* in a text box (commands/playlist.c).  A name is a sequence of           *)
(* characters; what is behind it in a map() line is the parameter.         *)
(***************************************************************************)
EXTENDS Integers, Sequences, SequencesExt, FiniteSetsExt

CONSTANTS
    Commands,  \* the table of command.c: records of a name and a valid_scope
    Words,     \* third argument of a map()
    Keys,      \* keys there are
    Unknown,   \* a key or scope that is not
    Opens,     \* commands that open a text box
    Closes,    \* cmd_tb_close
    MaxLines   \* bound: map() lines

Scopes == {"global", "playlist", "textbox"}
None == [command |-> 0, param |-> <<>>]

TableAssumption ==
    /\ Commands \in Seq([name : Seq(STRING) \ {<<>>}, valid_scope : Scopes])
    /\ Words \subseteq Seq(STRING)
    /\ Unknown \notin Keys \cup Scopes /\ Opens \cup Closes \subseteq DOMAIN Commands
    /\ MaxLines \in Nat

VARIABLES
    pc,        \* "read" the configuration, "run", or "refused"
    table,     \* key_command_mapping
    kcm_count,
    lines,     \* map() lines read
    meant,     \* the word of the last line that was not left out, for every scope and key
    view,      \* scope whose keys are read: "playlist" or "textbox"
    ran        \* what was run last, with its parameter, its scope and key

vars == <<pc, table, kcm_count, lines, meant, view, ran>>

\* Mutated form: the count does not begin at 0.
InitCounted ==
    /\ pc = "read" /\ table = [s \in Scopes |-> [k \in Keys |-> None]] /\ kcm_count = 1
    /\ lines = 0 /\ meant = [s \in Scopes |-> [k \in Keys |-> <<>>]] /\ view = "playlist"
    /\ ran = [run |-> None, scope |-> "global", key |-> Unknown]
Init ==
    /\ pc = "read" /\ table = [s \in Scopes |-> [k \in Keys |-> None]] /\ kcm_count = 0
    /\ lines = 0 /\ meant = [s \in Scopes |-> [k \in Keys |-> <<>>]] /\ view = "playlist"
    /\ ran = [run |-> None, scope |-> "global", key |-> Unknown]

\* Mutated form: the commands of every scope are searched.
SearchAll(word, scope) ==
    LET hits == {c \in DOMAIN Commands : IsPrefix(Commands[c].name, word)}
    IN  IF hits = {} THEN 0 ELSE Min(hits)
\* command_search: the first command whose name the word begins with.
Search(word, scope) ==
    LET hits == {c \in DOMAIN Commands : /\ Commands[c].valid_scope \in {scope, "global"}
                                         /\ IsPrefix(Commands[c].name, word)}
    IN  IF hits = {} THEN 0 ELSE Min(hits)

\* config_map_command: a line with an unknown scope, key or command is left out.
Map(scope, key, word) ==
    LET c == IF scope \in Scopes /\ key \in Keys THEN Search(word, scope) ELSE 0
    IN  /\ pc = "read" /\ lines < MaxLines /\ lines' = lines + 1
        /\ IF c = 0 THEN UNCHANGED <<table, meant, kcm_count>>
           ELSE /\ table' = [table EXCEPT ![scope][key] = [command |-> c,
                    param |-> SubSeq(word, Len(Commands[c].name) + 1, Len(word))]]
                /\ meant' = [meant EXCEPT ![scope][key] = word]
                /\ kcm_count' = kcm_count + 1
        /\ UNCHANGED <<pc, view, ran>>

\* The end of the file, or a line it cannot be parsed behind; main ends without a mapping.
Start ==
    /\ pc = "read" /\ pc' = IF kcm_count = 0 THEN "refused" ELSE "run"
    /\ UNCHANGED <<table, kcm_count, lines, meant, view, ran>>
NoFile ==
    /\ pc = "read" /\ pc' = "refused" /\ UNCHANGED <<table, kcm_count, lines, meant, view, ran>>

\* Mutated form: the parameter is looked for by itself.
GetOwnParam(scope, key) ==
    LET s == IF table[scope][key].command # 0 THEN scope ELSE "global"
        p == IF table[scope][key].param # <<>> THEN scope ELSE "global"
    IN  [command |-> table[s][key].command, param |-> table[p][key].param]
\* config_get_function, config_get_param
Get(scope, key) ==
    LET s == IF table[scope][key].command # 0 THEN scope ELSE "global" IN table[s][key]

\* The loops of main and of handle_textbox.
Press(key) ==
    /\ pc = "run" /\ ran' = [run |-> Get(view, key), scope |-> view, key |-> key]
    /\ view' = IF view = "playlist" /\ Get(view, key).command \in Opens THEN "textbox"
               ELSE IF view = "textbox" /\ Get(view, key).command \in Closes THEN "playlist"
               ELSE view
    /\ UNCHANGED <<pc, table, kcm_count, lines, meant>>

Next ==
    \/ \E s \in Scopes \cup {Unknown}, k \in Keys \cup {Unknown}, w \in Words : Map(s, k, w)
    \/ Start \/ NoFile
    \/ \E k \in Keys : Press(k)

Spec == Init /\ [][Next]_vars

-----------------------------------------------------------------------------
(* Properties *)

TypeInvariant ==
    /\ pc \in {"read", "run", "refused"} /\ kcm_count \in 0..lines /\ lines \in 0..MaxLines
    /\ \A s \in Scopes, k \in Keys : /\ table[s][k].command \in 0..Len(Commands)
                                     /\ (table[s][k] = None <=> meant[s][k] = <<>>)
    /\ view \in {"playlist", "textbox"} /\ ran.run.command \in 0..Len(Commands)

\* A key never runs a command of the view that is not shown: those of a text box use its
\* items, those of the list its selection.
RunsInScope ==
    ran.run.command # 0 => Commands[ran.run.command].valid_scope \in {ran.scope, "global"}

\* The command whose name is the word's first, as typed in the input line it would be.
Named(word, scope) ==
    {c \in DOMAIN Commands : /\ Commands[c].valid_scope \in {scope, "global"}
                             /\ IsPrefix(Commands[c].name, word)
                             /\ Len(word) = Len(Commands[c].name) \/ word[Len(Commands[c].name) + 1] = " "}
Line == \* scope and word of the line a pressed key goes back to
    LET s == IF meant[ran.scope][ran.key] # <<>> THEN ran.scope ELSE "global"
    IN  [scope |-> s, word |-> meant[s][ran.key]]
Follows(c) == Commands[c].name \o ran.run.param = Line.word

\* Command and parameter are those of one line, the last for this key in the view, or else
\* in the global scope, unless the word begins with the name of another command.
RunsLastLine ==
    ran.run.command # 0 =>
        /\ Follows(ran.run.command)
        /\ \/ ran.run.command \in Named(Line.word, Line.scope)
           \/ \E c \in DOMAIN Commands : /\ IsPrefix(Commands[c].name, Line.word)
                                         /\ Commands[c].name # Commands[ran.run.command].name
           \/ Named(Line.word, Line.scope) = {}

\* command.h: command_search finds `the corresponding struct command for a given string'.
RunsNamedCommand ==
    ran.run.command # 0 /\ Named(Line.word, Line.scope) # {} =>
        ran.run.command \in Named(Line.word, Line.scope)
=============================================================================
