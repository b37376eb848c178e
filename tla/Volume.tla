------------------------------- MODULE Volume -------------------------------
(***************************************************************************)
(* The playback volume: the `vol' command (commands/global.c, sound.c),    *)
(* the mixer (audio/alsa.c), which other programs may set as well, the     *)
(* thread that watches it, and the number in the tab bar (state.c).  The   *)
(* mixer counts in steps of its own, from 0 to its range; a percentage is  *)
(* rounded down both ways.                                                 *)
(***************************************************************************)
EXTENDS Integers

CONSTANTS
    Steps,       \* range: the steps of the mixer
    Deltas,      \* percentages asked for
    Supported,   \* audio_change_volume: ALSA has it, libao has not
    MaxExternals \* bound: changes by other programs

RangeAssumption ==
    /\ Steps \in Nat \ {0} /\ Deltas \subseteq Int
    /\ Supported \in BOOLEAN /\ MaxExternals \in Nat

Huge == 101 \* stands for (unsigned int) -1, larger than any percentage

VARIABLES
    main, vol,    \* step of cmd_gl_volume; what sound_change_volume answered
    watcher, seen, \* step of the watching thread; the volume it has read
    raw,          \* what the mixer is set to
    event,        \* the mixer has changed since the watcher looked
    shown,        \* _volume
    externals,
    disturbed     \* another program interfered with a command, or a command failed

vars == <<main, vol, watcher, seen, raw, event, shown, externals, disturbed>>

Percent(r) == (100 * r) \div Steps
Raw(p) == (p * Steps) \div 100

Init ==
    /\ main = "idle" /\ vol = 0 /\ watcher = "poll" /\ seen = 0
    /\ raw \in 0..Steps /\ event = FALSE /\ externals = 0 /\ disturbed = FALSE
    /\ shown = IF Supported THEN Percent(raw) ELSE 0

\* Mutated form: the percentage asked for is not limited.
TargetOpen(delta) == Percent(raw) + delta
Target(delta) ==
    LET t == Percent(raw) + delta IN IF t > 100 THEN 100 ELSE IF t < 0 THEN 0 ELSE t

\* Mutated form: rounded up, lest a step be lost.
SetUp(delta) ==
    /\ main = "idle" /\ Supported /\ main' = "get"
    /\ raw' = -((-Target(delta) * Steps) \div 100) /\ event' = TRUE
    /\ UNCHANGED <<vol, watcher, seen, shown, externals, disturbed>>
Set(delta) ==
    /\ main = "idle" /\ Supported /\ main' = "get"
    /\ raw' = Raw(Target(delta)) /\ event' = TRUE
    /\ UNCHANGED <<vol, watcher, seen, shown, externals, disturbed>>

\* The mixer fails, or there is none: the answer is -1.
SetFails ==
    /\ main \in {"idle", "get"} /\ main' = "show" /\ vol' = Huge /\ disturbed' = TRUE
    /\ UNCHANGED <<watcher, seen, raw, event, shown, externals>>

\* Mutated form: the answer is that of the next step of the mixer.
GetTarget ==
    /\ main = "get" /\ main' = "show" /\ vol' = IF raw < Steps THEN Percent(raw + 1) ELSE 100
    /\ UNCHANGED <<watcher, seen, raw, event, shown, externals, disturbed>>
Get ==
    /\ main = "get" /\ main' = "show" /\ vol' = Percent(raw)
    /\ UNCHANGED <<watcher, seen, raw, event, shown, externals, disturbed>>

Show ==
    /\ main = "show" /\ main' = "idle" /\ shown' = vol
    /\ UNCHANGED <<vol, watcher, seen, raw, event, externals, disturbed>>

\* The watcher: poll and snd_mixer_handle_events, audio_get_volume, state_set_volume.
Handle ==
    /\ watcher = "poll" /\ Supported /\ event /\ watcher' = "get" /\ event' = FALSE
    /\ UNCHANGED <<main, vol, seen, raw, shown, externals, disturbed>>
WatcherGet ==
    /\ watcher = "get" /\ watcher' = "show" /\ seen' = Percent(raw)
    /\ UNCHANGED <<main, vol, raw, event, shown, externals, disturbed>>
WatcherShow ==
    /\ watcher = "show" /\ watcher' = "poll" /\ shown' = seen
    /\ UNCHANGED <<main, vol, seen, raw, event, externals, disturbed>>

External(r) ==
    /\ Supported /\ externals < MaxExternals /\ externals' = externals + 1
    /\ raw' = r /\ event' = TRUE /\ disturbed' = (disturbed \/ main # "idle")
    /\ UNCHANGED <<main, vol, watcher, seen, shown>>

Next ==
    \/ \E d \in Deltas : Set(d) \/ Set(-d)
    \/ SetFails \/ Get \/ Show \/ Handle \/ WatcherGet \/ WatcherShow
    \/ \E r \in {0, Steps} : External(r)

Spec == Init /\ [][Next]_vars

-----------------------------------------------------------------------------
(* Properties *)

TypeInvariant ==
    /\ main \in {"idle", "get", "show"} /\ watcher \in {"poll", "get", "show"}
    /\ vol \in 0..100 \cup {Huge} /\ seen \in 0..100 /\ shown \in 0..100 \cup {Huge}
    /\ raw \in 0..Steps /\ event \in BOOLEAN /\ externals \in 0..MaxExternals
    /\ disturbed \in BOOLEAN

\* Two threads write the number shown, from what they read before: once both are idle, the
\* number is right, unless another program or an error came between.
ShowsVolume ==
    ~disturbed /\ Supported /\ main = "idle" /\ watcher = "poll" /\ ~event => shown = Percent(raw)

\* Why: what either thread is about to show is what the mixer is set to, or the watcher
\* has yet to look.
ShowsNext ==
    ~disturbed /\ Supported =>
        /\ main = "show" => vol = Percent(raw)
        /\ watcher = "show" /\ ~event => seen = Percent(raw)

\* A change is never louder than asked for, however the percentages are rounded.
SetsAtMost == \A d \in Deltas \cup {-d : d \in Deltas} : Set(d) => Percent(raw') <= Target(d)
NeverLouder == [][SetsAtMost]_vars

\* ao_module.h: `+10 -> increase volume by 10 percent': so the volume goes up.
VolumeGoesUp == [][\A d \in Deltas : Set(d) /\ d > 0 /\ Percent(raw) < 100 => raw' > raw]_vars
\* ao_module.h: the return value is the volume after changing; it is shown as the volume,
\* errors apart.
ShownIsVolume ==
    main = "idle" /\ watcher = "poll" /\ ~event /\ shown # Huge => shown = Percent(raw)
\* sound.h: the answer is -1 `if changing volume is not supported', not a volume.
ShownIsPercentage == shown \in 0..100
=============================================================================
