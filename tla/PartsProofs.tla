---------------------------- MODULE PartsProofs -----------------------------
(***************************************************************************)
(* What the parts keep true on instances of any size.  A behaviour of      *)
(* PartsSpec is one of one part, whose steps are those of its module: the  *)
(* invariant of a part is proved for these steps alone.                    *)
(***************************************************************************)
EXTENDS Parts, SequenceTheorems, WellFoundedInduction, TLAPS

\* A step of the module whose part is explored, or one that leaves its variables alone.
OfItsPart ==
    /\ part' = part
    /\ part = "description" => [Next]_vars
    /\ part # "description" => UNCHANGED vars
    /\ part = "references" => [R!Next]_(R!vars)
    /\ part = "commandline" => [C!Next]_(C!vars)
    /\ part = "keys" => [K!Next]_(K!vars)
    /\ part = "textbox" => [X!Next]_(X!vars)
    /\ part = "title" => [T!Next]_(T!vars)
    /\ part = "flags" => [F!Next]_(F!vars)
    /\ part = "volume" => [V!Next]_(V!vars)
    /\ part = "users" => [U!Next]_(U!vars)

\* Every step is of its part.
LEMMA StepsOfParts == [PartsNext]_partvars => OfItsPart
<1> SUFFICES ASSUME [PartsNext]_partvars PROVE OfItsPart
  OBVIOUS
<1>1. CASE PartsNext
  <2> USE DEF Step
  <2>1. CASE part = "description" /\ Next /\ UNCHANGED <<part, All>>
    BY <2>1 DEF OfItsPart
  <2>2. CASE Step("references", R!Next, After5)
    BY <2>2 DEF OfItsPart
  <2>3. CASE Step("commandline", C!Next, After11)
    BY <2>3 DEF OfItsPart
  <2>4. CASE Step("keys", K!Next, After7)
    BY <2>4 DEF OfItsPart
  <2>5. CASE Step("textbox", X!Next, After11)
    BY <2>5 DEF OfItsPart
  <2>6. CASE Step("title", T!Next, After11)
    BY <2>6 DEF OfItsPart
  <2>7. CASE Step("flags", F!Next, After7)
    BY <2>7 DEF OfItsPart
  <2>8. CASE Step("volume", V!Next, After9)
    BY <2>8 DEF OfItsPart
  <2>9. CASE Step("users", U!Next, <<>>)
    BY <2>9 DEF OfItsPart
  <2> QED
    BY <1>1, <2>1, <2>2, <2>3, <2>4, <2>5, <2>6, <2>7, <2>8, <2>9 DEF PartsNext
<1>2. CASE UNCHANGED partvars
  <2>1. UNCHANGED <<part, vars, s1, s2, s3, s4, s5, s6, s7, s8, s9, s10, s11, s12, s13>>
    BY <1>2 DEF partvars, All, After5, After7, After9, After11
  <2> QED
    BY <2>1 DEF OfItsPart, R!vars, C!vars, C!line, K!vars, X!vars, X!box, X!window, X!config,
       T!vars, F!vars, V!vars, U!vars, U!server
<1> QED
  BY <1>1, <1>2

-----------------------------------------------------------------------------
(* Description: a URL costs at most seven bytes more than it had while it    *)
(* is one of the first hundred, and the copy is 757 bytes longer than the    *)
(* text.                                                                     *)

\* commands/playlist.c: every variable of Description keeps to its type.
LEMMA DescriptionTypes ==
  (Init => TypeInvariant) /\ (TypeInvariant /\ [Next]_vars => TypeInvariant')
<1>1. Init => TypeInvariant
  BY LengthAssumption DEF Init, TypeInvariant
<1>2. TypeInvariant /\ [Next]_vars => TypeInvariant'
  <2> SUFFICES ASSUME TypeInvariant, [Next]_vars PROVE TypeInvariant'
    OBVIOUS
  <2>1. CASE Finish
    BY <2>1, LengthAssumption DEF Finish, TypeInvariant
  <2>2. ASSUME NEW gap \in Gaps, NEW len \in Lens, Match(gap, len) PROVE TypeInvariant'
    BY <2>2, LengthAssumption DEF Match, Grow, Overhead, TypeInvariant
  <2>3. ASSUME NEW gap \in Gaps, NEW len \in Lens, Abort(gap, len) PROVE TypeInvariant'
    BY <2>3 DEF Abort, TypeInvariant
  <2>4. CASE UNCHANGED vars
    BY <2>4 DEF vars, TypeInvariant
  <2> QED
    BY <2>1, <2>2, <2>3, <2>4 DEF Next
<1> QED
  BY <1>1, <1>2

\* The invariant that is inductive: what is used beyond the text copied so far.
Copied == IF pc = "done" THEN Length ELSE at
CostBound == found <= 100 => pc # "aborted" /\ used <= Copied + 7 * found

\* A URL that is found costs seven bytes at the most while it is one of the first hundred.
LEMMA CostPreserved ==
  TypeInvariant /\ CostBound /\ [Next]_vars => CostBound'
<1> SUFFICES ASSUME TypeInvariant, CostBound, [Next]_vars, found' <= 100
             PROVE  pc' # "aborted" /\ used' <= Copied' + 7 * found'
  BY DEF CostBound
<1>types. /\ Length \in Nat /\ at \in Nat /\ at <= Length /\ used \in Nat /\ found \in Nat
          /\ pc \in {"scan", "done", "aborted"}
  BY LengthAssumption DEF TypeInvariant
<1>1. CASE Finish
  BY <1>1, <1>types DEF Finish, CostBound, Copied
<1>2. ASSUME NEW gap \in Gaps, NEW len \in Lens, Match(gap, len)
      PROVE  pc' # "aborted" /\ used' <= Copied' + 7 * found'
  <2>1. gap \in Nat /\ len \in Nat
    BY LengthAssumption
  <2>2. found <= 99 /\ found' = found + 1 /\ pc = "scan" /\ pc' = "scan"
    BY <1>2, <1>types DEF Match
  <2>3. Overhead(found) <= 7 /\ Overhead(found) \in Nat
    BY <2>2, <1>types DEF Overhead
  <2>4. used <= at + 7 * found
    BY <2>2, <1>types DEF CostBound, Copied
  <2>5. used' = used + gap + len + Overhead(found) /\ at' = at + gap + len
    BY <1>2 DEF Match
  <2> QED
    BY <2>1, <2>2, <2>3, <2>4, <2>5, <1>types DEF Copied
\* An assertion cannot fail: the text in front of the URL still fits.
<1>3. ASSUME NEW gap \in Gaps, NEW len \in Lens, Abort(gap, len) PROVE FALSE
  <2>1. gap \in Nat /\ len \in Nat
    BY LengthAssumption
  <2>2. at + gap + len <= Length /\ used + gap > Size /\ found <= 100 /\ pc = "scan"
    BY <1>3 DEF Abort
  <2>3. used <= at + 7 * found
    BY <2>2, <1>types DEF CostBound, Copied
  <2> QED
    BY <2>1, <2>2, <2>3, <1>types DEF Size
<1>4. CASE UNCHANGED vars
  BY <1>4, <1>types DEF vars, CostBound, Copied
<1> QED
  BY <1>1, <1>2, <1>3, <1>4 DEF Next

\* A URL is stored only where the array has a place, and the array is never more than 16
\* places ahead, for any number of URLs.
LEMMA ArrayPreserved == TypeInvariant /\ UrlsFit /\ [Next]_vars => UrlsFit'
<1> SUFFICES ASSUME TypeInvariant, UrlsFit, [Next]_vars PROVE UrlsFit'
  OBVIOUS
<1>1. CASE Finish
  BY <1>1 DEF Finish, UrlsFit
<1>2. ASSUME NEW gap \in Gaps, NEW len \in Lens, Match(gap, len) PROVE UrlsFit'
  BY <1>2 DEF Match, Grow, TypeInvariant, UrlsFit
<1>3. ASSUME NEW gap \in Gaps, NEW len \in Lens, Abort(gap, len) PROVE UrlsFit'
  BY <1>3 DEF Abort, UrlsFit
<1>4. CASE UNCHANGED vars
  BY <1>4 DEF vars, UrlsFit
<1> QED
  BY <1>1, <1>2, <1>3, <1>4 DEF Next

\* commands/playlist.c: description_prepare_urls overruns neither the copy, up to a hundred
\* URLs, whatever the lengths of the description, of the URLs and of the text between them,
\* nor the array, for any number of URLs.
THEOREM CopyAndArrayFit == PartsSpec => []DescriptionFits
<1> DEFINE I == TypeInvariant /\ CostBound /\ UrlsFit
<1>1. PartsInit => I
  <2>1. Init => CostBound /\ UrlsFit
    BY LengthAssumption DEF Init, CostBound, Copied, UrlsFit
  <2> QED
    BY <2>1, DescriptionTypes DEF PartsInit
<1>2. I /\ [PartsNext]_partvars => I'
  <2>1. [PartsNext]_partvars => [Next]_vars
    BY StepsOfParts DEF OfItsPart
  <2> QED
    BY <2>1, DescriptionTypes, CostPreserved, ArrayPreserved
<1>3. I => DescriptionFits
  <2>1. TypeInvariant /\ CostBound => FewUrlsFit
    BY LengthAssumption DEF TypeInvariant, CostBound, Copied, FewUrlsFit, Size
  <2> QED
    BY <2>1 DEF DescriptionFits
<1> QED
  BY <1>1, <1>2, <1>3, PTL DEF PartsSpec

-----------------------------------------------------------------------------
(* Volume *)

\* The conversions stay in their ranges, and back and forth makes nothing louder.
LEMMA Conversions ==
  /\ \A r \in 0..Steps : V!Percent(r) \in 0..100
  /\ \A p \in 0..100 : V!Raw(p) \in 0..Steps /\ V!Percent(V!Raw(p)) <= p
<1>1. Steps \in Nat \ {0}
  BY PartsAssumption DEF V!RangeAssumption
<1>2. ASSUME NEW r \in 0..Steps PROVE V!Percent(r) \in 0..100
  BY <1>1 DEF V!Percent
<1>3. ASSUME NEW p \in 0..100 PROVE V!Raw(p) \in 0..Steps /\ V!Percent(V!Raw(p)) <= p
  <2>1. p * Steps \in 0..100 * Steps
    BY <1>1
  <2>2. V!Raw(p) \in 0..Steps /\ 100 * V!Raw(p) <= p * Steps
    BY <1>1, <2>1 DEF V!Raw
  <2>3. (100 * V!Raw(p)) \div Steps <= p
    BY <1>1, <2>2
  <2> QED
    BY <2>2, <2>3 DEF V!Percent
<1> QED
  BY <1>2, <1>3

\* The types and what the threads of the volume are about to show.
VolumeInv == V!TypeInvariant /\ V!ShowsNext /\ V!ShowsVolume

\* At the start the volume shown is the mixer's.
LEMMA VolumeFirst == V!Init => VolumeInv
<1> SUFFICES ASSUME V!Init PROVE VolumeInv
  OBVIOUS
<1>1. Steps \in Nat \ {0} /\ Supported \in BOOLEAN /\ MaxExternals \in Nat
  BY PartsAssumption DEF V!RangeAssumption
<1>2. V!Percent(s5) \in 0..100
  BY Conversions DEF V!Init
<1>3. V!TypeInvariant
  <2>1. s7 \in 0..100
    BY <1>1, <1>2 DEF V!Init
  <2>2. s1 = "idle" /\ s2 = 0 /\ s3 = "poll" /\ s4 = 0 /\ s5 \in 0..Steps
    BY DEF V!Init
  <2>3. s6 \in BOOLEAN /\ s9 \in BOOLEAN
    BY DEF V!Init
  <2>4. s8 \in 0..MaxExternals
    BY <1>1 DEF V!Init
  <2> QED
    BY <2>1, <2>2, <2>3, <2>4 DEF V!TypeInvariant
<1>4. V!ShowsNext /\ V!ShowsVolume
  BY <1>1, <1>2 DEF V!Init, V!ShowsNext, V!ShowsVolume
<1> QED
  BY <1>3, <1>4 DEF VolumeInv

\* Setting: the target is a percentage, and the mixer is set to no more than it.
LEMMA SetsInRange ==
  ASSUME VolumeInv, NEW d \in Int, V!Set(d)
  PROVE  s5' \in 0..Steps /\ V!Percent(s5') <= V!Target(d)
<1>1. V!Target(d) \in 0..100
  <2>1. V!Percent(s5) \in 0..100
    BY Conversions DEF VolumeInv, V!TypeInvariant
  <2>2. V!Percent(s5) \in Int /\ V!Percent(s5) + d \in Int
    BY <2>1
  <2> QED
    BY ONLY <2>2 DEF V!Target
<1>2. s5' = V!Raw(V!Target(d))
  BY DEF V!Set
<1> QED
  BY <1>1, <1>2, Conversions

\* audio/alsa.c, sound.c, state.c: each step keeps the invariant.
LEMMA VolumeKept == VolumeInv /\ [V!Next]_(V!vars) => VolumeInv'
<1> SUFFICES ASSUME VolumeInv, [V!Next]_(V!vars) PROVE VolumeInv'
  OBVIOUS
<1> USE DEF VolumeInv, V!TypeInvariant, V!ShowsNext, V!ShowsVolume, V!Huge
<1>1. /\ Steps \in Nat \ {0} /\ Deltas \subseteq Int
      /\ Supported \in BOOLEAN /\ MaxExternals \in Nat
  BY PartsAssumption DEF V!RangeAssumption
<1>2. V!Percent(s5) \in 0..100
  BY Conversions
<1>3. ASSUME NEW d \in Int, V!Set(d) PROVE VolumeInv'
  BY <1>1, <1>3, SetsInRange DEF V!Set
<1>4. CASE V!SetFails
  BY <1>1, <1>4 DEF V!SetFails
<1>5. CASE V!Get
  BY <1>1, <1>2, <1>5 DEF V!Get
<1>6. CASE V!Show
  BY <1>1, <1>6 DEF V!Show, V!Percent
<1>7. CASE V!Handle
  BY <1>1, <1>7 DEF V!Handle
<1>8. CASE V!WatcherGet
  BY <1>1, <1>2, <1>8 DEF V!WatcherGet
<1>9. CASE V!WatcherShow
  BY <1>1, <1>9 DEF V!WatcherShow
<1>10. ASSUME NEW r \in {0, Steps}, V!External(r) PROVE VolumeInv'
  <2>1. V!TypeInvariant'
    BY <1>1, <1>10 DEF V!External
  <2>2. s6' = TRUE /\ (s9' \/ s1 # "show")
    BY <1>10 DEF V!External
  <2>3. s1' = s1
    BY <1>10 DEF V!External
  <2> QED
    BY <2>1, <2>2, <2>3
<1>11. CASE UNCHANGED V!vars
  BY <1>11 DEF V!vars, V!Percent
<1> QED
  BY <1>1, <1>3, <1>4, <1>5, <1>6, <1>7, <1>8, <1>9, <1>10, <1>11 DEF V!Next

\* sound.c, audio/alsa.c: for a mixer of any number of steps, and whatever is asked for, the
\* volume shown is the mixer's once command and watcher are done, unless another program or
\* an error came between them.
THEOREM VolumeIsShown == PartsSpec => []ShowsVolume
<1> DEFINE I == part = "volume" => VolumeInv
<1>1. PartsInit => I
  BY VolumeFirst DEF PartsInit
<1>2. I /\ [PartsNext]_partvars => I'
  BY StepsOfParts, VolumeKept DEF OfItsPart
<1>3. I => ShowsVolume
  BY DEF VolumeInv, ShowsVolume
<1> QED
  BY <1>1, <1>2, <1>3, PTL DEF PartsSpec

\* audio/alsa.c: a command never makes it louder than asked for, for any mixer.
THEOREM NeverMadeLouder == PartsSpec => NeverLouder
<1> DEFINE I == part = "volume" => VolumeInv
<1>1. PartsInit => I
  BY VolumeFirst DEF PartsInit
<1>2. I /\ [PartsNext]_partvars => I'
  BY StepsOfParts, VolumeKept DEF OfItsPart
<1>3. I /\ [PartsNext]_partvars => [part = "volume" => V!SetsAtMost]_partvars
  <2>1. ASSUME VolumeInv, NEW d \in Deltas \cup {-e : e \in Deltas}, V!Set(d)
        PROVE  V!Percent(s5') <= V!Target(d)
    <3>1. d \in Int
      BY PartsAssumption DEF V!RangeAssumption
    <3> QED
      BY <2>1, <3>1, SetsInRange
  <2> QED
    BY <2>1 DEF V!SetsAtMost
<1> QED
  BY <1>1, <1>2, <1>3, PTL DEF PartsSpec, NeverLouder
-----------------------------------------------------------------------------
(* Title.  The variables of its part: s1 is pc, s2 new, s3 title, s4 made,   *)
(* s5 rc, s6 tui, s7 drawn, s8 asked, s9 redraws, s10 disturbed, s11 fault.  *)

\* tui.c, state.c: every variable of Title keeps to its type.
LEMMA TitleTypes == T!TypeInvariant /\ [T!Next]_(T!vars) => T!TypeInvariant'
<1> SUFFICES ASSUME T!TypeInvariant, [T!Next]_(T!vars) PROVE T!TypeInvariant'
  OBVIOUS
<1> USE DEF T!TypeInvariant, T!Step, T!Titles, T!NULL
<1>1. MaxTitles \in Nat /\ MaxRedraws \in Nat
  BY PartsAssumption DEF T!WritersAssumption
\* A count that is not 0 may go down by one.
<1>2. ASSUME NEW s \in T!Titles \cup {T!NULL}, NEW n \in {-1, 0, 1}, T!Add(s, n)
      PROVE  s5' \in [T!Titles -> Nat] /\ s11' \in {"none", "freed", "null"}
  <2>1. CASE s = T!NULL \/ s5[s] = 0
    BY <1>2, <2>1 DEF T!Add
  <2>2. CASE s \in T!Titles /\ s5[s] # 0
    <3>1. s5[s] + n \in Nat
      BY <2>2
    <3> QED
      BY <1>2, <2>2, <3>1 DEF T!Add
  <2> QED
    BY <2>1, <2>2
<1>3. T!Watch => s10' \in BOOLEAN
  BY DEF T!Watch
<1>4. ASSUME NEW w \in Writers, T!Format(w) PROVE T!TypeInvariant'
  <2>1. s4 + 1 \in T!Titles
    BY <1>1, <1>4 DEF T!Format
  <2> QED
    BY <1>1, <1>3, <1>4, <2>1 DEF T!Format
<1>5. ASSUME NEW w \in Writers, T!Release(w) PROVE T!TypeInvariant'
  <2>1. s5' \in [T!Titles -> Nat] /\ s11' \in {"none", "freed", "null"}
    BY <1>2, <1>5 DEF T!Release
  <2> QED
    BY <1>3, <1>5, <2>1 DEF T!Release
<1>6. ASSUME NEW w \in Writers, T!Store(w) PROVE T!TypeInvariant'
  BY <1>3, <1>6 DEF T!Store
<1>7. ASSUME NEW w \in Writers, T!Take(w) PROVE T!TypeInvariant'
  <2>1. s5' \in [T!Titles -> Nat] /\ s11' \in {"none", "freed", "null"}
    BY <1>2, <1>7 DEF T!Take
  <2> QED
    BY <1>3, <1>7, <2>1 DEF T!Take
<1>8. ASSUME NEW w \in Writers, T!Submit(w) PROVE T!TypeInvariant'
  BY <1>3, <1>8 DEF T!Submit
<1>9. ASSUME NEW w \in Writers, T!Drop(w) PROVE T!TypeInvariant'
  <2>1. s5' \in [T!Titles -> Nat] /\ s11' \in {"none", "freed", "null"}
    BY <1>2, <1>9 DEF T!Drop
  <2> QED
    BY <1>3, <1>9, <2>1 DEF T!Drop
<1>10. CASE T!Redraw
  BY <1>1, <1>3, <1>10 DEF T!Redraw
<1>11. CASE T!TuiRef \/ T!TuiValue \/ T!TuiUnref
  <2>1. s5' \in [T!Titles -> Nat] /\ s11' \in {"none", "freed", "null"}
    BY <1>2, <1>11 DEF T!TuiRef, T!TuiValue, T!TuiUnref
  <2>2. s1' \in [Writers -> {"idle", "release", "store", "take", "submit", "wait", "drop"}]
    BY <1>11 DEF T!TuiRef, T!TuiValue, T!TuiUnref
  <2> QED
    BY <1>3, <1>11, <2>1, <2>2 DEF T!TuiRef, T!TuiValue, T!TuiUnref
<1>12. CASE UNCHANGED T!vars
  BY <1>12 DEF T!vars
<1> QED
  BY <1>4, <1>5, <1>6, <1>7, <1>8, <1>9, <1>10, <1>11, <1>12 DEF T!Next

\* Every step looks at who is busy, and what has been disturbed stays so.
LEMMA TitleAlone ==
  ASSUME T!TypeInvariant, T!Alone, [T!Next]_(T!vars)
  PROVE  T!Alone' /\ (~s10' => ~s10)
<1>1. CASE T!Watch
  <2>1. s10' = (s10 \/ T!Two(T!Busy(s1', s6', s8')))
    BY <1>1 DEF T!Watch
  <2> QED
    BY <2>1 DEF T!Alone
<1>2. CASE UNCHANGED T!vars
  BY <1>2 DEF T!vars, T!Alone
<1> QED
  BY <1>1, <1>2 DEF T!Next, T!Format, T!Release, T!Store, T!Take, T!Submit, T!Drop, T!Redraw,
     T!TuiRef, T!TuiValue, T!TuiUnref

\* Who is alone is the only writer, or a redraw while no writer is busy.
LEMMA OneBusy ==
  ASSUME NEW p, NEW t, NEW a, ~T!Two(T!Busy(p, t, a))
  PROVE  /\ \A v, w \in Writers : p[v] # "idle" /\ p[w] # "idle" => v = w
         /\ t # "idle" /\ a = "redraw" => \A w \in Writers : p[w] = "idle"
BY PartsAssumption DEF T!WritersAssumption, T!Two, T!Busy

\* The counts while w is the only writer that may be busy.
HeldBy(w, p, n, c, t, d, s) ==
    (IF s = c /\ p[w] \notin {"store", "take"} THEN 1 ELSE 0)
    + (IF p[w] # "idle" /\ n[w] = s THEN 1 ELSE 0)
    + (IF t \in {"value", "unref"} /\ d = s THEN 1 ELSE 0)

\* While one writer is busy only its own variables and the TUI thread's hold a title.
LEMMA HeldByOne ==
  ASSUME NEW w \in Writers
  PROVE  /\ (\A v \in Writers \ {w} : s1[v] = "idle") =>
               \A s : T!Held(s) = HeldBy(w, s1, s2, s3, s6, s7, s)
         /\ (\A v \in Writers \ {w} : s1'[v] = "idle") =>
               \A s : T!Held(s)' = HeldBy(w, s1', s2', s3', s6', s7', s)
<1>1. ASSUME \A v \in Writers \ {w} : s1[v] = "idle", NEW s
      PROVE  T!Held(s) = HeldBy(w, s1, s2, s3, s6, s7, s)
  <2>1. (\A v \in Writers : s1[v] \notin {"store", "take"}) <=> s1[w] \notin {"store", "take"}
    BY <1>1
  <2>2. (\E v \in Writers : s1[v] # "idle" /\ s2[v] = s) <=> (s1[w] # "idle" /\ s2[w] = s)
    BY <1>1
  <2> QED
    BY <2>1, <2>2 DEF T!Held, HeldBy
<1>2. ASSUME \A v \in Writers \ {w} : s1'[v] = "idle", NEW s
      PROVE  T!Held(s)' = HeldBy(w, s1', s2', s3', s6', s7', s)
  <2>1. (\A v \in Writers : s1'[v] \notin {"store", "take"})
            <=> s1'[w] \notin {"store", "take"}
    BY <1>2
  <2>2. (\E v \in Writers : s1'[v] # "idle" /\ s2'[v] = s) <=> (s1'[w] # "idle" /\ s2'[w] = s)
    BY <1>2
  <2> QED
    BY <2>1, <2>2 DEF T!Held, HeldBy
<1> QED
  BY <1>1, <1>2

\* While a writer that does not wait takes a step, nobody else is busy.
LEMMA WriterAlone ==
  ASSUME T!TypeInvariant, T!Placed, ~T!Two(T!Busy(s1, s6, s8)), ~T!Two(T!Busy(s1', s6', s8')),
         NEW w \in Writers, NEW from, NEW to, T!Step(w, from, to),
         from # "wait", from # "idle" \/ (to # "idle" /\ UNCHANGED <<s6, s8>>)
  PROVE  /\ s6 = "idle" /\ s1[w] = from /\ s1'[w] = to
         /\ \A v \in Writers \ {w} : s1[v] = "idle" /\ s1'[v] = "idle"
<1>1. s1[w] = from /\ s1'[w] = to /\ \A v \in Writers \ {w} : s1'[v] = s1[v]
  BY DEF T!Step, T!TypeInvariant
<1>2. \A v \in Writers \ {w} : s1[v] = "idle"
  BY <1>1, OneBusy
<1>3. s6 = "idle"
  <2>1. CASE s8 \in Writers
    BY <1>1, <1>2, <2>1 DEF T!Placed
  <2>2. CASE s8 = "redraw"
    BY <1>1, <2>2, OneBusy
  <2> QED
    BY <2>1, <2>2 DEF T!TypeInvariant
<1> QED
  BY <1>1, <1>2, <1>3

\* generic/rc_string.c: undisturbed, the count of each title stays the number of those that
\* hold it.
LEMMA TitleCountedKept ==
  ASSUME T!TypeInvariant, T!Alone, T!Counted, [T!Next]_(T!vars)
  PROVE  T!Counted'
<1> SUFFICES ASSUME ~s10'
             PROVE  /\ s11' # "freed"
                    /\ s11' = "none" => /\ T!Placed'
                                        /\ \A s \in T!Titles : s5'[s] = T!Held(s)'
  BY DEF T!Counted
<1>1. /\ ~s10 /\ s11 # "freed"
      /\ s11 = "none" => T!Placed /\ \A s \in T!Titles : s5[s] = T!Held(s)
      /\ ~T!Two(T!Busy(s1, s6, s8)) /\ ~T!Two(T!Busy(s1', s6', s8'))
  BY TitleAlone DEF T!Counted, T!Alone
<1>2. MaxTitles \in Nat /\ T!Titles = 1..MaxTitles /\ T!NULL = 0 /\ "redraw" \notin Writers
  BY PartsAssumption DEF T!WritersAssumption, T!Titles, T!NULL
<1>3. /\ s2 \in [Writers -> T!Titles \cup {T!NULL}] /\ s3 \in T!Titles \cup {T!NULL}
      /\ s4 \in 0..MaxTitles /\ s5 \in [T!Titles -> Nat]
      /\ s7 \in T!Titles \cup {T!NULL} /\ s8 \in Writers \cup {"redraw"}
  BY DEF T!TypeInvariant
<1> DEFINE Good == /\ s11' # "freed"
                   /\ s11' = "none" => /\ T!Placed'
                                       /\ \A s \in T!Titles : s5'[s] = T!Held(s)'
<1>4. ASSUME NEW w \in Writers, T!Format(w) PROVE Good
  <2>1. /\ s6 = "idle" /\ s1[w] = "idle" /\ s1'[w] = "release"
        /\ \A v \in Writers \ {w} : s1[v] = "idle" /\ s1'[v] = "idle"
    BY <1>1, <1>4, WriterAlone DEF T!Format, T!Step
  <2>2. s2'[w] = s4 + 1 /\ s3' = s3 /\ s4' = s4 + 1 /\ s4' \in T!Titles
    BY <1>2, <1>3, <1>4 DEF T!Format
  <2>3. UNCHANGED <<s6, s7, s8, s11>> /\ s11 = "none"
    BY <1>4 DEF T!Format, T!Step
  <2>4. T!Placed'
    BY <1>1, <1>2, <1>3, <2>1, <2>2, <2>3 DEF T!Placed
  <2>5. ASSUME NEW s \in T!Titles PROVE s5'[s] = T!Held(s)'
    <3>1. s5'[s] = IF s = s4 + 1 THEN 1 ELSE s5[s]
      BY <1>3, <1>4 DEF T!Format
    <3>2. /\ T!Held(s) = HeldBy(w, s1, s2, s3, s6, s7, s)
          /\ T!Held(s)' = HeldBy(w, s1', s2', s3', s6', s7', s)
      BY <2>1, HeldByOne
    <3>3. s3 # s4 + 1 /\ s5[s] = T!Held(s)
      BY <1>1, <1>2, <1>3, <2>3 DEF T!Placed
    <3> QED
      BY <2>1, <2>2, <2>3, <3>1, <3>2, <3>3 DEF HeldBy
  <2> QED
    BY <2>3, <2>4, <2>5
<1>5. ASSUME NEW w \in Writers, T!Release(w) PROVE Good
  <2>1. /\ s6 = "idle" /\ s1[w] = "release" /\ s1'[w] = "store" /\ s11 = "none"
        /\ \A v \in Writers \ {w} : s1[v] = "idle" /\ s1'[v] = "idle"
    BY <1>1, <1>5, WriterAlone DEF T!Release, T!Step
  <2>2. /\ UNCHANGED <<s2, s3, s4, s6, s7, s8>> /\ s2[w] \in 1..s4 /\ s2[w] # s3
    BY <1>1, <1>5, <2>1 DEF T!Release, T!Placed
  <2>3. /\ s11' = "none"
        /\ \A s \in T!Titles : s5'[s] = IF s = s3 THEN s5[s] - 1 ELSE s5[s]
    <3>1. CASE s3 = T!NULL
      BY <1>2, <1>5, <2>1, <3>1 DEF T!Release
    <3>2. CASE s3 \in T!Titles
      <4>1. s5[s3] = 1
        <5>1. T!Held(s3) = HeldBy(w, s1, s2, s3, s6, s7, s3)
          BY <2>1, HeldByOne
        <5> QED
          BY <1>1, <2>1, <2>2, <3>2, <5>1 DEF HeldBy
      <4> QED
        BY <1>2, <1>3, <1>5, <2>1, <3>2, <4>1 DEF T!Release, T!Add
    <3> QED
      BY <1>3, <3>1, <3>2
  <2>4. T!Placed'
    BY <1>1, <1>2, <1>3, <2>1, <2>2 DEF T!Placed
  <2>5. ASSUME NEW s \in T!Titles PROVE s5'[s] = T!Held(s)'
    <3>1. /\ T!Held(s) = HeldBy(w, s1, s2, s3, s6, s7, s)
          /\ T!Held(s)' = HeldBy(w, s1', s2', s3', s6', s7', s)
      BY <2>1, HeldByOne
    <3> QED
      BY <1>1, <1>2, <1>3, <2>1, <2>2, <2>3, <2>4, <3>1 DEF HeldBy, T!Placed
  <2> QED
    BY <2>2, <2>3, <2>4, <2>5
<1>6. ASSUME NEW w \in Writers, T!Store(w) PROVE Good
  <2>1. /\ s6 = "idle" /\ s1[w] = "store" /\ s1'[w] = "take" /\ s11 = "none"
        /\ \A v \in Writers \ {w} : s1[v] = "idle" /\ s1'[v] = "idle"
    BY <1>1, <1>6, WriterAlone DEF T!Store, T!Step
  <2>2. /\ UNCHANGED <<s2, s4, s5, s6, s7, s8>> /\ s2[w] \in 1..s4 /\ s2[w] # s3
        /\ s3' = s2[w]
    BY <1>1, <1>6, <2>1 DEF T!Store, T!Placed
  <2>3. s11' = "none"
    BY <1>6, <2>1 DEF T!Store
  <2>4. T!Placed'
    BY <1>1, <1>2, <1>3, <2>1, <2>2 DEF T!Placed
  <2>5. ASSUME NEW s \in T!Titles PROVE s5'[s] = T!Held(s)'
    <3>1. /\ T!Held(s) = HeldBy(w, s1, s2, s3, s6, s7, s)
          /\ T!Held(s)' = HeldBy(w, s1', s2', s3', s6', s7', s)
      BY <2>1, HeldByOne
    <3> QED
      BY <1>1, <1>2, <1>3, <2>1, <2>2, <2>3, <2>4, <3>1 DEF HeldBy, T!Placed
  <2> QED
    BY <2>2, <2>3, <2>4, <2>5
<1>7. ASSUME NEW w \in Writers, T!Take(w) PROVE Good
  <2>1. /\ s6 = "idle" /\ s1[w] = "take" /\ s1'[w] = "submit" /\ s11 = "none"
        /\ \A v \in Writers \ {w} : s1[v] = "idle" /\ s1'[v] = "idle"
    BY <1>1, <1>7, WriterAlone DEF T!Take, T!Step
  <2>2. UNCHANGED <<s2, s3, s4, s6, s7, s8>> /\ s2[w] \in 1..s4 /\ s2[w] = s3
    BY <1>1, <1>7, <2>1 DEF T!Take, T!Placed
  <2>3. s11' = "none" /\ \A s \in T!Titles : s5'[s] = IF s = s3 THEN s5[s] + 1 ELSE s5[s]
    <3>1. s3 \in T!Titles /\ s3 # T!NULL
      BY <1>2, <1>3, <2>2
    <3>2. s5[s3] = 1
      <4>1. T!Held(s3) = HeldBy(w, s1, s2, s3, s6, s7, s3)
        BY <2>1, HeldByOne
      <4> QED
        BY <1>1, <2>1, <2>2, <3>1, <4>1 DEF HeldBy
    <3> QED
      BY <1>3, <1>7, <2>1, <3>1, <3>2 DEF T!Take, T!Add
  <2>4. T!Placed'
    BY <1>1, <1>2, <1>3, <2>1, <2>2 DEF T!Placed
  <2>5. ASSUME NEW s \in T!Titles PROVE s5'[s] = T!Held(s)'
    <3>1. /\ T!Held(s) = HeldBy(w, s1, s2, s3, s6, s7, s)
          /\ T!Held(s)' = HeldBy(w, s1', s2', s3', s6', s7', s)
      BY <2>1, HeldByOne
    <3> QED
      BY <1>1, <1>2, <1>3, <2>1, <2>2, <2>3, <2>4, <3>1 DEF HeldBy, T!Placed
  <2> QED
    BY <2>2, <2>3, <2>4, <2>5
<1>8. ASSUME NEW w \in Writers, T!Submit(w) PROVE Good
  <2>1. /\ s6 = "idle" /\ s1[w] = "submit" /\ s1'[w] = "wait" /\ s11 = "none"
        /\ \A v \in Writers \ {w} : s1[v] = "idle" /\ s1'[v] = "idle"
    BY <1>1, <1>8, WriterAlone DEF T!Submit, T!Step
  <2>2. /\ UNCHANGED <<s2, s3, s4, s5>> /\ s2[w] \in 1..s4 /\ s2[w] = s3
        /\ s6' = "ref" /\ s7' = s3 /\ s8' = w
    BY <1>1, <1>8, <2>1 DEF T!Submit, T!Placed
  <2>3. s11' = "none"
    BY <1>8, <2>1 DEF T!Submit
  <2>4. T!Placed'
    BY <1>1, <1>2, <1>3, <2>1, <2>2 DEF T!Placed
  <2>5. ASSUME NEW s \in T!Titles PROVE s5'[s] = T!Held(s)'
    <3>1. /\ T!Held(s) = HeldBy(w, s1, s2, s3, s6, s7, s)
          /\ T!Held(s)' = HeldBy(w, s1', s2', s3', s6', s7', s)
      BY <2>1, HeldByOne
    <3> QED
      BY <1>1, <1>2, <1>3, <2>1, <2>2, <2>3, <2>4, <3>1 DEF HeldBy, T!Placed
  <2> QED
    BY <2>2, <2>3, <2>4, <2>5
<1>9. ASSUME NEW w \in Writers, T!Drop(w) PROVE Good
  <2>1. /\ s6 = "idle" /\ s1[w] = "drop" /\ s1'[w] = "idle" /\ s11 = "none"
        /\ \A v \in Writers \ {w} : s1[v] = "idle" /\ s1'[v] = "idle"
    BY <1>1, <1>9, WriterAlone DEF T!Drop, T!Step
  <2>2. UNCHANGED <<s2, s3, s4, s6, s7, s8>> /\ s2[w] \in 1..s4 /\ s2[w] = s3
    BY <1>1, <1>9, <2>1 DEF T!Drop, T!Placed
  <2>3. s11' = "none" /\ \A s \in T!Titles : s5'[s] = IF s = s3 THEN s5[s] - 1 ELSE s5[s]
    <3>1. s3 \in T!Titles /\ s3 # T!NULL
      BY <1>2, <1>3, <2>2
    <3>2. s5[s3] = 2
      <4>1. T!Held(s3) = HeldBy(w, s1, s2, s3, s6, s7, s3)
        BY <2>1, HeldByOne
      <4> QED
        BY <1>1, <2>1, <2>2, <3>1, <4>1 DEF HeldBy
    <3> QED
      BY <1>3, <1>9, <2>1, <2>2, <3>1, <3>2 DEF T!Drop, T!Add
  <2>4. T!Placed'
    BY <1>1, <1>2, <1>3, <2>1, <2>2 DEF T!Placed
  <2>5. ASSUME NEW s \in T!Titles PROVE s5'[s] = T!Held(s)'
    <3>1. /\ T!Held(s) = HeldBy(w, s1, s2, s3, s6, s7, s)
          /\ T!Held(s)' = HeldBy(w, s1', s2', s3', s6', s7', s)
      BY <2>1, HeldByOne
    <3> QED
      BY <1>1, <1>2, <1>3, <2>1, <2>2, <2>3, <2>4, <3>1 DEF HeldBy, T!Placed
  <2> QED
    BY <2>2, <2>3, <2>4, <2>5
<1>10. ASSUME T!Redraw PROVE Good
  <2>1. /\ s11 = "none" /\ s11' = "none" /\ UNCHANGED <<s1, s2, s3, s4, s5>>
        /\ s6 = "idle" /\ s6' = "ref" /\ s7' = s3 /\ s8' = "redraw"
    BY <1>10 DEF T!Redraw
  <2>2. \A w \in Writers : s1[w] = "idle"
    BY <1>1, <2>1, OneBusy
  <2>3. T!Placed'
    BY <1>1, <1>2, <2>1, <2>2 DEF T!Placed
  <2>4. \A s \in T!Titles : T!Held(s)' = T!Held(s)
    BY <2>1 DEF T!Held
  <2> QED
    BY <1>1, <2>1, <2>3, <2>4
\* While the TUI thread draws, a writer waits for it or does nothing.
<1>11. ASSUME s11 = "none", s6 # "idle"
       PROVE  /\ \A w \in Writers : s1[w] \in {"idle", "wait"}
              /\ s7 = s3 /\ s3 <= s4
              /\ s8 # "redraw" => s8 \in Writers /\ s1[s8] = "wait"
              /\ s3 \in T!Titles => s5[s3] >= 1 + (IF s6 = "ref" THEN 0 ELSE 1)
  <2>1. s8 # "redraw" => s8 \in Writers /\ s1[s8] = "wait"
    BY <1>1, <1>3, <1>11 DEF T!Placed
  <2>2. \A w \in Writers : s1[w] \in {"idle", "wait"}
    BY <1>1, <1>11, <2>1, OneBusy
  <2>3. s7 = s3 /\ s3 <= s4
    BY <1>1, <1>11 DEF T!Placed
  <2>4. ASSUME s3 \in T!Titles PROVE s5[s3] >= 1 + (IF s6 = "ref" THEN 0 ELSE 1)
    <3>1. s5[s3] = T!Held(s3)
      BY <1>1, <1>11, <2>4
    <3>2. s6 \in {"ref", "value", "unref"}
      BY <1>11 DEF T!TypeInvariant
    <3> QED
      BY <2>2, <2>3, <3>1, <3>2 DEF T!Held
  <2> QED
    BY <2>1, <2>2, <2>3, <2>4
<1>12. ASSUME T!TuiRef \/ T!TuiValue, s3 \in T!Titles PROVE Good
  <2>1. /\ s11 = "none" /\ s6 \in {"ref", "value"} /\ UNCHANGED <<s1, s2, s3, s4, s7, s8>>
        /\ s6' = IF s6 = "ref" THEN "value" ELSE "unref"
    BY <1>12 DEF T!TuiRef, T!TuiValue
  <2>2. s7 = s3 /\ s5[s3] # 0 /\ s3 # T!NULL
    BY <1>2, <1>3, <1>11, <1>12, <2>1
  <2>3. /\ s11' = "none"
        /\ \A s \in T!Titles : s5'[s] = IF s = s3 /\ s6 = "ref" THEN s5[s] + 1 ELSE s5[s]
    BY <1>3, <1>12, <2>1, <2>2 DEF T!TuiRef, T!TuiValue, T!Add
  <2>4. T!Placed'
    BY <1>1, <2>1 DEF T!Placed
  <2>5. ASSUME NEW s \in T!Titles PROVE s5'[s] = T!Held(s)'
    BY <1>1, <2>1, <2>2, <2>3 DEF T!Held
  <2> QED
    BY <2>3, <2>4, <2>5
<1>13. ASSUME T!TuiUnref, s3 \in T!Titles PROVE Good
  <2>1. /\ s11 = "none" /\ s6 = "unref" /\ s6' = "idle" /\ UNCHANGED <<s2, s3, s4, s7, s8>>
        /\ s1' = IF s8 = "redraw" THEN s1 ELSE [s1 EXCEPT ![s8] = "drop"]
    BY <1>13 DEF T!TuiUnref
  <2>2. s7 = s3 /\ s5[s3] # 0 /\ s3 # T!NULL
    BY <1>2, <1>3, <1>11, <1>13, <2>1
  <2>3. s11' = "none" /\ \A s \in T!Titles : s5'[s] = IF s = s3 THEN s5[s] - 1 ELSE s5[s]
    BY <1>3, <1>13, <2>1, <2>2 DEF T!TuiUnref, T!Add
  <2>4. \A w \in Writers : /\ s1[w] \in {"idle", "wait"}
                           /\ s1'[w] = IF s1[w] = "wait" THEN "drop" ELSE "idle"
    BY <1>1, <1>2, <1>11, <2>1 DEF T!Placed, T!TypeInvariant
  <2>5. T!Placed'
    BY <1>1, <2>1, <2>4 DEF T!Placed
  <2>6. ASSUME NEW s \in T!Titles PROVE s5'[s] = T!Held(s)'
    BY <1>1, <2>1, <2>2, <2>3, <2>4 DEF T!Held
  <2> QED
    BY <2>3, <2>5, <2>6
\* Before the first title there is nothing to draw.
<1>14. ASSUME T!TuiRef \/ T!TuiValue \/ T!TuiUnref, s3 \notin T!Titles PROVE Good
  <2>1. s3 = T!NULL /\ s11 = "none" /\ s6 # "idle"
    BY <1>3, <1>14 DEF T!TuiRef, T!TuiValue, T!TuiUnref
  <2>2. s11' = "null"
    BY <1>11, <1>14, <2>1 DEF T!TuiRef, T!TuiValue, T!TuiUnref, T!Add
  <2> QED
    BY <2>2
<1>15. ASSUME UNCHANGED T!vars PROVE Good
  <2>1. \A s : T!Held(s)' = T!Held(s)
    BY <1>15 DEF T!vars, T!Held
  <2>2. T!Placed' <=> T!Placed
    BY <1>15 DEF T!vars, T!Placed
  <2> QED
    BY <1>1, <1>15, <2>1, <2>2 DEF T!vars
<1> HIDE DEF Good
<1>16. ASSUME T!TuiRef \/ T!TuiValue \/ T!TuiUnref PROVE Good
  BY <1>12, <1>13, <1>14, <1>16
<1>17. ASSUME T!Next PROVE Good
  BY <1>4, <1>5, <1>6, <1>7, <1>8, <1>9, <1>10, <1>16, <1>17 DEF T!Next
<1>18. Good
  BY <1>15, <1>17
<1> QED
  BY <1>18 DEF Good

\* rc_string.c, state.c: in the beginning there is no title.
LEMMA TitleFirst == T!Init => T!TypeInvariant /\ T!Alone /\ T!Counted
<1> SUFFICES ASSUME T!Init PROVE T!TypeInvariant /\ T!Alone /\ T!Counted
  OBVIOUS
<1>1. MaxTitles \in Nat /\ MaxRedraws \in Nat
  BY PartsAssumption DEF T!WritersAssumption
<1>2. T!TypeInvariant
  <2>1. s1 \in [Writers -> {"idle", "release", "store", "take", "submit", "wait", "drop"}]
    BY DEF T!Init
  <2>2. /\ s2 \in [Writers -> T!Titles \cup {T!NULL}] /\ s3 \in T!Titles \cup {T!NULL}
        /\ s4 \in 0..MaxTitles /\ s5 \in [T!Titles -> Nat]
    BY <1>1 DEF T!Init
  <2>3. /\ s6 \in {"idle", "ref", "value", "unref"} /\ s7 \in T!Titles \cup {T!NULL}
        /\ s8 \in Writers \cup {"redraw"} /\ s9 \in 0..MaxRedraws
    BY <1>1 DEF T!Init
  <2>4. s10 \in BOOLEAN /\ s11 \in {"none", "freed", "null"}
    BY DEF T!Init
  <2> QED
    BY <2>1, <2>2, <2>3, <2>4 DEF T!TypeInvariant
<1>3. T!Alone
  BY DEF T!Init, T!Alone, T!Two, T!Busy
<1>4. T!Placed
  BY DEF T!Init, T!Placed, T!NULL
<1>5. \A s \in T!Titles : s5[s] = T!Held(s)
  BY <1>1 DEF T!Init, T!Held, T!NULL, T!Titles
<1> QED
  BY <1>2, <1>3, <1>4, <1>5 DEF T!Init, T!Counted

\* rc_string.c, state.c: with any number of threads and titles, while one call at a time
\* replaces or draws the title, no freed string is used and every replaced one is freed.
THEOREM TitlesAreCounted == PartsSpec => []TitleCounted
<1> DEFINE I == part = "title" => T!TypeInvariant /\ T!Alone /\ T!Counted
<1>1. PartsInit => I
  BY TitleFirst DEF PartsInit
<1>2. I /\ [PartsNext]_partvars => I'
  BY StepsOfParts, TitleTypes, TitleAlone, TitleCountedKept DEF OfItsPart
<1>3. I => TitleCounted
  <2> SUFFICES ASSUME T!TypeInvariant, T!Counted
               PROVE  T!FreedOnlyWhenDisturbed /\ T!OldTitlesFreed
    BY DEF TitleCounted
  <2>1. T!FreedOnlyWhenDisturbed
    BY DEF T!Counted, T!FreedOnlyWhenDisturbed
  <2>2. T!OldTitlesFreed
    BY DEF T!Counted, T!OldTitlesFreed, T!Held
  <2> QED
    BY <2>1, <2>2
<1> QED
  BY <1>1, <1>2, <1>3, PTL DEF PartsSpec

-----------------------------------------------------------------------------
(* TrackFlags.  The variables of its part: s1 is flags, s2 due, s3 todo,     *)
(* s4 loaded, s5 commands, s6 marked, s7 lost.                               *)

\* Sequences of up to three statements.
LEMMA TwoOrThree ==
  ASSUME NEW S, NEW q \in Seq(S)
  PROVE  /\ Len(q) = 2 => q = <<q[1], q[2]>>
         /\ Len(q) = 3 => q = <<q[1], q[2], q[3]>>
OBVIOUS

\* Short lists of statements, put together.
LEMMA Joined ==
  ASSUME NEW S, NEW a \in S, NEW b \in S, NEW c \in S
  PROVE  /\ <<a>> \o <<b>> = <<a, b>> /\ <<a, b>> \o <<c>> = <<a, b, c>>
         /\ << >> \o <<a>> = <<a>> /\ <<a>> \o << >> = <<a>> /\ <<a, b>> \o << >> = <<a, b>>
<1>1. /\ <<a>> \in Seq(S) /\ <<b>> \in Seq(S) /\ <<c>> \in Seq(S)
      /\ <<a, b>> \in Seq(S) /\ <<a, b, c>> \in Seq(S)
  OBVIOUS
<1>2. <<a>> \o <<b>> = <<a, b>>
  <2>1. <<a>> \o <<b>> \in Seq(S) /\ Len(<<a>> \o <<b>>) = 2
    BY <1>1, ConcatProperties
  <2>2. (<<a>> \o <<b>>)[1] = a /\ (<<a>> \o <<b>>)[2] = b
    BY <1>1, ConcatProperties
  <2> QED
    BY <2>1, <2>2, TwoOrThree
<1>3. <<a, b>> \o <<c>> = <<a, b, c>>
  <2>1. <<a, b>> \o <<c>> \in Seq(S) /\ Len(<<a, b>> \o <<c>>) = 3
    BY <1>1, ConcatProperties
  <2>2. /\ (<<a, b>> \o <<c>>)[1] = a /\ (<<a, b>> \o <<c>>)[2] = b
        /\ (<<a, b>> \o <<c>>)[3] = c
    BY <1>1, ConcatProperties
  <2> QED
    BY <2>1, <2>2, TwoOrThree
<1> QED
  BY <1>1, <1>2, <1>3, ConcatEmptySeq

\* Each statement sets or clears flags.
LEMMA StatementsAreChanges ==
  /\ F!MarkPlayed \in F!Changes /\ F!MarkPaused \in F!Changes
  /\ F!MarkBookmarked \in F!Changes /\ F!MarkDownloading \in F!Changes
  /\ F!MarkCached \in F!Changes /\ F!Unplay \in F!Changes
  /\ F!UnplayUnpause \in F!Changes /\ F!Downloaded \in F!Changes
BY DEF F!MarkPlayed, F!MarkPaused, F!MarkBookmarked, F!MarkDownloading, F!MarkCached, F!Unplay,
   F!UnplayUnpause, F!Downloaded, F!Changes, F!Change, F!Flags

\* What main and player begin to do.
LEMMA StatementsDiffer ==
  /\ F!MarkPaused \notin {F!MarkPlayed, F!MarkBookmarked, F!MarkDownloading, F!Unplay}
  /\ F!MarkPlayed.add # {} /\ F!MarkDownloading.add # {} /\ F!MarkCached.add # {}
BY DEF F!MarkPlayed, F!MarkPaused, F!MarkBookmarked, F!MarkDownloading, F!MarkCached, F!Unplay,
   F!Change

\* What the main thread's commands begin with is one of the lists of statements it may have
\* left.
LEMMA Begins ==
  ASSUME NEW a \in BOOLEAN, NEW b \in BOOLEAN, NEW c \in BOOLEAN
  PROVE  /\ <<F!MarkPlayed>> \o F!If(a, F!MarkDownloading)
                \in F!TodoOfMain \ {<<F!MarkPaused>>}
         /\ <<F!Unplay>> \o F!If(a, F!MarkPaused) \in F!TodoOfMain \ {<<F!MarkPaused>>}
         /\ <<F!MarkBookmarked>> \in F!TodoOfMain \ {<<F!MarkPaused>>}
         /\ (a \/ b) /\ (c => b) =>
               F!If(a, F!UnplayUnpause) \o F!If(b, F!MarkPlayed) \o F!If(c, F!MarkDownloading)
                   \in F!TodoOfPlayer
<1>1. /\ <<F!MarkPlayed>> \o F!If(a, F!MarkDownloading) =
             IF a THEN <<F!MarkPlayed, F!MarkDownloading>> ELSE <<F!MarkPlayed>>
      /\ <<F!Unplay>> \o F!If(a, F!MarkPaused) =
             IF a THEN <<F!Unplay, F!MarkPaused>> ELSE <<F!Unplay>>
  BY StatementsAreChanges, Joined DEF F!If
<1>2. /\ (<<F!MarkPlayed>> \o F!If(a, F!MarkDownloading))[1] = F!MarkPlayed
      /\ (<<F!Unplay>> \o F!If(a, F!MarkPaused))[1] = F!Unplay
      /\ <<F!MarkBookmarked>>[1] = F!MarkBookmarked /\ <<F!MarkPaused>>[1] = F!MarkPaused
  BY <1>1
<1>3. ASSUME a \/ b, c => b
      PROVE  F!If(a, F!UnplayUnpause) \o F!If(b, F!MarkPlayed) \o F!If(c, F!MarkDownloading)
                 \in F!TodoOfPlayer
  <2> DEFINE e == F!UnplayUnpause
             p == F!MarkPlayed
             m == F!MarkDownloading
  <2>0. e \in F!Changes /\ p \in F!Changes /\ m \in F!Changes
    BY StatementsAreChanges
  <2> HIDE DEF e, p, m
  <2>1. /\ << >> \o <<p>> = <<p>> /\ <<e>> \o << >> = <<e>> /\ <<p>> \o << >> = <<p>>
        /\ <<e, p>> \o << >> = <<e, p>> /\ <<e>> \o <<p>> = <<e, p>>
        /\ <<p>> \o <<m>> = <<p, m>> /\ <<e, p>> \o <<m>> = <<e, p, m>>
    <3>1. /\ <<e>> \o <<p>> = <<e, p>> /\ <<e, p>> \o <<m>> = <<e, p, m>>
          /\ <<e>> \o << >> = <<e>> /\ <<e, p>> \o << >> = <<e, p>>
      BY <2>0, Joined
    <3>2. << >> \o <<p>> = <<p>> /\ <<p>> \o << >> = <<p>> /\ <<p>> \o <<m>> = <<p, m>>
      BY <2>0, Joined
    <3> QED
      BY <3>1, <3>2
  <2>2. /\ a => F!If(a, e) = <<e>>
        /\ ~a => F!If(a, e) = << >>
        /\ b => F!If(b, p) = <<p>>
        /\ ~b => F!If(b, p) = << >>
        /\ c => F!If(c, m) = <<m>>
        /\ ~c => F!If(c, m) = << >>
    BY DEF F!If
  <2>3. /\ <<e>> \in F!TodoOfPlayer /\ <<e, p>> \in F!TodoOfPlayer
        /\ <<e, p, m>> \in F!TodoOfPlayer /\ <<p>> \in F!TodoOfPlayer
        /\ <<p, m>> \in F!TodoOfPlayer
    BY DEF F!TodoOfPlayer, e, p, m
  <2>4. F!If(a, e) \o F!If(b, p) \o F!If(c, m) \in F!TodoOfPlayer
    <3>1. CASE a /\ b /\ c
      BY <2>1, <2>2, <2>3, <3>1
    <3>2. CASE a /\ b /\ ~c
      BY <2>1, <2>2, <2>3, <3>2
    <3>3. CASE a /\ ~b
      BY <1>3, <2>1, <2>2, <2>3, <3>3
    <3>4. CASE ~a /\ c
      BY <1>3, <2>1, <2>2, <2>3, <3>4
    <3>5. CASE ~a /\ ~c
      BY <1>3, <2>1, <2>2, <2>3, <3>5
    <3> QED
      BY <3>1, <3>2, <3>3, <3>4, <3>5
  <2> QED
    BY <2>4 DEF e, p, m
<1> QED
  BY <1>1, <1>2, <1>3, StatementsDiffer DEF F!TodoOfMain

\* What is left of it after a statement.
LEMMA Rests ==
  /\ \A q \in F!TodoOfMain \ {<< >>} :
        /\ Tail(q) \in F!TodoOfMain
        /\ q[1] \in {F!MarkPlayed, F!MarkDownloading, F!Unplay, F!MarkPaused, F!MarkBookmarked}
        /\ Tail(q) = <<F!MarkPaused>> => q[1] = F!Unplay
        /\ q[1] = F!MarkPaused => q = <<F!MarkPaused>>
  /\ \A q \in F!TodoOfPlayer \ {<< >>} :
        /\ Tail(q) \in F!TodoOfPlayer
        /\ q[1] \in {F!UnplayUnpause, F!MarkPlayed, F!MarkDownloading}
<1>1. ASSUME NEW a, NEW b, NEW c
      PROVE  /\ Tail(<<a>>) = << >> /\ Tail(<<a, b>>) = <<b>> /\ Tail(<<a, b, c>>) = <<b, c>>
             /\ <<a>>[1] = a /\ <<a, b>>[1] = a /\ <<a, b, c>>[1] = a
             /\ << >> # <<a>> /\ (<<a>> = <<b>> => a = b)
  OBVIOUS
<1>2. ASSUME NEW q \in F!TodoOfMain, q # << >>
      PROVE  /\ Tail(q) \in F!TodoOfMain
             /\ q[1] \in {F!MarkPlayed, F!MarkDownloading, F!Unplay, F!MarkPaused,
                          F!MarkBookmarked}
             /\ Tail(q) = <<F!MarkPaused>> => q[1] = F!Unplay
             /\ q[1] = F!MarkPaused => q = <<F!MarkPaused>>
  <2> DEFINE S == {F!MarkPlayed, F!MarkDownloading, F!Unplay, F!MarkPaused, F!MarkBookmarked}
  <2>1. ASSUME NEW a \in S, q = <<a>>
        PROVE  q[1] = a /\ Tail(q) = << >> /\ (a = F!MarkPaused => q = <<F!MarkPaused>>)
    BY <1>1, <2>1
  <2>2. ASSUME q = <<F!MarkPlayed, F!MarkDownloading>>
        PROVE  q[1] = F!MarkPlayed /\ Tail(q) = <<F!MarkDownloading>>
    BY <1>1, <2>2
  <2>3. ASSUME q = <<F!Unplay, F!MarkPaused>>
        PROVE  q[1] = F!Unplay /\ Tail(q) = <<F!MarkPaused>>
    BY <1>1, <2>3
  <2>4. << >> # <<F!MarkPaused>> /\ <<F!MarkDownloading>> # <<F!MarkPaused>>
    BY <1>1, StatementsDiffer
  <2>5. /\ << >> \in F!TodoOfMain /\ <<F!MarkDownloading>> \in F!TodoOfMain
        /\ <<F!MarkPaused>> \in F!TodoOfMain
    BY DEF F!TodoOfMain
  <2>6. CASE \E a \in S : q = <<a>>
    BY <2>1, <2>4, <2>5, <2>6
  <2>7. CASE q = <<F!MarkPlayed, F!MarkDownloading>>
    BY <2>2, <2>4, <2>5, <2>7, StatementsDiffer
  <2>8. CASE q = <<F!Unplay, F!MarkPaused>>
    BY <2>3, <2>5, <2>8, StatementsDiffer
  <2> QED
    BY <1>2, <2>6, <2>7, <2>8 DEF F!TodoOfMain
<1>3. ASSUME NEW q \in F!TodoOfPlayer, q # << >>
      PROVE  /\ Tail(q) \in F!TodoOfPlayer
             /\ q[1] \in {F!UnplayUnpause, F!MarkPlayed, F!MarkDownloading}
  <2>1. ASSUME NEW a \in {F!UnplayUnpause, F!MarkPlayed, F!MarkDownloading}, q = <<a>>
        PROVE  q[1] = a /\ Tail(q) = << >>
    BY <1>1, <2>1
  <2>2. ASSUME NEW a, NEW b, q = <<a, b>> PROVE q[1] = a /\ Tail(q) = <<b>>
    BY <1>1, <2>2
  <2>3. ASSUME NEW a, NEW b, NEW c, q = <<a, b, c>> PROVE q[1] = a /\ Tail(q) = <<b, c>>
    BY <1>1, <2>3
  <2>4. /\ << >> \in F!TodoOfPlayer /\ <<F!MarkPlayed>> \in F!TodoOfPlayer
        /\ <<F!MarkDownloading>> \in F!TodoOfPlayer
        /\ <<F!MarkPlayed, F!MarkDownloading>> \in F!TodoOfPlayer
    BY DEF F!TodoOfPlayer
  <2>5. CASE \E a \in {F!UnplayUnpause, F!MarkPlayed, F!MarkDownloading} : q = <<a>>
    BY <2>1, <2>4, <2>5
  <2>6. CASE q = <<F!UnplayUnpause, F!MarkPlayed>> \/ q = <<F!MarkPlayed, F!MarkDownloading>>
    BY <2>2, <2>4, <2>6
  <2>7. CASE q = <<F!UnplayUnpause, F!MarkPlayed, F!MarkDownloading>>
    BY <2>3, <2>4, <2>7
  <2> QED
    BY <1>3, <2>5, <2>6, <2>7 DEF F!TodoOfPlayer
<1> QED
  BY <1>2, <1>3

\* The lists of statements consist of changes.
LEMMA TodosAreChanges ==
  F!TodoOfMain \subseteq Seq(F!Changes) /\ F!TodoOfPlayer \subseteq Seq(F!Changes)
BY StatementsAreChanges DEF F!TodoOfMain, F!TodoOfPlayer

\* track.h: every variable of TrackFlags keeps to its type.
LEMMA FlagTypes == F!TypeInvariant /\ [F!Next]_(F!vars) => F!TypeInvariant'
<1> SUFFICES ASSUME F!TypeInvariant, [F!Next]_(F!vars) PROVE F!TypeInvariant'
  OBVIOUS
<1> USE DEF F!TypeInvariant
<1>1. MaxCommands \in Nat
  BY PartsAssumption DEF F!MaxCommandsAssumption
<1>2. ASSUME NEW t \in F!Threads, NEW q \in Seq(F!Changes), F!Begin(t, q)
      PROVE  F!TypeInvariant'
  <2>1. UNCHANGED <<s1, s2, s4, s6, s7>> /\ s5' \in 0..MaxCommands
    BY <1>1, <1>2 DEF F!Begin
  <2>2. s3' \in [F!Threads -> Seq(F!Changes)]
    BY <1>2 DEF F!Begin
  <2>3. ASSUME NEW u \in F!Threads, s4[u] # F!Unread
        PROVE  s4[u] \subseteq F!Flags /\ s3'[u] # << >>
    BY <1>2, <2>3 DEF F!Begin
  <2> QED
    BY <2>1, <2>2, <2>3
<1>3. ASSUME NEW t \in F!Threads, F!Load(t) PROVE F!TypeInvariant'
  <2>1. UNCHANGED <<s1, s2, s3, s5, s6, s7>> /\ s4' = [s4 EXCEPT ![t] = s1] /\ s3[t] # << >>
    BY <1>3 DEF F!Load
  <2> QED
    BY <2>1
<1>4. ASSUME NEW t \in F!Threads, F!Store(t) PROVE F!TypeInvariant'
  <2> DEFINE c == s3[t][1]
  <2>1. c \in F!Changes /\ c.add \subseteq F!Flags /\ s3[t] # << >> /\ s4[t] \subseteq F!Flags
    <3>1. s3[t] \in Seq(F!Changes) /\ s3[t] # << >> /\ s4[t] \subseteq F!Flags
      BY <1>4 DEF F!Store
    <3>2. c \in F!Changes
      BY <3>1
    <3> QED
      BY <3>1, <3>2 DEF F!Changes
  <2>2. s1' \subseteq F!Flags /\ s2' \subseteq F!Flags /\ s5' = s5
    BY <1>4, <2>1 DEF F!Store, F!Apply
  <2>3. s6' \in BOOLEAN /\ s7' \in BOOLEAN
    BY <1>4 DEF F!Store
  <2>4. /\ s4' = [s4 EXCEPT ![t] = F!Unread]
        /\ s3' = [u \in F!Threads |->
                    IF u = t THEN Tail(s3[t])
                    ELSE IF u = "worker" /\ "downloading" \in c.add
                         THEN s3[u] \o <<F!MarkCached, F!Downloaded>> ELSE s3[u]]
    BY <1>4 DEF F!Store
  <2> HIDE DEF c
  <2>5. ASSUME NEW u \in F!Threads
        PROVE  /\ s3'[u] \in Seq(F!Changes)
               /\ u # t /\ s3[u] # << >> => s3'[u] # << >>
    <3>1. Tail(s3[t]) \in Seq(F!Changes)
      BY <2>1
    <3>2. /\ s3[u] \o <<F!MarkCached, F!Downloaded>> \in Seq(F!Changes)
          /\ s3[u] \o <<F!MarkCached, F!Downloaded>> # << >>
      <4>1. s3[u] \in Seq(F!Changes) /\ <<F!MarkCached, F!Downloaded>> \in Seq(F!Changes)
        BY StatementsAreChanges
      <4>2. <<F!MarkCached, F!Downloaded>> # << >>
        OBVIOUS
      <4> HIDE DEF F!TypeInvariant
      <4> QED
        BY <4>1, <4>2, ConcatProperties, ConcatSimplifications
    <3> QED
      BY <2>4, <3>1, <3>2
  <2>6. s3' \in [F!Threads -> Seq(F!Changes)]
    BY <2>4, <2>5
  <2>7. /\ DOMAIN s4' = F!Threads
        /\ \A u \in F!Threads : s4'[u] = IF u = t THEN F!Unread ELSE s4[u]
    BY <2>4
  <2> QED
    BY <2>2, <2>3, <2>5, <2>6, <2>7
<1>5. CASE UNCHANGED F!vars
  BY <1>5 DEF F!vars
<1>6. ASSUME NEW b \in BOOLEAN, F!Play(b) \/ F!Pause(b) \/ F!Bookmark
      PROVE  \E q \in F!TodoOfMain : F!Begin("main", q)
  BY <1>6, Begins DEF F!Play, F!Pause, F!Bookmark
<1>7. ASSUME NEW e \in BOOLEAN, NEW n \in BOOLEAN, NEW q \in BOOLEAN, F!EndOfTrack(e, n, q)
      PROVE  \E todo \in F!TodoOfPlayer : F!Begin("player", todo)
  BY <1>7, Begins DEF F!EndOfTrack
<1> HIDE DEF F!TypeInvariant
<1>8. "main" \in F!Threads /\ "player" \in F!Threads
  BY DEF F!Threads
<1> QED
  BY <1>2, <1>3, <1>4, <1>5, <1>6, <1>7, <1>8, TodosAreChanges DEF F!Next

\* What a statement makes of a byte that does not have both marks.
LEMMA Applied ==
  ASSUME NEW f \in SUBSET F!Flags
  PROVE  /\ ~F!Both(F!Apply(F!MarkPlayed, f)) /\ ~F!Both(F!Apply(F!UnplayUnpause, f))
         /\ ~F!Both(F!Apply(F!Unplay, f))
         /\ "playing" \notin F!Apply(F!Unplay, f) \cup F!Apply(F!UnplayUnpause, f)
         /\ ~F!Both(f) => /\ ~F!Both(F!Apply(F!MarkDownloading, f))
                          /\ ~F!Both(F!Apply(F!MarkBookmarked, f))
         /\ "playing" \notin f => ~F!Both(F!Apply(F!MarkPaused, f))
         /\ "playing" \notin F!Unread /\ ~F!Both(F!Unread)
BY DEF F!Both, F!Apply, F!MarkPlayed, F!UnplayUnpause, F!Unplay, F!MarkDownloading,
   F!MarkBookmarked, F!MarkPaused, F!Change, F!Unread

\* commands/global.c, sound.c, downloader.c: until a thread other than main has set a flag,
\* no step leaves a track both played and paused.
LEMMA FlagsKeptByPlays ==
  ASSUME F!TypeInvariant, F!PausesUnplayed, [F!Next]_(F!vars)
  PROVE  F!PausesUnplayed'
<1>1. /\ s3["main"] \in F!TodoOfMain /\ s3["player"] \in F!TodoOfPlayer
      /\ s3["worker"] \in Seq(F!Changes) /\ s1 \subseteq F!Flags
      /\ "main" \in F!Threads /\ "player" \in F!Threads /\ "worker" \in F!Threads
      /\ \A t \in F!Threads : s4[t] = F!Unread \/ (s4[t] \subseteq F!Flags /\ s3[t] # << >>)
      /\ DOMAIN s4 = F!Threads /\ DOMAIN s3 = F!Threads
  BY DEF F!TypeInvariant, F!PausesUnplayed, F!Threads
<1>2. ~s6 => /\ ~F!Both(s1) /\ ~F!Both(s4["main"])
             /\ s3["main"] = <<F!MarkPaused>> => "playing" \notin s1 \cup s4["main"]
             /\ s3["worker"] = << >> \/ s3["worker"][1] = F!MarkCached
  BY DEF F!PausesUnplayed
<1>3. ASSUME NEW q \in F!TodoOfMain \ {<<F!MarkPaused>>}, F!Begin("main", q)
      PROVE  F!PausesUnplayed'
  <2>1. /\ UNCHANGED <<s1, s4, s6>> /\ s3'["main"] = q
        /\ s3'["player"] = s3["player"] /\ s3'["worker"] = s3["worker"]
    BY <1>1, <1>3 DEF F!Begin
  <2> QED
    BY <1>1, <1>2, <1>3, <2>1 DEF F!PausesUnplayed
<1>4. ASSUME NEW q \in F!TodoOfPlayer, F!Begin("player", q) PROVE F!PausesUnplayed'
  <2>1. /\ UNCHANGED <<s1, s4, s6>> /\ s3'["player"] = q
        /\ s3'["main"] = s3["main"] /\ s3'["worker"] = s3["worker"]
    BY <1>1, <1>4 DEF F!Begin
  <2> QED
    BY <1>1, <1>2, <2>1 DEF F!PausesUnplayed
<1>5. ASSUME NEW t \in F!Threads, F!Load(t) PROVE F!PausesUnplayed'
  <2>1. /\ UNCHANGED <<s1, s3, s6>>
        /\ s4'["main"] = IF t = "main" THEN s1 ELSE s4["main"]
    BY <1>1, <1>5 DEF F!Load
  <2> QED
    BY <1>1, <1>2, <2>1 DEF F!PausesUnplayed
\* What every write does.
<1>6. ASSUME NEW t \in F!Threads, F!Store(t)
      PROVE  /\ s3[t] # << >> /\ s4[t] \subseteq F!Flags
             /\ s1' = F!Apply(s3[t][1], s4[t])
             /\ s4'[t] = F!Unread /\ (t # "main" => s4'["main"] = s4["main"])
             /\ s6' = (s6 \/ (t # "main" /\ s3[t][1].add # {}))
             /\ s3'[t] = Tail(s3[t])
             /\ t # "main" => s3'["main"] = s3["main"]
             /\ t # "player" => s3'["player"] = s3["player"]
             /\ t # "worker" =>
                   s3'["worker"] \in {s3["worker"],
                                      s3["worker"] \o <<F!MarkCached, F!Downloaded>>}
  <2>1. s3[t] # << >> /\ s4[t] \subseteq F!Flags
    BY <1>1, <1>6 DEF F!Store
  <2>2. /\ s1' = F!Apply(s3[t][1], s4[t]) /\ s4' = [s4 EXCEPT ![t] = F!Unread]
        /\ s6' = (s6 \/ (t # "main" /\ s3[t][1].add # {}))
    BY <1>6 DEF F!Store
  <2>3. s3' = [u \in F!Threads |->
                 IF u = t THEN Tail(s3[t])
                 ELSE IF u = "worker" /\ "downloading" \in s3[t][1].add
                      THEN s3[u] \o <<F!MarkCached, F!Downloaded>> ELSE s3[u]]
    BY <1>6 DEF F!Store
  <2> QED
    BY <1>1, <2>1, <2>2, <2>3
\* A download that is marked puts its own statements behind.
<1>7. LET q == s3["worker"] \o <<F!MarkCached, F!Downloaded>>
      IN  s3["worker"] = << >> \/ s3["worker"][1] = F!MarkCached => q[1] = F!MarkCached
  <2>1. <<F!MarkCached, F!Downloaded>> \in Seq(F!Changes)
    BY StatementsAreChanges
  <2>2. CASE s3["worker"] = << >>
    <3>1. s3["worker"] \o <<F!MarkCached, F!Downloaded>> = <<F!MarkCached, F!Downloaded>>
      BY <2>1, <2>2, ConcatEmptySeq
    <3> QED
      BY <3>1
  <2>3. CASE s3["worker"] # << >>
    <3>1. Len(s3["worker"]) \in Nat \ {0} /\ Len(<<F!MarkCached, F!Downloaded>>) = 2
      BY <1>1, <2>3, EmptySeq
    <3>2. (s3["worker"] \o <<F!MarkCached, F!Downloaded>>)[1] = s3["worker"][1]
      BY <1>1, <2>1, <3>1, ConcatProperties
    <3> QED
      BY <2>3, <3>2
  <2> QED
    BY <2>2, <2>3
<1>8. ASSUME F!Store("main") PROVE F!PausesUnplayed'
  <2>1. /\ s3["main"] \in F!TodoOfMain \ {<< >>}
        /\ Tail(s3["main"]) \in F!TodoOfMain
        /\ s3["main"][1] \in {F!MarkPlayed, F!MarkDownloading, F!Unplay, F!MarkPaused,
                              F!MarkBookmarked}
        /\ Tail(s3["main"]) = <<F!MarkPaused>> => s3["main"][1] = F!Unplay
        /\ s3["main"][1] = F!MarkPaused => s3["main"] = <<F!MarkPaused>>
    BY <1>1, <1>6, <1>8, Rests
  <2>2. /\ ~s6' => ~s6
        /\ s4'["main"] = F!Unread /\ s3'["main"] = Tail(s3["main"])
        /\ s3'["player"] = s3["player"] /\ s1' = F!Apply(s3["main"][1], s4["main"])
        /\ s4["main"] \subseteq F!Flags
    BY <1>1, <1>6, <1>8
  <2>3. ~s6 => /\ ~F!Both(s1')
               /\ s3["main"][1] = F!Unplay => "playing" \notin s1'
    BY <1>2, <2>1, <2>2, Applied
  <2>4. ~s6 => s3'["worker"] = << >> \/ s3'["worker"][1] = F!MarkCached
    BY <1>1, <1>2, <1>6, <1>7, <1>8
  <2>5. ~F!Both(F!Unread) /\ "playing" \notin F!Unread
    BY <2>2, Applied
  <2> QED
    BY <1>1, <2>1, <2>2, <2>3, <2>4, <2>5 DEF F!PausesUnplayed
<1>9. ASSUME F!Store("player") PROVE F!PausesUnplayed'
  <2>1. /\ s3["player"] \in F!TodoOfPlayer \ {<< >>}
        /\ Tail(s3["player"]) \in F!TodoOfPlayer
        /\ s3["player"][1] \in {F!UnplayUnpause, F!MarkPlayed, F!MarkDownloading}
    BY <1>1, <1>6, <1>9, Rests
  <2>2. /\ s6' = (s6 \/ s3["player"][1].add # {}) /\ s4'["main"] = s4["main"]
        /\ s3'["player"] = Tail(s3["player"]) /\ s3'["main"] = s3["main"]
        /\ s1' = F!Apply(s3["player"][1], s4["player"]) /\ s4["player"] \subseteq F!Flags
    BY <1>1, <1>6, <1>9
  <2>3. ~s6' => ~s6 /\ s3["player"][1] = F!UnplayUnpause
    BY <2>1, <2>2, StatementsDiffer
  <2>4. ~s6' => ~F!Both(s1') /\ "playing" \notin s1'
    BY <2>2, <2>3, Applied
  <2>5. ~s6' => s3'["worker"] = << >> \/ s3'["worker"][1] = F!MarkCached
    BY <1>1, <1>2, <1>6, <1>7, <1>9, <2>3
  <2> QED
    BY <1>1, <1>2, <2>1, <2>2, <2>3, <2>4, <2>5 DEF F!PausesUnplayed
<1>10. ASSUME F!Store("worker") PROVE F!PausesUnplayed'
  <2>1. /\ s3'["main"] = s3["main"] /\ s3'["player"] = s3["player"]
        /\ s6' = (s6 \/ s3["worker"][1].add # {}) /\ s3["worker"] # << >>
    BY <1>1, <1>6, <1>10
  <2>2. s6'
    BY <1>2, <2>1, StatementsDiffer
  <2> QED
    BY <1>1, <2>1, <2>2 DEF F!PausesUnplayed
<1>11. CASE UNCHANGED F!vars
  BY <1>11 DEF F!vars, F!PausesUnplayed
<1>12. ASSUME NEW b \in BOOLEAN, F!Play(b) \/ F!Pause(b) \/ F!Bookmark
       PROVE  F!PausesUnplayed'
  BY <1>3, <1>12, Begins DEF F!Play, F!Pause, F!Bookmark
<1>13. ASSUME NEW e \in BOOLEAN, NEW n \in BOOLEAN, NEW q \in BOOLEAN, F!EndOfTrack(e, n, q)
       PROVE  F!PausesUnplayed'
  BY <1>4, <1>13, Begins DEF F!EndOfTrack
<1>14. ASSUME NEW t \in F!Threads, F!Store(t) PROVE F!PausesUnplayed'
  BY <1>8, <1>9, <1>10, <1>14 DEF F!Threads
<1> QED
  BY <1>5, <1>11, <1>12, <1>13, <1>14 DEF F!Next

\* track.h: in the beginning no flag is set.
LEMMA FlagsFirst == F!Init => F!TypeInvariant /\ F!PausesUnplayed /\ F!FlagsAreDue
<1> SUFFICES ASSUME F!Init PROVE F!TypeInvariant /\ F!PausesUnplayed /\ F!FlagsAreDue
  OBVIOUS
<1>1. F!TypeInvariant
  <2>1. s1 \subseteq F!Flags /\ s2 \subseteq F!Flags /\ s5 \in 0..MaxCommands
    BY PartsAssumption DEF F!Init, F!MaxCommandsAssumption
  <2>2. s6 \in BOOLEAN /\ s7 \in BOOLEAN
    BY DEF F!Init
  <2>3. /\ s3 \in [F!Threads -> Seq(F!Changes)] /\ DOMAIN s4 = F!Threads
        /\ \A t \in F!Threads : s4[t] = F!Unread
    BY DEF F!Init
  <2> QED
    BY <2>1, <2>2, <2>3 DEF F!TypeInvariant
<1>2. F!PausesUnplayed
  <2>1. ~F!Both({}) /\ ~F!Both(F!Unread)
    BY DEF F!Both, F!Unread
  <2>2. /\ s3["main"] = << >> /\ s3["player"] = << >> /\ s3["worker"] = << >>
        /\ s4["main"] = F!Unread /\ s1 = {}
    BY DEF F!Init, F!Threads
  <2>3. << >> # <<F!MarkPaused>>
    OBVIOUS
  <2> QED
    BY <2>1, <2>2, <2>3 DEF F!PausesUnplayed, F!TodoOfMain, F!TodoOfPlayer
<1> QED
  BY <1>1, <1>2 DEF F!Init, F!FlagsAreDue

\* track.h: for any number of commands and ends of tracks, whatever byte a thread has read
\* before another changed it, a track is never marked both as played and as paused, until
\* the play thread goes on with the track or a worker writes; and all flags are due unless a
\* statement came in between the read and the write of another.
THEOREM FlagsAreKept == PartsSpec => []FlagsKept
<1> DEFINE I == part = "flags" => F!TypeInvariant /\ F!PausesUnplayed /\ F!FlagsAreDue
<1>1. PartsInit => I
  BY FlagsFirst DEF PartsInit
<1>2. I /\ [PartsNext]_partvars => I'
  <2>1. ASSUME F!FlagsAreDue, [F!Next]_(F!vars) PROVE F!FlagsAreDue'
    <3>1. ASSUME NEW t \in F!Threads, F!Store(t) PROVE F!FlagsAreDue'
      <4>1. /\ s1' = F!Apply(s3[t][1], s4[t]) /\ s2' = F!Apply(s3[t][1], s2)
            /\ ~s7' => ~s7 /\ s4[t] = s1
        BY <3>1 DEF F!Store
      <4> QED
        BY <2>1, <4>1 DEF F!FlagsAreDue
    <3>2. CASE UNCHANGED <<s1, s2, s7>>
      BY <2>1, <3>2 DEF F!FlagsAreDue
    <3> QED
      BY <2>1, <3>1, <3>2 DEF F!Next, F!vars, F!Play, F!Pause, F!Bookmark, F!EndOfTrack,
         F!Begin, F!Load
  <2> QED
    BY <2>1, StepsOfParts, FlagTypes, FlagsKeptByPlays DEF OfItsPart
<1>3. I => FlagsKept
  BY DEF FlagsKept, F!PausesUnplayed, F!PlayedOrPaused, F!Both
<1> QED
  BY <1>1, <1>2, <1>3, PTL DEF PartsSpec

-----------------------------------------------------------------------------
(* Textbox: every setter draws what it has set. *)

\* The properties of the box, and that what is drawn is a record.
BoxInv ==
    /\ X!ScreenShowsState /\ X!OpensAtTop /\ X!SavedIsUsed
    /\ DOMAIN s7 = {"items", "selected", "pos"}

\* commands/textbox.c, tui.c: each step keeps the invariant of the text box.
LEMMA BoxPreserved == BoxInv /\ [X!Next]_(X!vars) => BoxInv'
<1> SUFFICES ASSUME BoxInv, [X!Next]_(X!vars) PROVE BoxInv'
  OBVIOUS
<1> USE DEF BoxInv, X!ScreenShowsState, X!OpensAtTop, X!SavedIsUsed, X!NewWindows, X!Redraw,
        X!RedrawItems, X!config
<1>1. CASE X!Help
  BY <1>1 DEF X!Help
<1>2. CASE X!Details
  BY <1>2 DEF X!Details
<1>3. ASSUME NEW f, X!Subscriptions(f) PROVE BoxInv'
  BY <1>3 DEF X!Subscriptions
<1>4. CASE X!Close
  BY <1>4 DEF X!Close, X!Nothing
<1>5. ASSUME NEW p \in 0..MaxPos, X!Scroll(p) PROVE BoxInv'
  BY <1>5 DEF X!Scroll
<1>6. ASSUME NEW delta \in {-1, 1}, X!GotoItem(delta) PROVE BoxInv'
  BY <1>6 DEF X!GotoItem
<1>7. CASE X!Toggle
  BY <1>7 DEF X!Toggle, X!Save, X!SaveFails
<1>8. ASSUME NEW d \in 0..9, X!Digit(d) PROVE BoxInv'
  BY <1>8 DEF X!Digit, X!vars, X!box, X!window
<1>9. CASE X!Restart
  BY <1>9 DEF X!Restart, X!Nothing
<1>10. CASE UNCHANGED X!vars
  BY <1>10 DEF X!vars, X!box, X!window
<1> QED
  BY <1>1, <1>2, <1>3, <1>4, <1>5, <1>6, <1>7, <1>8, <1>9, <1>10 DEF X!Next

\* tui.c, commands/textbox.c, config.c: for any number of users, items, URLs and scrolled
\* lines the box on the screen is that of the state and opens at its top, and the file holds
\* the subscriptions in use, but for a write that failed or was cut short.
THEOREM BoxIsShown == PartsSpec => []BoxKept
<1> DEFINE I == part = "textbox" => BoxInv
<1>1. PartsInit => I
  BY DEF PartsInit, X!Init, X!Nothing, BoxInv, X!ScreenShowsState, X!OpensAtTop, X!SavedIsUsed
<1>2. I /\ [PartsNext]_partvars => I'
  BY StepsOfParts, BoxPreserved DEF OfItsPart
<1>3. I => BoxKept
  BY DEF BoxInv, BoxKept
<1> QED
  BY <1>1, <1>2, <1>3, PTL DEF PartsSpec

-----------------------------------------------------------------------------
(* Keys: a line of the configuration stays behind what it has put into the   *)
(* table, and what was run is what the table then has for good.              *)

\* A set of numbers that is not empty has a least one.
LEMMA LeastNatural ==
  ASSUME NEW N, N \subseteq Nat, N # {}
  PROVE  \E x \in N : \A y \in N : x <= y
<1> DEFINE Less == OpToRel(<, Nat)
<1>1. IsWellFoundedOn(Less, Nat)
  BY NatLessThanWellFounded, Zenon
<1>2. \A x, y \in Nat : x < y => <<x, y>> \in Less
  BY DEF OpToRel
<1> HIDE DEF Less
<1>3. PICK x \in N : \A y \in N : ~ (<<y, x>> \in Less)
  BY <1>1, WFMin
<1>4. ASSUME NEW y \in N PROVE x <= y
  <2>1. x \in Nat /\ y \in Nat
    OBVIOUS
  <2>2. ~ (y < x)
    BY <1>2, <1>3, <2>1, Zenon
  <2> QED
    BY <2>1, <2>2
<1> QED
  BY <1>3, <1>4

\* The commands a word finds.
Hits(word, scope) ==
    {c \in DOMAIN Commands : /\ Commands[c].valid_scope \in {scope, "global"}
                             /\ K!IsPrefix(Commands[c].name, word)}

\* command.c: what the search finds is a command of the scope whose name begins the word.
LEMMA SearchHits ==
  ASSUME NEW word, NEW scope, K!Search(word, scope) # 0
  PROVE  K!Search(word, scope) \in Hits(word, scope)
<1> DEFINE H == Hits(word, scope)
<1>1. K!Search(word, scope) = IF H = {} THEN 0 ELSE K!Min(H)
  BY DEF K!Search, Hits
<1>2. H \subseteq Nat
  <2>1. Commands \in Seq([name : Seq(STRING) \ {<< >>}, valid_scope : K!Scopes])
    BY PartsAssumption DEF K!TableAssumption
  <2>2. DOMAIN Commands \subseteq Nat
    BY <2>1
  <2> QED
    BY <2>2 DEF Hits
<1> HIDE DEF H
<1>3. H # {}
  BY <1>1
<1>4. \E x \in H : \A y \in H : x <= y
  BY <1>2, <1>3, LeastNatural
<1>5. K!Min(H) \in H
  BY <1>4 DEF K!Min
<1> QED
  BY <1>1, <1>3, <1>5 DEF H

\* A word is the name of the command it finds and what is behind it.
LEMMA NameAndParam ==
  ASSUME NEW word \in Seq(STRING), NEW scope, NEW c \in Hits(word, scope)
  PROVE  /\ c # 0 /\ word # << >>
         /\ Commands[c].name \o SubSeq(word, Len(Commands[c].name) + 1, Len(word)) = word
<1> DEFINE name == Commands[c].name
<1>1. c \in DOMAIN Commands /\ K!IsPrefix(name, word)
  BY DEF Hits
<1>2. Commands \in Seq([name : Seq(STRING) \ {<< >>}, valid_scope : K!Scopes])
  BY PartsAssumption DEF K!TableAssumption
<1>3. c # 0 /\ Commands[c] \in [name : Seq(STRING) \ {<< >>}, valid_scope : K!Scopes]
  <2> DEFINE Command == [name : Seq(STRING) \ {<< >>}, valid_scope : K!Scopes]
  <2>1. Commands \in Seq(Command)
    BY <1>2
  <2> HIDE DEF Command
  <2>2. c \in 1..Len(Commands)
    BY <1>1, <2>1
  <2>3. Commands[c] \in Command
    BY <2>1, <2>2, ElementOfSeq
  <2>4. c # 0
    BY <2>2
  <2> QED
    BY <2>3, <2>4 DEF Command
<1>4. name \in Seq(STRING) /\ name # << >>
  BY <1>3
<1> HIDE DEF name
<1>5. Len(name) <= Len(word) /\ SubSeq(name, 1, Len(name)) = SubSeq(word, 1, Len(name))
  BY <1>1 DEF K!IsPrefix
<1>6. Len(name) \in Nat /\ Len(name) > 0 /\ Len(word) \in Nat
  BY <1>4
<1>7. SubSeq(name, 1, Len(name)) = name /\ SubSeq(word, 1, Len(word)) = word
  BY <1>4, SubSeqFull
<1>8. SubSeq(word, 1, Len(name)) \o SubSeq(word, Len(name) + 1, Len(word))
        = SubSeq(word, 1, Len(word))
  <2> DEFINE n == Len(name)
  <2>1. 1 \in 1..Len(word) + 1 /\ n \in 1 - 1..Len(word) /\ Len(word) \in n..Len(word)
    BY <1>5, <1>6
  <2> HIDE DEF n
  <2>2. SubSeq(word, 1, n) \o SubSeq(word, n + 1, Len(word)) = SubSeq(word, 1, Len(word))
    BY <2>1, ConcatAdjacentSubSeq
  <2> QED
    BY <2>2 DEF n
<1>9. word # << >>
  BY <1>5, <1>6
<1> QED
  BY <1>3, <1>5, <1>7, <1>8, <1>9 DEF name

\* An entry of the table is that of the last line for its scope and key that was not left
\* out, or there was none.
OfLine(scope, run, word) ==
    \/ run = K!None /\ word = << >>
    \/ /\ word \in Words /\ run.command \in Hits(word, scope)
       /\ run.param = SubSeq(word, Len(Commands[run.command].name) + 1, Len(word))

KeysInv ==
    /\ DOMAIN s2 = K!Scopes /\ DOMAIN s5 = K!Scopes
    /\ \A s \in K!Scopes : DOMAIN s2[s] = Keys /\ DOMAIN s5[s] = Keys
    /\ \A s \in K!Scopes : \A k \in Keys : OfLine(s, s2[s][k], s5[s][k])
    /\ s6 \in {"playlist", "textbox"}
    /\ s7.run.command # 0 => /\ s1 # "read" /\ s7.scope \in K!Scopes /\ s7.key \in Keys
                             /\ s7.run = K!Get(s7.scope, s7.key)

\* There is a command exactly where there was a line.
LEMMA CommandOfLine ==
  ASSUME NEW scope, NEW run, NEW word, OfLine(scope, run, word)
  PROVE  run.command # 0 <=> word # << >>
<1>1. CASE run = K!None /\ word = << >>
  BY <1>1 DEF K!None
<1>2. CASE word \in Words /\ run.command \in Hits(word, scope)
  <2>1. word \in Seq(STRING)
    BY <1>2, PartsAssumption DEF K!TableAssumption
  <2> QED
    BY <1>2, <2>1, NameAndParam
<1> QED
  BY <1>1, <1>2 DEF OfLine

\* config.c, command.c: each step keeps the invariant of the keys.
LEMMA KeysPreserved == KeysInv /\ [K!Next]_(K!vars) => KeysInv'
<1> SUFFICES ASSUME KeysInv, [K!Next]_(K!vars) PROVE KeysInv'
  OBVIOUS
<1>1. ASSUME NEW scope, NEW key, NEW word \in Words, K!Map(scope, key, word) PROVE KeysInv'
  <2> DEFINE c == IF scope \in K!Scopes /\ key \in Keys THEN K!Search(word, scope) ELSE 0
             entry == [command |-> c,
                       param |-> SubSeq(word, Len(Commands[c].name) + 1, Len(word))]
  <2>1. s1 = "read" /\ UNCHANGED <<s1, s6, s7>>
    BY <1>1 DEF K!Map
  <2>2. s7'.run.command = 0 /\ s6' \in {"playlist", "textbox"}
    BY <2>1 DEF KeysInv
  <2>3. CASE c = 0
    <3>1. s2' = s2 /\ s5' = s5
      BY <1>1, <2>3 DEF K!Map
    <3> QED
      BY <2>2, <3>1 DEF KeysInv
  <2>4. CASE c # 0
    <3>1. s2' = [s2 EXCEPT ![scope][key] = entry] /\ s5' = [s5 EXCEPT ![scope][key] = word]
      BY <1>1, <2>4 DEF K!Map
    <3>2. OfLine(scope, entry, word)
      <4>1. c \in Hits(word, scope)
        BY <2>4, SearchHits
      <4> QED
        BY <4>1 DEF OfLine
    <3> HIDE DEF entry, c
    <3>3. /\ DOMAIN s2' = K!Scopes /\ DOMAIN s5' = K!Scopes
          /\ \A s \in K!Scopes : DOMAIN s2'[s] = Keys /\ DOMAIN s5'[s] = Keys
      BY <3>1 DEF KeysInv
    <3>4. ASSUME NEW s \in K!Scopes, NEW k \in Keys PROVE OfLine(s, s2'[s][k], s5'[s][k])
      <4>1. CASE s = scope /\ k = key
        <5>1. s2'[s][k] = entry /\ s5'[s][k] = word
          BY <3>1, <4>1 DEF KeysInv
        <5> QED
          BY <3>2, <4>1, <5>1
      <4>2. CASE ~ (s = scope /\ k = key)
        <5>1. s2'[s][k] = s2[s][k] /\ s5'[s][k] = s5[s][k]
          BY <3>1, <4>2 DEF KeysInv
        <5> QED
          BY <5>1 DEF KeysInv
      <4> QED
        BY <4>1, <4>2
    <3> QED
      BY <2>2, <3>3, <3>4 DEF KeysInv
  <2> QED
    BY <2>3, <2>4
<1>2. CASE K!Start
  BY <1>2 DEF K!Start, KeysInv, K!Get
<1>3. CASE K!NoFile
  BY <1>3 DEF K!NoFile, KeysInv, K!Get
<1>4. ASSUME NEW key \in Keys, K!Press(key) PROVE KeysInv'
  <2>1. /\ s1 = "run" /\ UNCHANGED <<s1, s2, s5>>
        /\ s7' = [run |-> K!Get(s6, key), scope |-> s6, key |-> key]
    BY <1>4 DEF K!Press
  <2>2. s6' \in {"playlist", "textbox"} /\ s6 \in K!Scopes
    BY <1>4 DEF K!Press, KeysInv, K!Scopes
  <2>3. s7'.run = K!Get(s7.scope, s7.key)' /\ s7'.scope = s6 /\ s7'.key = key
    BY <2>1 DEF K!Get
  <2> QED
    BY <2>1, <2>2, <2>3 DEF KeysInv
<1>5. CASE UNCHANGED K!vars
  BY <1>5 DEF K!vars, KeysInv, K!Get
<1> QED
  BY <1>1, <1>2, <1>3, <1>4, <1>5 DEF K!Next

\* main.c: no key has a command in the beginning.
LEMMA KeysFirst == K!Init => KeysInv
<1> SUFFICES ASSUME K!Init PROVE KeysInv
  OBVIOUS
<1>1. \A s \in K!Scopes : \A k \in Keys : s2[s][k] = K!None /\ s5[s][k] = << >>
  BY DEF K!Init
<1>2. \A s \in K!Scopes : \A k \in Keys : OfLine(s, s2[s][k], s5[s][k])
  BY <1>1 DEF OfLine
<1>3. s7.run.command = 0 /\ s6 = "playlist"
  BY DEF K!Init, K!None
<1>4. /\ DOMAIN s2 = K!Scopes /\ DOMAIN s5 = K!Scopes
      /\ \A s \in K!Scopes : DOMAIN s2[s] = Keys /\ DOMAIN s5[s] = Keys
  BY DEF K!Init
<1> QED
  BY <1>2, <1>3, <1>4 DEF KeysInv

\* What was run is the entry of the line the pressed key goes back to.
LEMMA RunIsOfLine ==
  ASSUME KeysInv, s7.run.command # 0
  PROVE  /\ K!Line.scope \in {s7.scope, "global"}
         /\ K!Line.word \in Words /\ s7.run.command \in Hits(K!Line.word, K!Line.scope)
         /\ s7.run.param = SubSeq(K!Line.word, Len(Commands[s7.run.command].name) + 1,
                                  Len(K!Line.word))
<1>1. /\ s7.scope \in K!Scopes /\ s7.key \in Keys /\ "global" \in K!Scopes
      /\ s7.run = K!Get(s7.scope, s7.key)
  BY DEF KeysInv, K!Scopes
<1>2. \A s \in K!Scopes : /\ OfLine(s, s2[s][s7.key], s5[s][s7.key])
                          /\ s2[s][s7.key].command # 0 <=> s5[s][s7.key] # << >>
  BY <1>1, CommandOfLine DEF KeysInv
<1> DEFINE scope == IF s5[s7.scope][s7.key] # << >> THEN s7.scope ELSE "global"
<1>3. s7.run = s2[scope][s7.key]
  BY <1>1, <1>2 DEF K!Get
<1>4. K!Line.scope = scope /\ K!Line.word = s5[scope][s7.key]
  BY DEF K!Line
<1>5. scope \in K!Scopes /\ scope \in {s7.scope, "global"}
  BY <1>1
<1> HIDE DEF scope
<1>6. OfLine(scope, s7.run, K!Line.word)
  BY <1>2, <1>3, <1>4, <1>5
<1>7. s7.run # K!None
  BY DEF K!None
<1> QED
  BY <1>4, <1>5, <1>6, <1>7 DEF OfLine

\* config.c, command.c, main.c: for any table of commands and any configuration, a key never
\* runs a command of the view that is not shown, and command and parameter are those of one
\* line, the last for this key, unless another name begins the same word.
THEOREM KeysRunTheirLines == PartsSpec => []KeysRunLines
<1> DEFINE I == part = "keys" => KeysInv
<1>1. PartsInit => I
  BY KeysFirst DEF PartsInit
<1>2. I /\ [PartsNext]_partvars => I'
  BY StepsOfParts, KeysPreserved DEF OfItsPart
<1>3. I => KeysRunLines
  <2> SUFFICES ASSUME KeysInv, s7.run.command # 0 PROVE K!RunsInScope /\ K!RunsLastLine
    BY DEF KeysRunLines, K!RunsInScope, K!RunsLastLine
  <2> DEFINE c == s7.run.command
             word == K!Line.word
             scope == K!Line.scope
  <2>1. /\ scope \in {s7.scope, "global"} /\ word \in Words /\ c \in Hits(word, scope)
        /\ s7.run.param = SubSeq(word, Len(Commands[c].name) + 1, Len(word))
    BY RunIsOfLine
  <2>2. word \in Seq(STRING)
    BY <2>1, PartsAssumption DEF K!TableAssumption
  <2> HIDE DEF word, scope
  <2>3. K!RunsInScope
    BY <2>1 DEF K!RunsInScope, Hits
  <2>4. Commands[c].name \o s7.run.param = word
    BY <2>1, <2>2, NameAndParam
  <2> DEFINE Ends(name) == Len(word) = Len(name) \/ word[Len(name) + 1] = " "
  <2>5. \A d : d \in K!Named(word, scope) <=> d \in Hits(word, scope) /\ Ends(Commands[d].name)
    BY Zenon DEF K!Named, Hits
  <2> HIDE DEF Ends
  <2>6. ASSUME NEW d \in K!Named(word, scope), Commands[d].name = Commands[c].name
        PROVE  c \in K!Named(word, scope)
    BY <2>1, <2>5, <2>6
  <2>7. ASSUME NEW d \in K!Named(word, scope), Commands[d].name # Commands[c].name
        PROVE  \E e \in DOMAIN Commands : /\ K!IsPrefix(Commands[e].name, word)
                                          /\ Commands[e].name # Commands[c].name
    BY <2>5, <2>7 DEF Hits
  <2> QED
    BY <2>3, <2>4, <2>6, <2>7 DEF K!RunsLastLine, K!Follows, word, scope
<1> QED
  BY <1>1, <1>2, <1>3, PTL DEF PartsSpec

-----------------------------------------------------------------------------
(* CommandLine: while a search is typed, the text ends where the next        *)
(* character goes; what completions leave behind it does not matter.         *)

\* The first NUL of the buffer is that at pos.
EndsAt(b, p) == b[p] = NUL /\ \A i \in 0..p - 1 : b[i] # NUL

LineInv ==
    /\ C!WindowWhileCommand /\ s10 \in BOOLEAN
    /\ DOMAIN s2 = 0..BufferSize
    /\ s1 = "search" => s3 \in 0..BufferSize - 1 /\ EndsAt(s2, s3)

\* tui.c: each step keeps the invariant of the input line.
LEMMA LinePreserved == LineInv /\ [C!Next]_(C!vars) => LineInv'
<1> SUFFICES ASSUME LineInv, [C!Next]_(C!vars) PROVE LineInv'
  OBVIOUS
<1> USE DEF LineInv, C!WindowWhileCommand
<1>size. BufferSize \in Nat \ {0} /\ NUL \notin Typed
  BY PartsAssumption DEF C!TableAssumption
<1>1. ASSUME NEW m \in {"command", "search"}, C!Open(m) PROVE LineInv'
  <2>1. /\ DOMAIN s2' = 0..BufferSize /\ s2'[0] = NUL /\ s3' = 0
    BY <1>1, <1>size DEF C!Open
  <2>2. EndsAt(s2, s3)'
    BY <2>1 DEF EndsAt
  <2>3. s10' \in BOOLEAN /\ (s10' <=> s1' = "command")
    BY <1>1 DEF C!Open
  <2> QED
    BY <1>size, <2>1, <2>2, <2>3
<1>2. ASSUME NEW c \in Typed, C!Type(c) PROVE LineInv'
  <2>1. /\ s1 # "off" /\ s2' = [s2 EXCEPT ![s3] = c, ![s3 + 1] = NUL] /\ s3' = s3 + 1
        /\ IF s3' = BufferSize THEN s1' = "off" /\ s10' = FALSE ELSE UNCHANGED <<s1, s10>>
    BY <1>2 DEF C!Type, C!Insert
  <2>2. DOMAIN s2' = 0..BufferSize /\ s10' \in BOOLEAN /\ (s10' <=> s1' = "command")
    BY <2>1
  <2>3. ASSUME s1' = "search" PROVE s3' \in 0..BufferSize - 1 /\ EndsAt(s2, s3)'
    <3>1. s1 = "search" /\ s3 \in 0..BufferSize - 1 /\ s3 + 1 # BufferSize /\ EndsAt(s2, s3)
      BY <2>1, <2>3
    <3>2. s3 + 1 \in 0..BufferSize - 1
      BY <1>size, <3>1
    <3>3. s2'[s3 + 1] = NUL /\ s2'[s3] = c /\ \A i \in 0..s3 - 1 : s2'[i] = s2[i]
      BY <1>size, <2>1, <3>1, <3>2
    <3>4. \A i \in 0..s3 - 1 : s2'[i] # NUL
      BY <3>1, <3>3 DEF EndsAt
    <3>5. s2'[s3] # NUL
      BY <1>size, <3>3
    <3>6. \A i \in 0..(s3 + 1) - 1 : i \in 0..s3 - 1 \/ i = s3
      BY <3>1
    <3> QED
      BY <2>1, <3>2, <3>3, <3>4, <3>5, <3>6 DEF EndsAt
  <2> QED
    BY <2>2, <2>3
<1>3. CASE C!Escape
  BY <1>3 DEF C!Escape, C!Close
<1>4. CASE C!Enter
  BY <1>4 DEF C!Enter, C!Close
<1>5. CASE C!Up
  BY <1>5 DEF C!Up
<1>6. CASE C!Down
  BY <1>6 DEF C!Down
<1>7. CASE C!Tab
  <2>1. s1' = "command" /\ UNCHANGED s10 /\ s1 = "command"
    BY <1>7 DEF C!Tab
  <2>2. DOMAIN s2' = 0..BufferSize
    <3> DEFINE cut == IF s8 = C!Nothing THEN s2 ELSE [s2 EXCEPT ![s8] = NUL]
    <3>1. DOMAIN cut = 0..BufferSize
      OBVIOUS
    <3>2. \/ \E p : s2' = [cut EXCEPT ![p] = NUL]
          \/ s2' = cut \/ \E name : s2' = C!Put(name)
      BY <1>7, Zenon DEF C!Tab
    <3> HIDE DEF cut
    <3>3. \A name : DOMAIN C!Put(name) = 0..BufferSize
      BY DEF C!Put
    <3> QED
      BY <3>1, <3>2, <3>3
  <2> QED
    BY <2>1, <2>2
<1>8. CASE C!Backspace
  <2>1. CASE s3 = 0
    BY <1>8, <2>1 DEF C!Backspace, C!Close
  <2>2. CASE s3 # 0
    <3>1. /\ s3' = s3 - 1 /\ s2' = [s2 EXCEPT ![s3 - 1] = NUL] /\ UNCHANGED <<s1, s10>>
      BY <1>8, <2>2 DEF C!Backspace
    <3>2. ASSUME s1 = "search" PROVE s3' \in 0..BufferSize - 1 /\ EndsAt(s2, s3)'
      BY <1>size, <2>2, <3>1, <3>2 DEF EndsAt
    <3> QED
      BY <3>1, <3>2
  <2> QED
    BY <2>1, <2>2
<1>9. CASE UNCHANGED C!vars
  BY <1>9 DEF C!vars, C!line
<1> QED
  BY <1>1, <1>2, <1>3, <1>4, <1>5, <1>6, <1>7, <1>8, <1>9 DEF C!Next

\* The text of a buffer goes to its first NUL.
LEMMA TextEnds ==
  ASSUME NEW b, NEW p \in 0..BufferSize - 1, EndsAt(b, p)
  PROVE  Len(C!TextAt(b, 0)) = p
<1>size. BufferSize \in Nat
  BY PartsAssumption DEF C!TableAssumption
<1> DEFINE ends == {i \in 0..BufferSize : b[i] = NUL}
<1>1. p \in ends /\ \A i \in ends : p <= i
  BY <1>size DEF EndsAt
<1>2. \A i \in ends : i \in Int
  BY <1>size
<1> HIDE DEF ends
<1>3. C!Min(ends) = p
  <2>1. \A x \in ends : (\A y \in ends : x <= y) => x = p
    BY <1>1, <1>2
  <2> QED
    BY <1>1, <2>1 DEF C!Min
<1>4. C!TextAt(b, 0) = [i \in 1..p - 0 |-> b[0 + i - 1]]
  BY <1>3 DEF C!TextAt, ends
<1> DEFINE text == [i \in 1..p |-> b[0 + i - 1]]
<1>5. C!TextAt(b, 0) = text
  BY <1>4
<1>6. text \in Seq({b[i] : i \in Int})
  OBVIOUS
<1>7. DOMAIN text = 1..p
  OBVIOUS
<1> HIDE DEF text
<1>8. Len(text) = p
  BY <1>6, <1>7
<1> QED
  BY <1>5, <1>8

\* commands/playlist.c: for any table of commands and any size of the buffer, the
\* suggestions are on the screen while a command is typed and no longer, and a search is for
\* what was typed, whatever older text the buffer keeps.
THEOREM InputLineIsKept == PartsSpec => []InputLineKept
<1> DEFINE I == part = "commandline" => LineInv
<1>1. PartsInit => I
  BY PartsAssumption DEF PartsInit, C!Init, LineInv, C!WindowWhileCommand
<1>2. I /\ [PartsNext]_partvars => I'
  BY StepsOfParts, LinePreserved DEF OfItsPart
<1>3. I => InputLineKept
  BY TextEnds DEF LineInv, InputLineKept, C!SearchesTyped, C!Text
<1> QED
  BY <1>1, <1>2, <1>3, PTL DEF PartsSpec

-----------------------------------------------------------------------------
(* References: what an entry needs to know of the Stream goes with it        *)
(* wherever it is moved or referred to, as the Stream itself never moves.    *)

Address == {<< >>} \cup (Nat \X Nat)
Entry ==
    {e \in [name : 0..NStream + 1, href : Address, is : R!Permalinks] :
        e.name # 0 <=> e.href = << >>}
OfStream(e) == e.name = 0 /\ e.href[1] = 1

\* An entry that refers to a track of the Stream is this track; and it is flagged.
Held == {e \in Entry : OfStream(e) => e.href[2] \in 1..NStream /\ e.is = e.href[2]}
Marked(flags) == {e \in Held : OfStream(e) => e.href \in flags.bookmarked}

TheStream == [i \in 1..NStream |-> R!Normal(i)]

RefsInv ==
    /\ s1 \in Seq(Seq(Held)) /\ s2 \subseteq DOMAIN s1
    /\ s3 \in Seq(Nat) /\ \A k \in DOMAIN s3 : s3[k] \in DOMAIN s1
    /\ DOMAIN s5 = {"playing", "bookmarked"}
    /\ s3 # << >> => /\ Len(s3) >= 2 /\ s3[1] = 1 /\ s1[1] = TheStream /\ R!OwnsArray
                     /\ s1[s3[2]] \in Seq(Marked(s5))

\* An entry keeps its flag if no flag of the Stream goes.
LEMMA MarkedKept ==
  ASSUME NEW f, NEW g, \A a \in f.bookmarked : a[1] = 1 => a \in g.bookmarked,
         NEW q \in Seq(Marked(f))
  PROVE  q \in Seq(Marked(g))
<1>1. Marked(f) \subseteq Marked(g)
  BY DEF Marked, OfStream
<1> QED
  BY <1>1, SeqMonotonic

\* The entry that is added, and its flag.
LEMMA AddedIsHeld ==
  ASSUME RefsInv, NEW c \in DOMAIN s3, NEW i \in 1..R!Count(c)
  PROVE  R!Reference(R!Block(c)[i].is, R!Track(c, i)) \in Held
<1> DEFINE b == R!Block(c)
           e == R!Reference(b[i].is, R!Track(c, i))
<1>1. s3 # << >> /\ s3[c] \in DOMAIN s1 /\ s1 \in Seq(Seq(Held))
  BY DEF RefsInv
<1>2. b \in Seq(Held) /\ s3[c] \in Nat
  BY <1>1 DEF R!Block
<1>3. b[i] \in Held /\ i \in Nat
  BY <1>2 DEF R!Count
<1>4. e = [name |-> 0, href |-> R!Track(c, i), is |-> b[i].is] /\ b[i].is \in R!Permalinks
  BY <1>3 DEF R!Reference, Held, Entry
<1>size. NStream \in Nat
  BY PartsAssumption DEF R!SizesAssumption
<1>5. CASE b[i].name # 0
  <2>1. R!Track(c, i) = <<s3[c], i>>
    BY <1>5 DEF R!Track
  <2>2. e \in Entry
    <3>1. R!Track(c, i) \in Address
      BY <1>2, <1>3, <2>1 DEF Address
    <3>2. R!Track(c, i) # << >> /\ e.name = 0 /\ e.href = R!Track(c, i)
      BY <1>4, <2>1
    <3> HIDE DEF e
    <3>3. e \in [name : 0..NStream + 1, href : Address, is : R!Permalinks]
      BY <1>size, <1>4, <3>1
    <3> QED
      BY <3>2, <3>3 DEF Entry
  <2>3. ASSUME s3[c] = 1 PROVE i \in 1..NStream /\ b[i].is = i
    <3>1. b = TheStream
      BY <1>1, <2>3 DEF RefsInv, R!Block
    <3>2. i \in DOMAIN b
      BY <1>2 DEF R!Count
    <3>3. DOMAIN b = 1..NStream
      BY <3>1 DEF TheStream
    <3>4. b[i] = R!Normal(i)
      BY <3>1, <3>2, <3>3 DEF TheStream
    <3> QED
      BY <3>2, <3>3, <3>4 DEF R!Normal
  <2> QED
    BY <1>4, <2>1, <2>2, <2>3 DEF Held, OfStream
<1>6. CASE b[i].name = 0
  <2>1. R!Track(c, i) = b[i].href
    BY <1>6 DEF R!Track
  <2> QED
    BY <1>3, <1>4, <1>6, <2>1 DEF Held, OfStream, Entry
<1> QED
  BY <1>5, <1>6

\* A list that grows in its place or in a new block.
LEMMA GrowKeeps ==
  ASSUME RefsInv, s3 # << >>, NEW l \in DOMAIN s3 \ {1}, NEW e \in Held, NEW flags,
         DOMAIN flags = {"playing", "bookmarked"}, s5.bookmarked \subseteq flags.bookmarked,
         l = 2 => e \in Marked(flags), R!Grow(l, e, flags)
  PROVE  RefsInv'
<1>1. /\ s1 \in Seq(Seq(Held)) /\ s2 \subseteq DOMAIN s1
      /\ s3 \in Seq(Nat) /\ \A k \in DOMAIN s3 : s3[k] \in DOMAIN s1
      /\ Len(s3) >= 2 /\ s3[1] = 1 /\ s1[1] = TheStream /\ R!OwnsArray
      /\ s1[s3[2]] \in Seq(Marked(s5))
  BY DEF RefsInv
<1>2. /\ l \in 1..Len(s3) /\ l # 1 /\ 1 \in 1..Len(s3) /\ 2 \in 1..Len(s3)
      /\ DOMAIN s3 = 1..Len(s3) /\ s3[l] \in DOMAIN s1
  <2>1. DOMAIN s3 = 1..Len(s3) /\ Len(s3) \in Nat
    BY <1>1
  <2> QED
    BY <1>1, <2>1
<1>3. s3[l] # 1 /\ \A k \in DOMAIN s3 : s3[k] \notin s2 /\ (k # l => s3[k] # s3[l])
  BY <1>1, <1>2 DEF R!OwnsArray
<1> DEFINE b == R!Block(l)
           longer == Append(b, e)
<1>4. b = s1[s3[l]] /\ b \in Seq(Held)
  BY <1>1, <1>2 DEF R!Block
<1>5. longer \in Seq(Held)
  BY <1>4
<1>6. s1[s3[2]] \in Seq(Marked(flags))
  <2>1. \A a \in s5.bookmarked : a[1] = 1 => a \in flags.bookmarked
    OBVIOUS
  <2>2. s1[s3[2]] \in Seq(Marked(s5))
    BY <1>1
  <2> QED
    BY ONLY <2>1, <2>2, MarkedKept
<1>7. l = 2 => longer \in Seq(Marked(flags))
  BY <1>4, <1>6
<1> HIDE DEF b, longer
<1>8. CASE R!GrowInPlace(l, e, flags)
  <2>1. s1' = [s1 EXCEPT ![s3[l]] = longer] /\ s5' = flags /\ UNCHANGED <<s2, s3>>
    BY <1>4, <1>8 DEF R!GrowInPlace, longer
  <2>2. s1' \in Seq(Seq(Held)) /\ DOMAIN s1' = DOMAIN s1
    BY <1>1, <1>2, <1>5, <2>1
  <2>3. s1'[1] = TheStream
    BY <1>1, <1>3, <2>1
  <2>4. s1'[s3[2]] \in Seq(Marked(flags))
    <3>1. \A k \in DOMAIN s1 : s1'[k] = IF k = s3[l] THEN longer ELSE s1[k]
      BY <2>1
    <3>2. s3[2] \in DOMAIN s1 /\ (s3[2] = s3[l] => l = 2)
      BY <1>1, <1>2, <1>3
    <3> QED
      BY <1>6, <1>7, <3>1, <3>2
  <2> QED
    BY <1>1, <2>1, <2>2, <2>3, <2>4 DEF RefsInv, R!OwnsArray
<1>9. CASE R!GrowMoved(l, e, flags) /\ s3' = [s3 EXCEPT ![l] = Len(s1) + 1]
  <2> DEFINE n == Len(s1) + 1
             left == [s1 EXCEPT ![s3[l]] = << >>]
  <2>1. /\ s1' = Append(left, longer) /\ s2' = s2 \cup {s3[l]}
        /\ s3' = [s3 EXCEPT ![l] = n]
        /\ s5' = [f \in DOMAIN flags |-> R!Moved(flags[f], s3[l], n)]
    BY <1>9 DEF R!GrowMoved, longer, b
  <2>2. left \in Seq(Seq(Held)) /\ Len(left) = Len(s1) /\ DOMAIN s1 = 1..Len(s1)
    BY <1>1, <1>2
  <2>3. \A k \in DOMAIN s1 : k # s3[l] => left[k] = s1[k]
    BY <1>1
  <2> HIDE DEF left
  <2>4. /\ s1' \in Seq(Seq(Held)) /\ DOMAIN s1' = 1..n /\ n \in Nat
        /\ s1'[n] = longer /\ \A k \in DOMAIN s1 : s1'[k] = left[k]
    <3>1. n \in Nat /\ n = Len(left) + 1
      BY <1>1, <2>2
    <3> HIDE DEF n
    <3>2. /\ s1' \in Seq(Seq(Held)) /\ Len(s1') = n /\ s1'[n] = longer
          /\ \A k \in 1..Len(left) : s1'[k] = left[k]
      BY <1>5, <2>1, <2>2, <3>1, AppendProperties
    <3> QED
      BY <2>2, <3>1, <3>2, LenProperties
  <2>5. n \notin DOMAIN s1 /\ DOMAIN s1 \subseteq DOMAIN s1' /\ n \in DOMAIN s1'
    BY <2>2, <2>4
  <2> HIDE DEF n
  <2>6. s1'[1] = TheStream
    <3>1. 1 \in DOMAIN s1 /\ 1 # s3[l]
      BY <1>1, <1>2, <1>3
    <3> QED
      BY <1>1, <2>3, <2>4, <3>1
  <2>7. /\ s3' \in Seq(Nat) /\ Len(s3') = Len(s3) /\ s3'[1] = 1
        /\ DOMAIN s3' = DOMAIN s3 /\ \A k \in DOMAIN s3 : s3'[k] = IF k = l THEN n ELSE s3[k]
    BY <1>1, <1>2, <2>1, <2>4
  <2>8. R!OwnsArray'
    <3>1. ASSUME NEW k \in DOMAIN s3 PROVE s3'[k] \notin s2'
      BY <1>1, <1>3, <2>1, <2>5, <2>7
    <3>2. ASSUME NEW j \in DOMAIN s3, NEW k \in DOMAIN s3, j # k PROVE s3'[j] # s3'[k]
      <4>1. s3[j] # s3[k] /\ s3[j] # n /\ s3[k] # n
        BY <1>1, <2>5, <3>2 DEF R!OwnsArray
      <4> QED
        BY <2>7, <3>2, <4>1
    <3> QED
      BY <2>7, <3>1, <3>2 DEF R!OwnsArray
  <2>9. DOMAIN s5' = {"playing", "bookmarked"}
    BY <2>1
  <2>10. s1'[s3'[2]] \in Seq(Marked(s5'))
    <3>1. s1'[s3'[2]] \in Seq(Marked(flags))
      <4>1. CASE l = 2
        BY <1>2, <1>7, <2>4, <2>7, <4>1
      <4>2. CASE l # 2
        <5>1. s3'[2] = s3[2] /\ s3[2] \in DOMAIN s1 /\ s3[2] # s3[l]
          BY <1>1, <1>2, <1>3, <2>7, <4>2
        <5> QED
          BY <1>6, <2>3, <2>4, <5>1
      <4> QED
        BY <4>1, <4>2
    <3>2. s5'.bookmarked = R!Moved(flags.bookmarked, s3[l], n)
      BY <2>1
    <3>3. \A a \in flags.bookmarked : a[1] = 1 => a \in s5'.bookmarked
      BY <1>3, <3>2 DEF R!Moved
    <3> QED
      BY <3>1, <3>3, MarkedKept
  <2>11. s2' \subseteq DOMAIN s1'
    BY <1>1, <1>2, <2>1, <2>5
  <2> QED
    BY <1>1, <2>4, <2>5, <2>6, <2>7, <2>8, <2>9, <2>10, <2>11 DEF RefsInv
<1> QED
  BY <1>8, <1>9 DEF R!Grow

\* What is left of an array is of its entries.
LEMMA WithoutOne ==
  ASSUME NEW S, NEW q \in Seq(S), NEW i \in 1..Len(q)
  PROVE  SubSeq(q, 1, i - 1) \o SubSeq(q, i + 1, Len(q)) \in Seq(S)
<1>1. Len(q) \in Nat /\ \A k \in 1..Len(q) : q[k] \in S
  BY LenProperties
<1>2. SubSeq(q, 1, i - 1) \in Seq(S)
  BY <1>1, SubSeqProperties
<1>3. SubSeq(q, i + 1, Len(q)) \in Seq(S)
  BY <1>1, SubSeqProperties
<1> QED
  BY <1>2, <1>3, ConcatProperties

\* track_list_del: no reference that is left points behind the end of its list.
LEMMA DelKeeps ==
  ASSUME RefsInv, NEW l \in DOMAIN s3, NEW i \in 1..R!Count(l), R!Del(l, i)
  PROVE  RefsInv'
<1> DEFINE b == R!Block(l)
           shorter == SubSeq(b, 1, i - 1) \o SubSeq(b, i + 1, Len(b))
<1>1. /\ s1 \in Seq(Seq(Held)) /\ s2 \subseteq DOMAIN s1
      /\ s3 \in Seq(Nat) /\ \A k \in DOMAIN s3 : s3[k] \in DOMAIN s1
      /\ DOMAIN s5 = {"playing", "bookmarked"} /\ s3 # << >>
  BY DEF RefsInv
<1>2. /\ Len(s3) >= 2 /\ s3[1] = 1 /\ s1[1] = TheStream /\ R!OwnsArray
      /\ s1[s3[2]] \in Seq(Marked(s5))
  BY <1>1 DEF RefsInv
<1>3. 1 \in DOMAIN s3 /\ 2 \in DOMAIN s3 /\ l # 1
  BY <1>1, <1>2 DEF R!Del
<1>4. s3[l] # 1 /\ (s3[2] = s3[l] => l = 2) /\ 1 \in DOMAIN s1 /\ s3[2] \in DOMAIN s1
  BY <1>1, <1>2, <1>3 DEF R!OwnsArray
<1>5. /\ s1' = [s1 EXCEPT ![s3[l]] = shorter] /\ UNCHANGED <<s2, s3>>
      /\ s5' = [f \in DOMAIN s5 |-> R!Shifted(s5[f], s3[l], i)]
  BY DEF R!Del, R!Block
<1>6. b \in Seq(Held) /\ i \in 1..Len(b)
  BY <1>1 DEF R!Block, R!Count
<1>7. shorter \in Seq(Held)
  BY <1>6, WithoutOne
<1>8. l = 2 => shorter \in Seq(Marked(s5))
  <2>1. l = 2 => b \in Seq(Marked(s5))
    BY <1>2 DEF R!Block
  <2> QED
    BY <1>6, <2>1, WithoutOne
<1> HIDE DEF b, shorter
<1>9. s1' \in Seq(Seq(Held)) /\ DOMAIN s1' = DOMAIN s1
  BY <1>1, <1>5, <1>7
<1>10. \A k \in DOMAIN s1 : s1'[k] = IF k = s3[l] THEN shorter ELSE s1[k]
  BY <1>5
<1>11. s1'[s3[2]] \in Seq(Marked(s5))
  BY <1>2, <1>4, <1>8, <1>10
<1>12. \A a \in s5.bookmarked : a[1] = 1 => a \in s5'.bookmarked
  <2>1. s5'.bookmarked = R!Shifted(s5.bookmarked, s3[l], i)
    BY <1>1, <1>5
  <2>2. ASSUME NEW a \in s5.bookmarked, a[1] = 1 PROVE a \in R!Shifted(s5.bookmarked, s3[l], i)
    <3>1. a # <<s3[l], i>> /\ ~ (a[1] = s3[l] /\ a[2] > i)
      BY <1>4, <2>2
    <3> QED
      BY <2>2, <3>1 DEF R!Shifted
  <2> QED
    BY <2>1, <2>2
<1>13. s1'[s3[2]] \in Seq(Marked(s5'))
  BY <1>11, <1>12, MarkedKept
<1> QED
  BY <1>1, <1>2, <1>4, <1>5, <1>9, <1>10, <1>13 DEF RefsInv, R!OwnsArray

\* A new list of normal tracks.
LEMMA NormalsAreHeld ==
  ASSUME NEW n \in Nat, NEW tracks \in [1..n -> R!Permalinks]
  PROVE  [i \in DOMAIN tracks |-> R!Normal(tracks[i])] \in Seq(Held)
<1>1. NStream \in Nat \ {0}
  BY PartsAssumption DEF R!SizesAssumption
<1>2. ASSUME NEW t \in R!Permalinks PROVE R!Normal(t) \in Held
  <2>1. R!Normal(t) = [name |-> t, href |-> << >>, is |-> t] /\ t \in 1..NStream + 1
    BY <1>2 DEF R!Normal, R!Permalinks
  <2>2. R!Normal(t) \in Entry
    BY <1>1, <1>2, <2>1 DEF Entry, Address
  <2>3. R!Normal(t).name # 0
    BY <1>1, <2>1
  <2> QED
    BY <2>2, <2>3 DEF Held, OfStream
<1> DEFINE q == [i \in DOMAIN tracks |-> R!Normal(tracks[i])]
<1>3. q \in [1..n -> Held]
  BY <1>2
<1> HIDE DEF q
<1>4. q \in Seq(Held)
  BY <1>3, SeqDef
<1> QED
  BY <1>4 DEF q

\* commands/playlist.c: the entries of a list opened or created are tracks of their own.
LEMMA AddListKeeps ==
  ASSUME RefsInv, s3 # << >>, NEW n \in Nat, NEW tracks \in [1..n -> R!Permalinks],
         R!AddList(tracks)
  PROVE  RefsInv'
<1> DEFINE new == [i \in DOMAIN tracks |-> R!Normal(tracks[i])]
           m == Len(s1) + 1
<1>1. /\ s1 \in Seq(Seq(Held)) /\ s2 \subseteq DOMAIN s1
      /\ s3 \in Seq(Nat) /\ \A k \in DOMAIN s3 : s3[k] \in DOMAIN s1
      /\ DOMAIN s5 = {"playing", "bookmarked"}
      /\ Len(s3) >= 2 /\ s3[1] = 1 /\ s1[1] = TheStream /\ R!OwnsArray
      /\ s1[s3[2]] \in Seq(Marked(s5))
  BY DEF RefsInv
<1>2. /\ s1' = Append(s1, new) /\ s3' = Append(s3, m) /\ UNCHANGED <<s2, s5>>
  BY DEF R!AddList
<1>3. new \in Seq(Held)
  BY NormalsAreHeld
<1>4. m \in Nat /\ DOMAIN s1 = 1..Len(s1) /\ m \notin DOMAIN s1 /\ Len(s3) \in Nat
      /\ DOMAIN s3 = 1..Len(s3)
  <2>1. /\ DOMAIN s1 = 1..Len(s1) /\ Len(s1) \in Nat
        /\ DOMAIN s3 = 1..Len(s3) /\ Len(s3) \in Nat
    BY <1>1, LenProperties
  <2> QED
    BY <2>1
<1> HIDE DEF new
<1>5. /\ s1' \in Seq(Seq(Held)) /\ Len(s1') = m
      /\ \A k \in 1..Len(s1) : s1'[k] = s1[k]
  BY <1>1, <1>2, <1>3, AppendProperties
<1>6. DOMAIN s1' = 1..m /\ DOMAIN s1 \subseteq DOMAIN s1' /\ m \in DOMAIN s1'
  BY <1>4, <1>5, LenProperties
<1> HIDE DEF m
<1>7. /\ s3' \in Seq(Nat) /\ Len(s3') = Len(s3) + 1 /\ s3'[Len(s3) + 1] = m
      /\ \A k \in 1..Len(s3) : s3'[k] = s3[k]
  BY <1>1, <1>2, <1>4, AppendProperties
<1>8. DOMAIN s3' = DOMAIN s3 \cup {Len(s3) + 1} /\ Len(s3) + 1 \notin DOMAIN s3
  BY <1>4, <1>7
<1>9. \A k \in DOMAIN s3' : s3'[k] \in DOMAIN s1'
  BY <1>1, <1>4, <1>6, <1>7, <1>8
<1>10. R!OwnsArray'
  <2>1. ASSUME NEW k \in DOMAIN s3' PROVE s3'[k] \notin s2
    <3>1. CASE k = Len(s3) + 1
      BY <1>1, <1>4, <1>7, <3>1
    <3>2. CASE k \in DOMAIN s3
      BY <1>1, <1>4, <1>7, <3>2 DEF R!OwnsArray
    <3> QED
      BY <1>8, <3>1, <3>2
  <2>2. ASSUME NEW j \in DOMAIN s3, NEW k \in DOMAIN s3, j # k PROVE s3'[j] # s3'[k]
    BY <1>1, <1>4, <1>7, <2>2 DEF R!OwnsArray
  <2>3. ASSUME NEW j \in DOMAIN s3 PROVE s3'[j] # s3'[Len(s3) + 1]
    BY <1>1, <1>4, <1>7
  <2> QED
    BY <1>2, <1>8, <2>1, <2>2, <2>3 DEF R!OwnsArray
<1>11. /\ Len(s3') >= 2 /\ s3'[1] = 1 /\ s1'[1] = TheStream
       /\ s3'[2] = s3[2] /\ s1'[s3[2]] = s1[s3[2]]
  <2>1. 1 \in 1..Len(s3) /\ 2 \in 1..Len(s3)
    BY <1>1, <1>4
  <2>2. 1 \in 1..Len(s1) /\ s3[2] \in 1..Len(s1)
    BY <1>1, <1>4, <2>1
  <2>3. s1'[1] = s1[1] /\ s1'[s3[2]] = s1[s3[2]]
    BY <1>5, <2>2
  <2>4. s3'[1] = s3[1] /\ s3'[2] = s3[2] /\ Len(s3') >= 2
    BY <1>1, <1>4, <1>7, <2>1
  <2> QED
    BY <1>1, <2>3, <2>4
<1>12. s2' \subseteq DOMAIN s1' /\ s5' = s5
  BY <1>1, <1>2, <1>6
<1> QED
  BY <1>1, <1>5, <1>7, <1>9, <1>10, <1>11, <1>12 DEF RefsInv

\* track.c, commands/playlist.c: each step keeps the invariant of the references.
LEMMA RefsPreserved == RefsInv /\ [R!Next]_(R!vars) => RefsInv'
<1> SUFFICES ASSUME RefsInv, [R!Next]_(R!vars) PROVE RefsInv'
  OBVIOUS
<1>types. /\ s1 \in Seq(Seq(Held)) /\ s2 \subseteq DOMAIN s1
          /\ s3 \in Seq(Nat) /\ \A k \in DOMAIN s3 : s3[k] \in DOMAIN s1
          /\ DOMAIN s5 = {"playing", "bookmarked"}
  BY DEF RefsInv
<1>entries. \A e \in R!Entries : e[1] \in DOMAIN s3 /\ e[2] \in 1..R!Count(e[1])
  <2>1. ASSUME NEW e \in R!Entries PROVE e[1] \in DOMAIN s3 /\ e[2] \in 1..R!Count(e[1])
    <3>1. e[1] \in DOMAIN s3 /\ e[2] \in 1..MaxCount + NStream /\ e[2] <= R!Count(e[1])
      BY DEF R!Entries
    <3>2. R!Count(e[1]) \in Nat
      BY <1>types, <3>1 DEF R!Count, R!Block
    <3> QED
      BY <3>1, <3>2, PartsAssumption DEF R!SizesAssumption
  <2> QED
    BY <2>1
\* Only who is flagged as played may change.
<1>playing. ASSUME UNCHANGED <<s1, s2, s3>>, DOMAIN s5' = DOMAIN s5,
                   s5'.bookmarked = s5.bookmarked
            PROVE  RefsInv'
  BY <1>playing DEF RefsInv, R!OwnsArray, Marked
<1>1. ASSUME NEW e \in R!Entries, R!Play(e[1], e[2]) PROVE RefsInv'
  BY <1>1, <1>types, <1>playing DEF R!Play
<1>2. ASSUME NEW e \in R!Entries, R!Del(e[1], e[2]) PROVE RefsInv'
  BY <1>2, <1>entries, DelKeeps
<1>3. ASSUME NEW e \in R!Entries, NEW l \in DOMAIN s3, R!Add(e[1], e[2], l) PROVE RefsInv'
  <2> DEFINE c == e[1]
             i == e[2]
             entry == R!Reference(R!Block(c)[i].is, R!Track(c, i))
             flags == IF l = 2 THEN [s5 EXCEPT !.bookmarked = @ \cup {R!Track(c, i)}] ELSE s5
  <2>1. c \in DOMAIN s3 /\ i \in 1..R!Count(c) /\ l \in DOMAIN s3 \ {1} /\ s3 # << >>
    BY <1>3, <1>entries, <1>types DEF R!Add
  <2>2. R!Grow(l, entry, flags)
    BY <1>3 DEF R!Add
  <2>3. entry \in Held /\ entry.href = R!Track(c, i)
    BY <2>1, AddedIsHeld DEF R!Reference
  <2>4. DOMAIN flags = {"playing", "bookmarked"} /\ s5.bookmarked \subseteq flags.bookmarked
    BY <1>types
  <2>5. l = 2 => entry.href \in flags.bookmarked
    BY <1>types, <2>3
  <2>6. l = 2 => entry \in Marked(flags)
    BY <2>3, <2>5 DEF Marked
  <2> HIDE DEF entry, flags
  <2> QED
    BY <2>1, <2>2, <2>3, <2>4, <2>6, GrowKeeps
<1>4. ASSUME s3 # << >>, R!AddList(<< >>) PROVE RefsInv'
  <2>1. << >> \in [1..0 -> R!Permalinks]
    OBVIOUS
  <2> QED
    BY <1>4, <2>1, AddListKeeps
<1>5. ASSUME s3 # << >>, NEW t \in [1..User -> R!Permalinks], R!AddList(t) PROVE RefsInv'
  BY <1>5, AddListKeeps, PartsAssumption DEF R!SizesAssumption
<1>6. CASE R!Stop
  BY <1>6, <1>types, <1>playing DEF R!Stop
<1>7. CASE R!Exit
  <2>1. /\ s2' = s2 \cup {s3[l] : l \in DOMAIN s3} /\ s3' = << >>
        /\ s1' = [b \in DOMAIN s1 |-> << >>] /\ s5' = [f \in DOMAIN s5 |-> {}]
    BY <1>7 DEF R!Exit
  <2>2. s1' \in Seq(Seq(Held)) /\ DOMAIN s1' = DOMAIN s1
    <3>1. << >> \in Seq(Held) /\ DOMAIN s1 = 1..Len(s1) /\ Len(s1) \in Nat
      BY <1>types, LenProperties
    <3>2. s1' \in [1..Len(s1) -> Seq(Held)]
      BY <2>1, <3>1
    <3> QED
      BY <2>1, <3>1, <3>2, SeqDef
  <2> QED
    BY <1>types, <2>1, <2>2 DEF RefsInv
<1>8. CASE UNCHANGED R!vars
  BY <1>8, <1>playing DEF R!vars
<1> QED
  BY <1>1, <1>2, <1>3, <1>4, <1>5, <1>6, <1>7, <1>8 DEF R!Next

\* The bookmarks as they are read from their file: references where the Stream has the track.
LEMMA BookmarksRead ==
  ASSUME NEW saved \in [1..Saved -> R!Permalinks], NEW flags,
         \A j \in 1..Saved : saved[j] # NStream + 1 => <<1, saved[j]>> \in flags.bookmarked
  PROVE  R!HrefTo([j \in 1..Saved |-> R!Normal(saved[j])], TheStream, 1) \in Seq(Marked(flags))
<1> DEFINE list == [j \in 1..Saved |-> R!Normal(saved[j])]
           first(j) == \E i \in DOMAIN TheStream :
                          /\ TheStream[i].is = list[j].is
                          /\ \A k \in 1..j - 1 : list[k].is # list[j].is
           of(j) == CHOOSE i \in DOMAIN TheStream : TheStream[i].is = list[j].is
           read(j) == IF first(j) THEN R!Reference(list[j].is, <<1, of(j)>>) ELSE list[j]
           q == R!HrefTo(list, TheStream, 1)
<1>1. NStream \in Nat \ {0} /\ Saved \in Nat
  BY PartsAssumption DEF R!SizesAssumption
<1>2. q = [j \in 1..Saved |-> read(j)]
  <2>1. DOMAIN list = 1..Saved
    OBVIOUS
  <2> HIDE DEF list
  <2> QED
    BY <2>1 DEF R!HrefTo
<1>3. /\ DOMAIN TheStream = 1..NStream
      /\ \A i \in 1..NStream : TheStream[i].is = i
  BY DEF TheStream, R!Normal
<1>4. ASSUME NEW j \in 1..Saved PROVE read(j) \in Marked(flags)
  <2>1. /\ saved[j] \in 1..NStream + 1 /\ saved[j] # 0 /\ list[j].is = saved[j]
        /\ list[j] = [name |-> saved[j], href |-> << >>, is |-> saved[j]]
    BY <1>1 DEF R!Permalinks, R!Normal
  <2>2. CASE first(j)
    <3>1. of(j) \in 1..NStream /\ of(j) = saved[j]
      BY <1>3, <2>1, <2>2
    <3>2. read(j) = [name |-> 0, href |-> <<1, saved[j]>>, is |-> saved[j]]
      BY <2>1, <2>2, <3>1 DEF R!Reference
    <3>3. <<1, saved[j]>> \in Address /\ saved[j] \in R!Permalinks /\ 0 \in 0..NStream + 1
      BY <1>1, <2>1 DEF Address, R!Permalinks
    <3>4. saved[j] \in 1..NStream /\ saved[j] # NStream + 1
      <4> DEFINE t == saved[j]
      <4>1. t \in 1..NStream
        BY <3>1
      <4> HIDE DEF t
      <4>2. t # NStream + 1
        BY <1>1, <4>1
      <4> QED
        BY <4>1, <4>2 DEF t
    <3>5. <<1, saved[j]>> \in flags.bookmarked
      BY <3>4
    <3> HIDE DEF read
    <3>6. read(j) \in Entry
      BY <3>2, <3>3 DEF Entry
    <3>7. read(j).href = <<1, saved[j]>> /\ read(j).is = saved[j]
      BY <3>2
    <3> QED
      BY <3>4, <3>5, <3>6, <3>7 DEF Marked, Held
  <2>3. CASE ~first(j)
    <3>1. read(j) = [name |-> saved[j], href |-> << >>, is |-> saved[j]]
      BY <2>1, <2>3
    <3>2. << >> \in Address /\ saved[j] \in R!Permalinks /\ saved[j] \in 0..NStream + 1
      BY <1>1, <2>1 DEF Address, R!Permalinks
    <3> HIDE DEF read
    <3> QED
      BY <2>1, <3>1, <3>2 DEF Marked, Held, OfStream, Entry
  <2> QED
    BY <2>2, <2>3
<1> HIDE DEF read
<1>5. q \in [1..Saved -> Marked(flags)]
  BY <1>2, <1>4
<1> HIDE DEF q
<1>6. q \in Seq(Marked(flags))
  BY <1>1, <1>5, SeqDef
<1> QED
  BY <1>6 DEF q

\* main.c: the references read at the start point to tracks of the Stream.
LEMMA RefsFirst == R!Init => RefsInv
<1> SUFFICES ASSUME R!Init PROVE RefsInv
  OBVIOUS
<1>1. PICK saved \in [1..Saved -> R!Permalinks] :
        /\ s1 = <<TheStream, R!HrefTo([j \in 1..Saved |-> R!Normal(saved[j])], TheStream, 1)>>
        /\ s5 = [playing |-> {},
                 bookmarked |-> {<<1, i>> : i \in {saved[j] : j \in 1..Saved} \ {NStream + 1}}]
  BY DEF R!Init, TheStream
<1> DEFINE bookmarks == R!HrefTo([j \in 1..Saved |-> R!Normal(saved[j])], TheStream, 1)
<1>2. bookmarks \in Seq(Marked(s5))
  <2>1. \A j \in 1..Saved : saved[j] # NStream + 1 => <<1, saved[j]>> \in s5.bookmarked
    BY <1>1
  <2> QED
    BY <2>1, BookmarksRead
<1>3. bookmarks \in Seq(Held)
  BY <1>2, SeqMonotonic DEF Marked
<1>4. TheStream \in Seq(Held)
  <2>1. NStream \in Nat /\ [i \in 1..NStream |-> i] \in [1..NStream -> R!Permalinks]
    BY PartsAssumption DEF R!SizesAssumption, R!Permalinks
  <2>2. TheStream = [i \in DOMAIN [j \in 1..NStream |-> j]
                        |-> R!Normal([j \in 1..NStream |-> j][i])]
    BY DEF TheStream
  <2> QED
    BY <2>1, <2>2, NormalsAreHeld
<1> HIDE DEF bookmarks
<1>5. s1 = <<TheStream, bookmarks>> /\ DOMAIN s5 = {"playing", "bookmarked"}
  BY <1>1 DEF bookmarks
<1>6. s1 \in Seq(Seq(Held)) /\ DOMAIN s1 = {1, 2} /\ s1[1] = TheStream /\ s1[2] = bookmarks
  BY <1>3, <1>4, <1>5
<1>7. /\ s3 = <<1, 2>> /\ s2 = {} /\ s3 \in Seq(Nat) /\ DOMAIN s3 = {1, 2}
      /\ s3[1] = 1 /\ s3[2] = 2 /\ Len(s3) = 2 /\ s3 # << >>
  BY DEF R!Init
<1> QED
  BY <1>2, <1>5, <1>6, <1>7 DEF RefsInv, R!OwnsArray

\* track.c: whatever is added, deleted and referred to, with any numbers of tracks and lists,
\* every list owns one array that is not freed, a reference to a track of the Stream stays
\* one to this track, and a track of the Stream the bookmarks refer to is flagged.
THEOREM ReferencesAreKept == PartsSpec => []ReferencesKept
<1> DEFINE I == part = "references" => RefsInv
<1>1. PartsInit => I
  BY RefsFirst DEF PartsInit
<1>2. I /\ [PartsNext]_partvars => I'
  BY StepsOfParts, RefsPreserved DEF OfItsPart
<1>3. I => ReferencesKept
  <2> SUFFICES ASSUME RefsInv
               PROVE  R!OwnsArray /\ R!StreamReferencesHold /\ R!BookmarksFlagged
    BY DEF ReferencesKept
  <2>1. R!OwnsArray
    BY DEF RefsInv, R!OwnsArray
  <2>2. ASSUME NEW e \in R!Entries
        PROVE  /\ e[1] \in DOMAIN s3 /\ e[2] \in DOMAIN R!Block(e[1])
               /\ R!Block(e[1]) \in Seq(Held) /\ e[2] \in Nat \ {0}
    <3>1. e[1] \in DOMAIN s3 /\ e[2] \in 1..MaxCount + NStream /\ e[2] <= R!Count(e[1])
      BY DEF R!Entries
    <3>2. s1 \in Seq(Seq(Held)) /\ s3[e[1]] \in DOMAIN s1
      BY <3>1 DEF RefsInv
    <3>3. R!Block(e[1]) \in Seq(Held)
      BY <3>2 DEF R!Block
    <3> QED
      BY <3>1, <3>3, PartsAssumption DEF R!SizesAssumption, R!Count
  <2>3. R!StreamReferencesHold
    <3> SUFFICES ASSUME NEW e \in R!Entries, OfStream(R!Block(e[1])[e[2]])
                 PROVE  LET entry == R!Block(e[1])[e[2]]
                        IN  /\ 1 \notin s2 /\ entry.href[2] <= NStream
                            /\ R!TrackAt(entry.href) = entry.is
      BY DEF R!StreamReferencesHold, OfStream
    <3> DEFINE entry == R!Block(e[1])[e[2]]
    <3>1. entry \in Held
      BY <2>2
    <3>2. entry.href[1] = 1 /\ entry.href[2] \in 1..NStream /\ entry.is = entry.href[2]
      BY <3>1 DEF Held, OfStream
    <3>3. s3 # << >>
      BY <2>2
    <3>4. s3[1] = 1 /\ s1[1] = TheStream
      BY <3>3 DEF RefsInv
    <3>5. 1 \in DOMAIN s3 /\ 1 \notin s2
      BY <2>1, <3>3, <3>4 DEF RefsInv, R!OwnsArray
    <3> HIDE DEF entry
    <3>6. R!TrackAt(entry.href) = TheStream[entry.href[2]].is
      BY <3>2, <3>4 DEF R!TrackAt
    <3>7. TheStream[entry.href[2]].is = entry.href[2]
      BY <3>2 DEF TheStream, R!Normal
    <3> QED
      BY <3>2, <3>5, <3>6, <3>7, PartsAssumption DEF entry, R!SizesAssumption
  <2>4. R!BookmarksFlagged
    <3> SUFFICES ASSUME NEW e \in R!Entries, e[1] = 2, R!Track(2, e[2])[1] = 1
                 PROVE  R!Track(2, e[2]) \in s5.bookmarked
      BY DEF R!BookmarksFlagged
    <3> DEFINE entry == R!Block(2)[e[2]]
    <3>1. 2 \in DOMAIN s3 /\ e[2] \in DOMAIN R!Block(2)
      BY <2>2
    <3>2. s3 # << >>
      BY <3>1
    <3>3. s3[2] # 1 /\ R!Block(2) \in Seq(Marked(s5))
      BY <2>1, <3>1, <3>2 DEF RefsInv, R!OwnsArray, R!Block
    <3>4. entry \in Marked(s5)
      BY <3>1, <3>3
    <3>5. entry.name = 0 /\ R!Track(2, e[2]) = entry.href
      BY <3>3 DEF R!Track
    <3> HIDE DEF entry
    <3> QED
      BY <3>4, <3>5 DEF Marked, OfStream
  <2> QED
    BY <2>1, <2>3, <2>4
<1> QED
  BY <1>1, <1>2, <1>3, PTL DEF PartsSpec

-----------------------------------------------------------------------------
(* Soundcloud.  The variables of its part: s1 is now, s2 published, s3 file, *)
(* s4 pc, s5 user, s6 before, s7 cached, s8 list, s9 rest, s10 merged, s11   *)
(* stream, s12 failed, s13 runs.                                             *)

\* soundcloud.com: published tracks stay, with their times, and new ones are not older.
Onward ==
    /\ \A u \in U!Users : U!OfUser(u) \subseteq U!OfUser(u)'
    /\ \A u \in U!Users : \A t \in U!OfUser(u) : U!CreatedAt(t)' = U!CreatedAt(t)
    /\ \A u \in U!Users : \A t \in U!OfUser(u)' :
        t \notin U!OfUser(u) => \A s \in U!OfUser(u) : U!CreatedAt(s) <= U!CreatedAt(t)'

\* A track, spelled out.
LEMMA TrackIs ==
  ASSUME U!Ascending, NEW u \in U!Users, NEW t \in U!OfUser(u)
  PROVE  /\ t \in U!Tracks /\ t = <<u, t[2]>> /\ t[1] = u /\ t[2] \in 1..Len(s2[u])
         /\ t[2] \in Nat /\ U!CreatedAt(t) = s2[u][t[2]] /\ U!CreatedAt(t) \in Nat
         /\ U!CreatedAt(t) <= s1
<1>1. PICK i \in DOMAIN s2[u] : t = <<u, i>>
  BY DEF U!OfUser
<1>2. s2[u] \in Seq(Nat) /\ t \in U!Tracks
  BY DEF U!Ascending, U!Tracks
<1>3. i \in 1..Len(s2[u]) /\ s2[u][i] \in Nat /\ Len(s2[u]) \in Nat
  BY <1>1, <1>2
<1> QED
  BY <1>1, <1>2, <1>3 DEF U!CreatedAt, U!Ascending

\* Times are numbers, after a step as well.
LEMMA TimesAreNumbers ==
  ASSUME U!Ascending', NEW u \in U!Users, NEW t \in U!OfUser(u)' PROVE U!CreatedAt(t)' \in Nat
<1>1. PICK i \in DOMAIN s2'[u] : t = <<u, i>>
  BY DEF U!OfUser
<1>2. s2'[u] \in Seq(Nat)
  BY DEF U!Ascending
<1> QED
  BY <1>1, <1>2 DEF U!CreatedAt

\* soundcloud.com: a step publishes a track at the present time, or none.
LEMMA TimesKept ==
  ASSUME U!Ascending, [U!Next]_(U!vars) PROVE U!Ascending' /\ Onward
<1>1. CASE s2' = s2 /\ s1' \in {s1, s1 + 1}
  <2>1. \A t \in U!Tracks : U!CreatedAt(t) \in Nat
    BY TrackIs DEF U!Tracks
  <2> QED
    BY <1>1, <2>1 DEF U!Ascending, Onward, U!OfUser, U!CreatedAt, U!Tracks
<1>2. ASSUME NEW u \in U!Users, U!Publish(u) PROVE U!Ascending' /\ Onward
  <2>1. s2 \in [U!Users -> Seq(Nat)] /\ s1 \in Nat /\ s1' = s1
    BY <1>2 DEF U!Ascending, U!Publish
  <2>2. s2' = [s2 EXCEPT ![u] = Append(s2[u], s1)]
    BY <1>2 DEF U!Publish
  <2>3. /\ s2[u] \in Seq(Nat) /\ s2'[u] = Append(s2[u], s1) /\ s2' \in [U!Users -> Seq(Nat)]
        /\ \A v \in U!Users \ {u} : s2'[v] = s2[v]
    BY <2>1, <2>2
  <2>0. PICK n \in Nat : n = Len(s2[u]) + 1
    BY <2>3
  <2> DEFINE new == <<u, n>>
  <2>4. /\ n > 0 /\ DOMAIN s2[u] = 1..n - 1 /\ DOMAIN s2'[u] = 1..n /\ s2'[u][n] = s1
        /\ \A i \in 1..n - 1 : s2'[u][i] = s2[u][i]
        /\ 1..n = 1..n - 1 \cup {n}
    BY <2>0, <2>3
  <2>5. U!OfUser(u)' = U!OfUser(u) \cup {new}
    BY <2>4 DEF U!OfUser
  <2>6. \A v \in U!Users \ {u} : U!OfUser(v)' = U!OfUser(v)
    BY <2>3 DEF U!OfUser
  <2>7. \A v \in U!Users : \A t \in U!OfUser(v) : U!CreatedAt(t)' = U!CreatedAt(t)
    <3> TAKE v \in U!Users
    <3> TAKE t \in U!OfUser(v)
    <3>1. t[1] = v /\ t[2] \in DOMAIN s2[v]
      BY DEF U!OfUser
    <3>2. CASE v = u
      BY <2>4, <3>1, <3>2 DEF U!CreatedAt
    <3>3. CASE v # u
      BY <2>3, <3>1, <3>3 DEF U!CreatedAt
    <3> QED
      BY <3>2, <3>3
  <2>8. U!CreatedAt(new)' = s1 /\ new[1] = u /\ new[2] = n
    BY <2>4 DEF U!CreatedAt
  <2>9. \A v \in U!Users : \A t \in U!OfUser(v) :
          U!CreatedAt(t) <= s1 /\ U!CreatedAt(t) \in Nat
    BY TrackIs
  <2>10. Onward
    <3>1. \A v \in U!Users : U!OfUser(v) \subseteq U!OfUser(v)'
      BY <2>5, <2>6
    <3>2. ASSUME NEW v \in U!Users, NEW t \in U!OfUser(v)', t \notin U!OfUser(v)
          PROVE  v = u /\ t = new
      BY <2>5, <2>6, <3>2
    <3>3. ASSUME NEW v \in U!Users, NEW t \in U!OfUser(v)',
                 t \notin U!OfUser(v), NEW s \in U!OfUser(v)
          PROVE  U!CreatedAt(s) <= U!CreatedAt(t)'
      <4>1. t = new
        BY <3>2, <3>3
      <4> QED
        BY <2>8, <2>9, <4>1
    <3> QED
      BY <2>7, <3>1, <3>3 DEF Onward
  <2>11. \A t \in U!Tracks' : U!CreatedAt(t)' <= s1
    <3>1. ASSUME NEW v \in U!Users, NEW t \in U!OfUser(v)' PROVE U!CreatedAt(t)' <= s1
      <4>1. CASE t \in U!OfUser(v)
        BY <2>7, <2>9, <4>1
      <4>2. CASE t \notin U!OfUser(v)
        <5>1. t = new
          BY <2>5, <2>6, <4>2
        <5> QED
          BY <2>1, <2>8, <5>1
      <4> QED
        BY <4>1, <4>2
    <3>2. \A t \in U!Tracks' : \E v \in U!Users : t \in U!OfUser(v)'
      BY DEF U!Tracks
    <3> QED
      BY <3>1, <3>2
  <2>12. ASSUME NEW v \in U!Users, NEW s \in U!OfUser(v)', NEW t \in U!OfUser(v)', s[2] <= t[2]
         PROVE  U!CreatedAt(s)' <= U!CreatedAt(t)'
    <3>1. CASE s \in U!OfUser(v) /\ t \in U!OfUser(v)
      BY <2>7, <2>12, <3>1 DEF U!Ascending
    <3>2. CASE t \notin U!OfUser(v)
      <4>1. t = new /\ s \in U!Tracks'
        BY <2>5, <2>6, <3>2 DEF U!Tracks
      <4> QED
        BY <2>8, <2>11, <4>1
    <3>3. CASE s \notin U!OfUser(v) /\ t \in U!OfUser(v)
      <4>1. v = u /\ s = new /\ t[2] \in 1..n - 1
        BY <2>4, <2>5, <2>6, <3>3 DEF U!OfUser
      <4> QED
        BY <2>4, <2>8, <2>12, <4>1
    <3> QED
      BY <3>1, <3>2, <3>3
  <2> QED
    BY <2>1, <2>3, <2>10, <2>11, <2>12 DEF U!Ascending
<1>3. CASE U!Tick
  BY <1>1, <1>3 DEF U!Tick
<1>4. CASE UNCHANGED U!server
  BY <1>1, <1>4 DEF U!server
<1> QED
  BY <1>2, <1>3, <1>4 DEF U!Next, U!vars, U!Start, U!ReadCache, U!Page, U!PageFails,
     U!PageUnparsable, U!OnlyCached, U!OpenFile, U!WriteFile, U!NoFile, U!Stream, U!Restart

\* What a list of tracks says in the shape the proofs need: its tracks, by place.
LEMMA InList ==
  ASSUME U!Ascending, NEW u \in U!Users, NEW q \in Seq(U!OfUser(u)), NEW i \in DOMAIN q
  PROVE  /\ q[i] \in U!OfUser(u) /\ i \in 1..Len(q) /\ Len(q) \in Nat
         /\ q[i][2] \in Nat /\ U!CreatedAt(q[i]) \in Nat /\ U!Holds(q, q[i])
<1>1. q[i] \in U!OfUser(u) /\ i \in 1..Len(q) /\ Len(q) \in Nat
  OBVIOUS
<1>2. U!Holds(q, q[i])
  BY DEF U!Holds, U!Range
<1> QED
  BY <1>1, <1>2, TrackIs

\* soundcloud.com: a list that is whole stays so whatever is published.
LEMMA WholeStays ==
  ASSUME U!Ascending, U!Ascending', Onward, NEW u \in U!Users, NEW q, U!Whole(u, q)
  PROVE  U!Whole(u, q)'
<1>1. q \in Seq(U!OfUser(u)) /\ U!Descends(q) /\ U!OfUser(u) \subseteq U!OfUser(u)'
  BY DEF U!Whole, Onward
<1>2. q \in Seq(U!OfUser(u)')
  BY <1>1
<1>3. \A i \in DOMAIN q : q[i] \in U!OfUser(u) /\ U!CreatedAt(q[i])' = U!CreatedAt(q[i])
  BY <1>1, InList DEF Onward
<1>4. ASSUME q # << >>, NEW t \in U!OfUser(u)', U!CreatedAt(t)' < U!CreatedAt(q[1])',
             ~U!Holds(q, t)
      PROVE  \E i \in DOMAIN q : U!CreatedAt(q[i])' = U!CreatedAt(t)'
  <2>1. 1 \in DOMAIN q
    BY <1>1, <1>4
  <2>2. /\ U!CreatedAt(q[1]) \in Nat /\ U!CreatedAt(q[1])' = U!CreatedAt(q[1])
        /\ q[1] \in U!OfUser(u)
    BY <1>1, <1>3, <2>1, InList
  <2>3. t \in U!OfUser(u)
    <3> SUFFICES ASSUME t \notin U!OfUser(u) PROVE FALSE
      OBVIOUS
    <3>nat. U!CreatedAt(t)' \in Nat
      BY TimesAreNumbers
    <3>1. U!CreatedAt(q[1]) <= U!CreatedAt(t)'
      BY <2>2 DEF Onward
    <3> QED
      BY <1>4, <2>2, <3>1, <3>nat
  <2> QED
    BY <1>3, <1>4, <2>2, <2>3 DEF U!Whole, Onward
<1> QED
  BY <1>1, <1>2, <1>4 DEF U!Whole, U!Descends, U!Holds

\* soundcloud.com: and so are the recent tracks.
LEMMA RecentStays ==
  ASSUME U!Ascending, U!Ascending', Onward, NEW u \in U!Users, NEW q,
         NEW c \in Seq(U!OfUser(u)), U!Recent(u, q, c)
  PROVE  U!Recent(u, q, c)'
<1>1. q \in Seq(U!OfUser(u)) /\ U!Descends(q) /\ U!OfUser(u) \subseteq U!OfUser(u)'
  BY DEF U!Recent, Onward
<1>2. q \in Seq(U!OfUser(u)')
  BY <1>1
<1>3. \A i \in DOMAIN q : q[i] \in U!OfUser(u) /\ U!CreatedAt(q[i])' = U!CreatedAt(q[i])
  BY <1>1, InList DEF Onward
<1>4. U!From(c)' = U!From(c)
  <2>1. c # << >> => c[1] \in U!OfUser(u)
    OBVIOUS
  <2> QED
    BY <2>1 DEF U!From, Onward
<1>5. ASSUME q # << >>, NEW t \in U!OfUser(u)', U!From(c) <= U!CreatedAt(t)',
             U!CreatedAt(t)' < U!CreatedAt(q[1])'
      PROVE  U!Holds(q, t)
  <2>1. 1 \in DOMAIN q
    BY <1>1, <1>5
  <2>2. /\ U!CreatedAt(q[1]) \in Nat /\ U!CreatedAt(q[1])' = U!CreatedAt(q[1])
        /\ q[1] \in U!OfUser(u)
    BY <1>1, <1>3, <2>1, InList
  <2>3. t \in U!OfUser(u)
    <3> SUFFICES ASSUME t \notin U!OfUser(u) PROVE FALSE
      OBVIOUS
    <3>nat. U!CreatedAt(t)' \in Nat
      BY TimesAreNumbers
    <3>1. U!CreatedAt(q[1]) <= U!CreatedAt(t)'
      BY <2>2 DEF Onward
    <3>2. U!CreatedAt(t)' < U!CreatedAt(q[1])
      BY <1>5, <2>2
    <3> QED
      BY <2>2, <3>1, <3>2, <3>nat
  <2> QED
    BY <1>5, <2>2, <2>3 DEF U!Recent, Onward
<1> QED
  BY <1>1, <1>2, <1>3, <1>4, <1>5 DEF U!Recent, U!Descends, U!Holds

\* track_list_merge of what was fetched and what was cached: newest first, no track twice and
\* none left out, since the fetched ones begin a second after the newest cached one.
LEMMA MergeIsWhole ==
  ASSUME U!Ascending, NEW u \in U!Users, NEW c, NEW q, U!Whole(u, c), U!Recent(u, q, c)
  PROVE  U!Whole(u, U!Merged(q, c))
<1> DEFINE m == q \o c
<1>1. c \in Seq(U!OfUser(u)) /\ q \in Seq(U!OfUser(u)) /\ U!Descends(c) /\ U!Descends(q)
  BY DEF U!Whole, U!Recent
<1>2. /\ m \in Seq(U!OfUser(u)) /\ Len(m) = Len(q) + Len(c) /\ Len(q) \in Nat /\ Len(c) \in Nat
      /\ DOMAIN m = 1..Len(q) + Len(c) /\ DOMAIN q = 1..Len(q) /\ DOMAIN c = 1..Len(c)
      /\ \A i \in 1..Len(q) : m[i] = q[i]
      /\ \A i \in 1..Len(c) : m[Len(q) + i] = c[i]
      /\ \A i \in Len(q) + 1..Len(q) + Len(c) :
            i - Len(q) \in 1..Len(c) /\ m[i] = c[i - Len(q)]
  BY <1>1
<1> HIDE DEF m
<1>3. ASSUME NEW i \in DOMAIN q, NEW j \in DOMAIN c PROVE q[i][2] > c[j][2]
  <2>1. c # << >> /\ 1 \in DOMAIN c
    BY <1>2
  <2>2. U!CreatedAt(q[i]) >= U!CreatedAt(c[1]) + 1
    <3>1. U!CreatedAt(q[i]) >= U!From(c)
      BY DEF U!Recent
    <3> QED
      BY <2>1, <3>1 DEF U!From
  <2>3. /\ q[i] \in U!OfUser(u) /\ c[1] \in U!OfUser(u) /\ c[j] \in U!OfUser(u)
        /\ U!CreatedAt(q[i]) \in Nat /\ U!CreatedAt(c[1]) \in Nat
        /\ q[i][2] \in Nat /\ c[1][2] \in Nat /\ c[j][2] \in Nat
    BY <1>1, <2>1, InList
  <2>4. ~(q[i][2] <= c[1][2])
    <3> SUFFICES ASSUME q[i][2] <= c[1][2] PROVE FALSE
      OBVIOUS
    <3>1. U!CreatedAt(q[i]) <= U!CreatedAt(c[1])
      BY <2>3 DEF U!Ascending
    <3> QED
      BY <2>2, <2>3, <3>1
  <2>5. j = 1 \/ c[1][2] > c[j][2]
    <3>1. j = 1 \/ 1 < j
      BY <1>2
    <3> QED
      BY <1>1, <2>1, <3>1 DEF U!Descends
  <2> QED
    BY <2>3, <2>4, <2>5
<1>4. U!Descends(m)
  <2> SUFFICES ASSUME NEW i \in DOMAIN m, NEW j \in DOMAIN m, i < j PROVE m[i][2] > m[j][2]
    BY DEF U!Descends
  <2>1. CASE i \in 1..Len(q) /\ j \in 1..Len(q)
    BY <1>1, <1>2, <2>1 DEF U!Descends
  <2>2. CASE i \in 1..Len(q) /\ j \notin 1..Len(q)
    <3>1. j \in Len(q) + 1..Len(q) + Len(c)
      BY <1>2, <2>2
    <3> QED
      BY <1>2, <1>3, <2>2, <3>1
  <2>3. CASE i \notin 1..Len(q)
    <3>1. i \in Len(q) + 1..Len(q) + Len(c) /\ j \in Len(q) + 1..Len(q) + Len(c)
      BY <1>2, <2>3
    <3>2. i - Len(q) \in DOMAIN c /\ j - Len(q) \in DOMAIN c /\ i - Len(q) < j - Len(q)
      BY <1>2, <3>1
    <3>3. c[i - Len(q)][2] > c[j - Len(q)][2]
      BY <1>1, <3>2 DEF U!Descends
    <3> QED
      BY <1>2, <3>1, <3>3
  <2> QED
    BY <2>1, <2>2, <2>3
<1>5. \A t : U!Holds(q, t) \/ U!Holds(c, t) => U!Holds(m, t)
  <2>1. \A i \in DOMAIN q : i \in DOMAIN m /\ m[i] = q[i]
    BY <1>2
  <2>2. \A i \in DOMAIN c : Len(q) + i \in DOMAIN m /\ m[Len(q) + i] = c[i]
    BY <1>2
  <2> QED
    BY <2>1, <2>2 DEF U!Holds, U!Range
<1>6. ASSUME m # << >>, NEW t \in U!OfUser(u), U!CreatedAt(t) < U!CreatedAt(m[1]),
             ~U!Holds(m, t)
      PROVE  \E i \in DOMAIN m : U!CreatedAt(m[i]) = U!CreatedAt(t)
  <2>1. ~U!Holds(q, t) /\ ~U!Holds(c, t) /\ U!CreatedAt(t) \in Nat
    BY <1>5, <1>6, TrackIs
  <2>2. CASE q = << >>
    <3>1. m = c
      BY <1>1, <2>2 DEF m
    <3> QED
      BY <1>6, <2>1, <3>1 DEF U!Whole
  <2>3. CASE q # << >>
    <3>1. m[1] = q[1] /\ 1 \in DOMAIN q
      BY <1>1, <1>2, <2>3
    <3>2. ~(U!From(c) <= U!CreatedAt(t))
      BY <1>6, <2>1, <2>3, <3>1 DEF U!Recent
    <3>3. c # << >> /\ 1 \in DOMAIN c /\ c[1] \in U!OfUser(u) /\ U!CreatedAt(c[1]) \in Nat
      <4>1. c # << >>
        BY <2>1, <3>2 DEF U!From
      <4> QED
        BY <1>1, <4>1, InList
    <3>4. ~(U!CreatedAt(c[1]) + 1 <= U!CreatedAt(t))
      BY <3>2, <3>3 DEF U!From
    <3>5. PICK i \in DOMAIN c : U!CreatedAt(c[i]) = U!CreatedAt(t)
      <4>1. CASE U!CreatedAt(t) = U!CreatedAt(c[1])
        BY <3>3, <4>1
      <4>2. CASE U!CreatedAt(t) < U!CreatedAt(c[1])
        BY <2>1, <3>3, <4>2 DEF U!Whole
      <4> QED
        BY <2>1, <3>3, <3>4, <4>1, <4>2
    <3>6. Len(q) + i \in DOMAIN m /\ m[Len(q) + i] = c[i]
      BY <1>2
    <3> QED
      BY <3>5, <3>6
  <2> QED
    BY <2>2, <2>3
<1> QED
  BY <1>2, <1>4, <1>6 DEF U!Whole, U!Merged, m

\* Two lists put together, by place.
LEMMA PutTogether ==
  ASSUME NEW S, NEW p \in Seq(S), NEW q \in Seq(S)
  PROVE  /\ p \o q \in Seq(S) /\ Len(p) \in Nat /\ Len(q) \in Nat
         /\ Len(p \o q) = Len(p) + Len(q)
         /\ \A i \in 1..Len(p) : (p \o q)[i] = p[i]
         /\ \A i \in 1..Len(q) : (p \o q)[Len(p) + i] = q[i]
OBVIOUS

\* Putting lists together is associative, also where the library's fact is out of reach of
\* the provers, among all the constants and variables of the parts.
LEMMA PutTogetherTwice ==
  ASSUME NEW S, NEW p \in Seq(S), NEW q \in Seq(S), NEW r \in Seq(S)
  PROVE  (p \o q) \o r = p \o (q \o r)
<1> DEFINE a == p \o q
           b == q \o r
           x == a \o r
           y == p \o b
<1>1. PICK k \in Nat, l \in Nat, m \in Nat : k = Len(p) /\ l = Len(q) /\ m = Len(r)
  OBVIOUS
<1>2. /\ a \in Seq(S) /\ Len(a) = k + l
      /\ \A i \in 1..k : a[i] = p[i]
      /\ \A i \in 1..l : a[k + i] = q[i]
  BY <1>1, PutTogether
<1>3. /\ b \in Seq(S) /\ Len(b) = l + m
      /\ \A i \in 1..l : b[i] = q[i]
      /\ \A i \in 1..m : b[l + i] = r[i]
  BY <1>1, PutTogether
<1> HIDE DEF a, b
<1>4. /\ x \in Seq(S) /\ Len(x) = k + l + m
      /\ \A i \in 1..k + l : x[i] = a[i]
      /\ \A i \in 1..m : x[k + l + i] = r[i]
  <2>1. /\ x \in Seq(S) /\ Len(x) = Len(a) + Len(r)
        /\ \A i \in 1..Len(a) : x[i] = a[i]
        /\ \A i \in 1..Len(r) : x[Len(a) + i] = r[i]
    <3>1. a \in Seq(S)
      BY <1>2
    <3> QED
      BY <3>1, PutTogether
  <2> HIDE DEF x
  <2> QED
    BY <1>1, <1>2, <2>1
<1>5. /\ y \in Seq(S) /\ Len(y) = k + l + m
      /\ \A i \in 1..k : y[i] = p[i]
      /\ \A i \in 1..l + m : y[k + i] = b[i]
  <2>1. /\ y \in Seq(S) /\ Len(y) = Len(p) + Len(b)
        /\ \A i \in 1..Len(p) : y[i] = p[i]
        /\ \A i \in 1..Len(b) : y[Len(p) + i] = b[i]
    <3>1. b \in Seq(S)
      BY <1>3
    <3> QED
      BY <3>1, PutTogether
  <2> HIDE DEF y
  <2> QED
    BY <1>1, <1>3, <2>1
<1> HIDE DEF x, y
<1>6. ASSUME NEW i \in 1..k + l + m PROVE x[i] = y[i]
  <2>1. CASE i <= k
    BY <1>1, <1>2, <1>4, <1>5, <2>1
  <2>2. CASE k < i /\ i <= k + l
    <3>1. PICK j \in 1..l : i = k + j
      <4>1. i - k \in 1..l /\ i = k + (i - k)
        BY <2>2
      <4> QED
        BY <4>1
    <3>2. i \in 1..k + l /\ j \in 1..l + m
      BY <3>1
    <3> QED
      BY <1>2, <1>3, <1>4, <1>5, <3>1, <3>2
  <2>3. CASE k + l < i
    <3>1. PICK j \in 1..m : i = k + l + j
      <4>1. i - (k + l) \in 1..m /\ i = k + l + (i - (k + l))
        BY <2>3
      <4> QED
        BY <4>1
    <3>2. l + j \in 1..l + m /\ i = k + (l + j)
      BY <3>1
    <3> QED
      BY <1>3, <1>4, <1>5, <3>1, <3>2
  <2> QED
    BY <2>1, <2>2, <2>3
<1>7. x = y
  BY <1>4, <1>5, <1>6, SeqEqual
<1> QED
  BY <1>7 DEF x, y, a, b

\* soundcloud_get_entries: what a page takes from those to come is put behind those had.
LEMMA PageMoves ==
  ASSUME NEW S, NEW f \in Seq(S), NEW r \in Seq(S), NEW n \in 0..Len(r)
  PROVE  /\ f \o SubSeq(r, 1, n) \in Seq(S) /\ SubSeq(r, n + 1, Len(r)) \in Seq(S)
         /\ (f \o SubSeq(r, 1, n)) \o SubSeq(r, n + 1, Len(r)) = f \o r
<1> DEFINE a == SubSeq(r, 1, n)
           b == SubSeq(r, n + 1, Len(r))
<1>1. Len(r) \in Nat /\ n \in Nat /\ n <= Len(r)
  BY LenProperties
<1>2. a \in Seq(S) /\ b \in Seq(S)
  <2>1. \A i \in 1..Len(r) : r[i] \in S
    BY ElementOfSeq
  <2> QED
    BY <1>1, <2>1, SubSeqProperties
<1>3. a \o b = r
  <2>1. 1 \in 1..Len(r) + 1 /\ n \in 1 - 1..Len(r) /\ Len(r) \in n..Len(r)
    BY <1>1
  <2> QED
    BY <2>1, ConcatAdjacentSubSeq, SubSeqFull
<1> HIDE DEF a, b
<1>4. f \o a \in Seq(S)
  BY <1>2, PutTogether
<1>5. (f \o a) \o b = f \o (a \o b)
  <2>1. a \in Seq(S)
    BY <1>2
  <2>2. b \in Seq(S)
    BY <1>2
  <2> QED
    BY <2>1, <2>2, PutTogetherTwice
<1> QED
  BY <1>2, <1>3, <1>4, <1>5 DEF a, b

\* soundcloud.com: what is asked for with the time of the newest cached track.
LEMMA ReadIsRecent ==
  ASSUME U!Ascending, NEW u \in U!Users, NEW c \in Seq(U!OfUser(u)), NEW n \in 0..Len(s2[u]),
         \A t \in U!OfUser(u) : t[2] > n <=> U!CreatedAt(t) >= U!From(c)
  PROVE  U!Recent(u, U!NewestFirst(u, n), c)
<1> DEFINE k == Len(s2[u])
           q == U!NewestFirst(u, n)
<1>1. k \in Nat /\ n \in Nat /\ n <= k /\ DOMAIN s2[u] = 1..k
  BY DEF U!Ascending
<1>2. \A i \in 1..k : <<u, i>> \in U!OfUser(u)
  BY <1>1 DEF U!OfUser
<1> HIDE DEF k
<1>3. q = [i \in 1..k - n |-> <<u, k + 1 - i>>]
  BY DEF U!NewestFirst, k
<1>4. /\ DOMAIN q = 1..k - n
      /\ \A i \in 1..k - n :
            q[i] = <<u, k + 1 - i>> /\ q[i][2] = k + 1 - i /\ q[i] \in U!OfUser(u)
  <2>1. \A i \in 1..k - n : k + 1 - i \in 1..k
    BY <1>1
  <2> QED
    BY <1>2, <1>3, <2>1
<1>5. q \in Seq(U!OfUser(u))
  <2>1. PICK d \in Nat : d = k - n
    BY <1>1
  <2>2. \A i \in 1..d : <<u, k + 1 - i>> \in U!OfUser(u)
    BY <1>4, <2>1
  <2> QED
    BY <1>3, <2>1, <2>2
<1> HIDE DEF q
<1>6. U!Descends(q)
  BY <1>1, <1>4 DEF U!Descends
<1>7. \A i \in DOMAIN q : U!CreatedAt(q[i]) >= U!From(c)
  BY <1>1, <1>4
<1>8. ASSUME NEW t \in U!OfUser(u), U!From(c) <= U!CreatedAt(t) PROVE U!Holds(q, t)
  <2>1. t = <<u, t[2]>> /\ t[2] \in 1..k /\ U!CreatedAt(t) \in Nat
    BY TrackIs DEF k
  <2>2. U!From(c) \in Nat
    <3>1. c # << >> => 1 \in DOMAIN c
      OBVIOUS
    <3>2. c # << >> => U!CreatedAt(c[1]) \in Nat
      BY <3>1, InList
    <3> QED
      BY <3>2 DEF U!From
  <2>3. t[2] > n
    BY <1>8, <2>1, <2>2
  <2>4. k + 1 - t[2] \in 1..k - n /\ k + 1 - (k + 1 - t[2]) = t[2]
    BY <1>1, <2>1, <2>3
  <2> QED
    BY <1>4, <2>1, <2>4 DEF U!Holds, U!Range
<1> QED
  BY <1>5, <1>6, <1>7, <1>8 DEF U!Recent, q

\* What the caches are is about their users, at every step.
UsersInv ==
    /\ U!Ascending /\ U!CachesWhole /\ U!MergesOnce /\ s5 \in U!Users
    /\ U!NoTrackTwice /\ U!StreamSorted

\* There is a user.
LEMMA OneUser == 1 \in U!Users
BY PartsAssumption DEF U!SizesAssumption, U!Users

\* The loop over the users goes on with one of them or ends.
LEMMA NextUser ==
  ASSUME s5 \in U!Users, NEW result, U!Done(result)
  PROVE  s4' \in {"read", "stream"} /\ s5' \in U!Users
BY PartsAssumption DEF U!SizesAssumption, U!Users, U!Done

\* soundcloud_get_stream, jspf_write: what is cached and fetched stays whole at every step.
LEMMA CachesKept ==
  ASSUME U!Ascending, U!Ascending', Onward, s5 \in U!Users, U!CachesWhole, [U!Next]_(U!vars)
  PROVE  U!CachesWhole' /\ s5' \in U!Users
<1>1. \A u \in U!Users : \A q : U!Whole(u, q) => U!Whole(u, q)'
  BY WholeStays
<1>2. \A u \in U!Users : \A c \in Seq(U!OfUser(u)) : \A q :
        U!Recent(u, q, c) => U!Recent(u, q, c)'
  BY RecentStays
<1>3. \A u \in U!Users : \A q \in Seq(U!OfUser(u)) : q \in Seq(U!OfUser(u)')
  BY DEF Onward
<1>4. /\ DOMAIN s3 = U!Users
      /\ \A u \in U!Users : s3[u] # U!Cut => U!Whole(u, s3[u])
      /\ s4 \in {"fetch", "merge", "write"} => U!Whole(s5, s7) /\ s7 \in Seq(U!OfUser(s5))
      /\ s4 = "fetch" => /\ U!Recent(s5, U!Fetched \o s9, s7)
                         /\ U!Fetched \in Seq(U!OfUser(s5))
                         /\ s9 \in Seq(U!OfUser(s5))
      /\ s4 \in {"merge", "write"} /\ s8 # U!Null => U!Recent(s5, s8, s7)
      /\ s4 = "write" => s8 # U!Null
  BY DEF U!CachesWhole, U!Whole
<1>5. ASSUME s3' = s3
      PROVE  (DOMAIN s3 = U!Users /\ \A u \in U!Users : s3[u] # U!Cut => U!Whole(u, s3[u]))'
  BY <1>1, <1>4, <1>5 DEF U!Cut
<1>6. CASE UNCHANGED <<s3, s4, s5, s7, s8, s9>>
  <2>1. UNCHANGED U!Fetched
    BY <1>6 DEF U!Fetched, U!Null
  <2>2. s4 \in {"fetch", "merge", "write"} => U!Whole(s5, s7)'
    BY <1>1, <1>4, <1>6
  <2>3. s4 = "fetch" => /\ U!Recent(s5, U!Fetched \o s9, s7)'
                        /\ ({U!Fetched, s9} \subseteq Seq(U!OfUser(s5)))'
    BY <1>2, <1>3, <1>4, <1>6, <2>1
  <2>4. s4 \in {"merge", "write"} /\ s8 # U!Null => U!Recent(s5, s8, s7)'
    BY <1>2, <1>4, <1>6
  <2> QED
    BY <1>4, <1>5, <1>6, <2>2, <2>3, <2>4 DEF U!CachesWhole, U!Null, U!Cut
<1>7. CASE U!Tick \/ (\E u \in U!Users : U!Publish(u)) \/ U!Stream \/ UNCHANGED U!vars
  <2>1. UNCHANGED <<s3, s5, s7, s8, s9>> /\ (s4' = s4 \/ s4' = "end")
    BY <1>7 DEF U!Tick, U!Publish, U!Stream, U!vars, U!server
  <2> QED
    BY <1>5, <1>6, <2>1 DEF U!CachesWhole
<1>8. CASE U!Start \/ U!Restart
  <2>1. s3' = s3 /\ s5' = 1 /\ s4' \in {"read", "start"}
    BY <1>8 DEF U!Start, U!Restart
  <2> QED
    BY <1>5, <2>1, OneUser DEF U!CachesWhole
<1>9. CASE U!ReadCache
  <2>1. U!Whole(s5, U!Read(s5)) /\ U!Read(s5) \in Seq(U!OfUser(s5))
    <3>1. U!Whole(s5, << >>)
      BY DEF U!Whole, U!Descends
    <3> QED
      BY <1>4, <3>1 DEF U!Read, U!Whole
  <2>2. PICK n \in 0..Len(s2[s5]) :
          /\ \A t \in U!OfUser(s5) : t[2] > n <=> U!CreatedAt(t) >= U!From(U!Read(s5))
          /\ s9' = U!NewestFirst(s5, n)
    BY <1>9 DEF U!ReadCache
  <2>3. U!Recent(s5, U!NewestFirst(s5, n), U!Read(s5))
    BY <2>1, <2>2, ReadIsRecent
  <2>4. s3' = s3 /\ s5' = s5 /\ s4' = "fetch" /\ s7' = U!Read(s5) /\ s8' = U!Null
    BY <1>9 DEF U!ReadCache
  <2>5. U!Fetched' = << >> /\ (U!Fetched \o s9)' = U!NewestFirst(s5, n)
    <3>1. U!Fetched' = << >>
      BY <2>4 DEF U!Fetched, U!Null
    <3>2. s9' \in Seq(U!OfUser(s5))
      BY <2>2, <2>3 DEF U!Recent
    <3> QED
      BY <2>2, <3>1, <3>2
  <2>6. U!Whole(s5, s7)'
    BY <1>1, <2>1, <2>4
  <2>7. U!Recent(s5, U!Fetched \o s9, s7)'
    BY <1>2, <2>1, <2>3, <2>4, <2>5
  <2>8. s9' \in Seq(U!OfUser(s5)) /\ s9' \in Seq(U!OfUser(s5)')
    BY <1>3, <2>2, <2>3, <2>4 DEF U!Recent
  <2> QED
    BY <1>5, <2>4, <2>5, <2>6, <2>7, <2>8 DEF U!CachesWhole
<1>10. CASE U!Page
  <2> DEFINE f == U!Fetched
             S == U!OfUser(s5)
  <2>1. /\ s3' = s3 /\ s5' = s5 /\ s7' = s7 /\ s4 = "fetch"
        /\ s4' = "fetch" \/ (s4' = "merge" /\ s9' = << >>)
    BY <1>10 DEF U!Page
  <2>2. s9 \in Seq(S) /\ f \in Seq(S) /\ U!Recent(s5, f \o s9, s7)
    BY <1>4, <2>1
  <2>3. PICK n \in 0..Len(s9) : s8' = f \o SubSeq(s9, 1, n) /\ s9' = SubSeq(s9, n + 1, Len(s9))
    <3>1. Len(s9) \in Nat
      BY <2>2
    <3>2. PageLimit \in Nat
      BY PartsAssumption DEF U!SizesAssumption
    <3> DEFINE n == IF Len(s9) < PageLimit THEN Len(s9) ELSE PageLimit
    <3>3. s8' = f \o SubSeq(s9, 1, n) /\ s9' = SubSeq(s9, n + 1, Len(s9))
      BY <1>10 DEF U!Page, U!Fetched
    <3>4. n \in 0..Len(s9)
      BY <3>1, <3>2
    <3> HIDE DEF n, f
    <3> QED
      BY <3>3, <3>4
  <2> HIDE DEF f
  <2>4. s8' \in Seq(S) /\ s9' \in Seq(S) /\ s8' \o s9' = f \o s9
    <3>1. f \in Seq(S) /\ s9 \in Seq(S)
      BY <2>2
    <3> HIDE DEF S
    <3>2. \A a, b \in Seq(S) : \A k \in 0..Len(b) :
            /\ a \o SubSeq(b, 1, k) \in Seq(S) /\ SubSeq(b, k + 1, Len(b)) \in Seq(S)
            /\ (a \o SubSeq(b, 1, k)) \o SubSeq(b, k + 1, Len(b)) = a \o b
      BY PageMoves
    <3> QED
      BY <2>3, <3>1, <3>2
  <2>5. s8' # U!Null
    <3> SUFFICES ASSUME s8' = <<<<0, 0>>>> PROVE FALSE
      BY DEF U!Null
    <3>1. s8'[1] = <<0, 0>> /\ 1 \in DOMAIN s8'
      OBVIOUS
    <3>2. <<0, 0>> \in S
      BY <2>4, <3>1
    <3> QED
      BY <3>2 DEF U!OfUser, U!Users
  <2>6. U!Fetched' = s8'
    BY <2>5 DEF U!Fetched, U!Null
  <2>7. U!Whole(s5, s7)' /\ U!Recent(s5, s8 \o s9, s7)'
    BY <1>1, <1>2, <1>4, <2>1, <2>2, <2>4
  <2>8. s8' \in Seq(U!OfUser(s5)') /\ s9' \in Seq(U!OfUser(s5)')
    BY <1>3, <2>1, <2>4
  <2>9. ASSUME s9' = << >> PROVE U!Recent(s5, s8, s7)'
    <3>1. s8' \o s9' = s8'
      BY <2>4, <2>9
    <3> QED
      BY <2>7, <3>1
  <2> QED
    BY <1>5, <2>1, <2>5, <2>6, <2>7, <2>8, <2>9 DEF U!CachesWhole, U!Null
<1>11. CASE U!PageFails
  <2>1. s3' = s3 /\ s5' = s5 /\ s4 = "fetch" /\ s4' = "merge" /\ s7' = s7 /\ s8' = U!Null
    BY <1>11 DEF U!PageFails
  <2>2. U!Whole(s5, s7)'
    BY <1>1, <1>4, <2>1
  <2> QED
    BY <1>5, <2>1, <2>2 DEF U!CachesWhole, U!Null
<1>12. CASE U!PageUnparsable
  <2>1. s3' = s3 /\ s5' = s5 /\ s7' = s7 /\ s8' = s8 /\ s4 = "fetch"
    BY <1>12 DEF U!PageUnparsable
  <2>2. s4' = "undefined" \/ (s4' = "merge" /\ s8 = U!Null)
    BY <1>12 DEF U!PageUnparsable
  <2>3. U!Whole(s5, s7)'
    BY <1>1, <1>4, <2>1
  <2> QED
    BY <1>5, <2>1, <2>2, <2>3 DEF U!CachesWhole, U!Null
<1>13. CASE U!OnlyCached
  <2>1. s3' = s3 /\ s4' \in {"read", "stream"} /\ s5' \in U!Users
    BY <1>13, NextUser DEF U!OnlyCached
  <2> QED
    BY <1>5, <2>1 DEF U!CachesWhole
<1>14. CASE U!OpenFile
  <2>1. /\ s3' = [s3 EXCEPT ![s5] = U!Cut] /\ s5' = s5 /\ s7' = s7 /\ s8' = s8
        /\ s4 = "merge" /\ s4' = "write" /\ s8 # U!Null
    BY <1>14 DEF U!OpenFile
  <2>2. (DOMAIN s3 = U!Users /\ \A u \in U!Users : s3[u] # U!Cut => U!Whole(u, s3[u]))'
    BY <1>1, <1>4, <2>1 DEF U!Cut
  <2>3. U!Whole(s5, s7)' /\ U!Recent(s5, s8, s7)'
    BY <1>1, <1>2, <1>4, <2>1
  <2> QED
    BY <2>1, <2>2, <2>3 DEF U!CachesWhole, U!Null
<1>15. CASE U!WriteFile \/ U!NoFile
  <2>1. U!Whole(s5, U!Merged(s8, s7))
    BY <1>4, <1>15, MergeIsWhole DEF U!WriteFile, U!NoFile
  <2>2. s3' \in {s3, [s3 EXCEPT ![s5] = U!Merged(s8, s7)]}
    BY <1>15 DEF U!WriteFile, U!NoFile
  <2>3. (DOMAIN s3 = U!Users /\ \A u \in U!Users : s3[u] # U!Cut => U!Whole(u, s3[u]))'
    BY <1>1, <1>4, <2>1, <2>2 DEF U!Cut
  <2>4. s4' \in {"read", "stream"} /\ s5' \in U!Users
    BY <1>15, NextUser DEF U!WriteFile, U!NoFile
  <2> QED
    BY <2>3, <2>4 DEF U!CachesWhole
<1> QED
  BY <1>7, <1>8, <1>9, <1>10, <1>11, <1>12, <1>13, <1>14, <1>15 DEF U!Next

\* track_list_merge: a list of the user that is done comes behind those of the users before.
LEMMA DoneOnce ==
  ASSUME U!Ascending, s5 \in U!Users, U!MergesOnce, NEW q, U!Whole(s5, q), U!Done(q),
         s4 \in {"read", "fetch", "merge", "write"}
  PROVE  /\ s10' \in Seq(U!Tracks) /\ U!Distinct(s10')
         /\ s4' = "stream" \/ (s4' = "read" /\ \A i \in DOMAIN s10' : s10'[i][1] < s5')
<1> DEFINE m == s10 \o q
           tracks == U!Tracks
<1>1. s10' = m
  BY DEF U!Done, U!Merged
<1>2. /\ q \in Seq(U!OfUser(s5)) /\ U!Descends(q) /\ s10 \in Seq(tracks) /\ U!Distinct(s10)
      /\ \A i \in DOMAIN s10 : s10[i][1] < s5
  BY DEF U!Whole, U!MergesOnce
<1>3. U!OfUser(s5) \subseteq tracks
  BY DEF U!Tracks
<1>4. /\ m \in Seq(tracks) /\ Len(s10) \in Nat /\ Len(q) \in Nat
      /\ DOMAIN m = 1..Len(s10) + Len(q)
      /\ DOMAIN s10 = 1..Len(s10) /\ DOMAIN q = 1..Len(q)
      /\ \A i \in 1..Len(s10) : m[i] = s10[i]
      /\ \A i \in Len(s10) + 1..Len(s10) + Len(q) :
            i - Len(s10) \in 1..Len(q) /\ m[i] = q[i - Len(s10)]
  BY <1>2, <1>3
<1> HIDE DEF m, tracks
<1>5. \A i \in DOMAIN q : q[i][1] = s5 /\ q[i][2] \in Nat
  BY <1>2, InList, TrackIs
<1>6. s5 \in Nat /\ NUsers \in Nat /\ \A t \in tracks : t[1] \in Nat
  BY PartsAssumption, TrackIs DEF U!SizesAssumption, U!Users, U!Tracks, tracks
<1>7. \A i \in DOMAIN m : IF i \in 1..Len(s10) THEN m[i][1] < s5 ELSE m[i][1] = s5
  <2> SUFFICES ASSUME NEW i \in DOMAIN m, i \notin 1..Len(s10) PROVE m[i][1] = s5
    BY <1>2, <1>4
  <2>1. i \in Len(s10) + 1..Len(s10) + Len(q)
    BY <1>4
  <2> QED
    BY <1>4, <1>5, <2>1
<1>8. U!Distinct(m)
  <2> SUFFICES ASSUME NEW i \in DOMAIN m, NEW j \in DOMAIN m, m[i] = m[j] PROVE i = j
    BY DEF U!Distinct
  <2>1. i \in 1..Len(s10) <=> j \in 1..Len(s10)
    BY <1>6, <1>7
  <2>2. CASE i \in 1..Len(s10)
    BY <1>2, <1>4, <2>1, <2>2 DEF U!Distinct
  <2>3. CASE i \notin 1..Len(s10)
    <3>1. i \in Len(s10) + 1..Len(s10) + Len(q) /\ j \in Len(s10) + 1..Len(s10) + Len(q)
      BY <1>4, <2>1, <2>3
    <3>2. PICK a \in DOMAIN q, b \in DOMAIN q :
            a = i - Len(s10) /\ b = j - Len(s10) /\ q[a] = q[b]
      BY <1>4, <3>1
    <3>3. ~(a < b) /\ ~(b < a)
      BY <1>2, <1>5, <3>2 DEF U!Descends
    <3> QED
      BY <1>4, <3>1, <3>2, <3>3
  <2> QED
    BY <2>2, <2>3
<1>9. s4' = "stream" \/ (s4' = "read" /\ s5' = s5 + 1)
  BY DEF U!Done
<1>10. \A i \in DOMAIN m : m[i][1] < s5 + 1
  <2>1. \A i \in DOMAIN m : m[i][1] \in Nat
    BY <1>4, <1>6
  <2> QED
    BY <1>6, <1>7, <2>1
<1> QED
  BY <1>1, <1>4, <1>8, <1>9, <1>10 DEF tracks

\* track_list_sort: the tracks sorted are the same, each once, and newest first.
LEMMA SortedOnce ==
  ASSUME NEW q \in Seq(U!Tracks), U!Distinct(q), NEW r \in U!Sorted(q)
  PROVE  /\ r \in Seq(U!Tracks) /\ U!Distinct(r)
         /\ \A i, j \in DOMAIN r : i < j => U!CreatedAt(r[i]) >= U!CreatedAt(r[j])
<1>1. PICK p \in U!Bijection(DOMAIN q, DOMAIN q) :
        /\ \A i, j \in DOMAIN q : i < j => U!CreatedAt(q[p[i]]) >= U!CreatedAt(q[p[j]])
        /\ r = [i \in DOMAIN q |-> q[p[i]]]
  BY DEF U!Sorted
<1>2. /\ \A i \in DOMAIN q : p[i] \in DOMAIN q
      /\ \A i, j \in DOMAIN q : p[i] = p[j] => i = j
  BY <1>1 DEF U!Bijection, U!Injection, U!IsInjective
<1>3. PICK n \in Nat : n = Len(q) /\ DOMAIN q = 1..n
  OBVIOUS
<1>4. r \in Seq(U!Tracks)
  <2>1. \A i \in 1..n : q[p[i]] \in U!Tracks
    BY <1>2, <1>3
  <2> QED
    BY <1>1, <1>3, <2>1
<1>5. U!Distinct(r)
  <2>1. DOMAIN r = DOMAIN q /\ \A i \in DOMAIN q : r[i] = q[p[i]]
    BY <1>1
  <2>2. ASSUME NEW i \in DOMAIN q, NEW j \in DOMAIN q, q[p[i]] = q[p[j]] PROVE i = j
    <3>1. p[i] = p[j]
      BY <1>2, <2>2 DEF U!Distinct
    <3> QED
      BY <1>2, <3>1
  <2> QED
    BY <2>1, <2>2 DEF U!Distinct
<1> QED
  BY <1>1, <1>4, <1>5

\* soundcloud_get_stream: every track is merged once, and the stream are those sorted.
LEMMA MergesKept ==
  ASSUME U!Ascending, U!Ascending', Onward, s5 \in U!Users, U!CachesWhole, U!MergesOnce,
         U!NoTrackTwice, U!StreamSorted, [U!Next]_(U!vars)
  PROVE  U!MergesOnce' /\ U!NoTrackTwice' /\ U!StreamSorted'
<1>1. /\ s10 \in Seq(U!Tracks) /\ U!Distinct(s10) /\ (s4 = "start" => s10 = << >>)
      /\ s4 \in {"read", "fetch", "merge", "write"} => \A i \in DOMAIN s10 : s10[i][1] < s5
      /\ s11 # U!Null => s11 \in Seq(U!Tracks)
  BY DEF U!MergesOnce
<1>2. U!Tracks \subseteq U!Tracks' /\ \A t \in U!Tracks : U!CreatedAt(t)' = U!CreatedAt(t)
  BY DEF Onward, U!Tracks
<1>3. \A q \in Seq(U!Tracks) : q \in Seq(U!Tracks')
  BY <1>2
<1>4. ASSUME s11' = s11
      PROVE  U!NoTrackTwice' /\ U!StreamSorted' /\ (s11 # U!Null => s11 \in Seq(U!Tracks))'
  <2>1. CASE s11 = U!Null
    BY <1>4, <2>1 DEF U!NoTrackTwice, U!StreamSorted, U!Null
  <2>2. CASE s11 # U!Null
    <3>1. s11 \in Seq(U!Tracks)
      BY <1>1, <2>2
    <3>2. \A i \in 1..Len(s11) : U!CreatedAt(s11[i])' = U!CreatedAt(s11[i])
      BY <1>2, <1>4, <3>1
    <3>3. \A i \in 1..Len(s11) - 1 : i \in 1..Len(s11) /\ i + 1 \in 1..Len(s11)
      BY <3>1
    <3> QED
      BY <1>3, <1>4, <2>2, <3>1, <3>2, <3>3 DEF U!NoTrackTwice, U!StreamSorted, U!Null
  <2> QED
    BY <2>1, <2>2
<1>5. CASE /\ UNCHANGED <<s5, s10, s11>> /\ (s4' = "start" => s4 = "start")
           /\ (s4' \in {"read", "fetch", "merge", "write"} =>
                  s4 \in {"read", "fetch", "merge", "write"})
  BY <1>1, <1>3, <1>4, <1>5 DEF U!MergesOnce, U!Distinct
<1>6. CASE U!ReadCache \/ U!Page \/ U!PageFails \/ U!PageUnparsable \/ U!OpenFile
  BY <1>5, <1>6 DEF U!ReadCache, U!Page, U!PageFails, U!PageUnparsable, U!OpenFile
<1>7. CASE U!Tick \/ (\E u \in U!Users : U!Publish(u)) \/ UNCHANGED U!vars
  BY <1>5, <1>7 DEF U!Tick, U!Publish, U!vars
<1>8. CASE U!Start
  BY <1>1, <1>3, <1>4, <1>8 DEF U!Start, U!MergesOnce, U!Distinct
<1>9. CASE U!Restart
  BY <1>9 DEF U!Restart, U!MergesOnce, U!Distinct, U!NoTrackTwice, U!StreamSorted, U!Null
<1>10. ASSUME NEW q, U!Whole(s5, q), U!Done(q), s4 \in {"merge", "write"}, s11' = s11
       PROVE  U!MergesOnce' /\ U!NoTrackTwice' /\ U!StreamSorted'
  <2>1. /\ s10' \in Seq(U!Tracks) /\ U!Distinct(s10')
        /\ s4' = "stream" \/ (s4' = "read" /\ \A i \in DOMAIN s10' : s10'[i][1] < s5')
    BY <1>10, DoneOnce
  <2> QED
    BY <1>3, <1>4, <1>10, <2>1 DEF U!MergesOnce, U!Distinct
<1>11. CASE U!OnlyCached
  <2>1. U!Whole(s5, s7)
    BY <1>11 DEF U!OnlyCached, U!CachesWhole
  <2> QED
    BY <1>10, <1>11, <2>1 DEF U!OnlyCached
<1>12. CASE U!WriteFile \/ U!NoFile
  <2>1. U!Whole(s5, s7) /\ U!Recent(s5, s8, s7)
    BY <1>12 DEF U!WriteFile, U!NoFile, U!CachesWhole
  <2>2. U!Whole(s5, U!Merged(s8, s7))
    BY <2>1, MergeIsWhole
  <2> QED
    BY <1>10, <1>12, <2>2 DEF U!WriteFile, U!NoFile
<1>13. CASE U!Stream
  <2>1. s10' = s10 /\ s4' = "end" /\ s11' \in U!Sorted(s10)
    BY <1>13 DEF U!Stream
  <2>2. /\ s11' \in Seq(U!Tracks) /\ U!Distinct(s11')
        /\ \A i, j \in DOMAIN s11' : i < j => U!CreatedAt(s11'[i]) >= U!CreatedAt(s11'[j])
    <3>1. \A r \in U!Sorted(s10) :
            /\ r \in Seq(U!Tracks) /\ U!Distinct(r)
            /\ \A i, j \in DOMAIN r : i < j => U!CreatedAt(r[i]) >= U!CreatedAt(r[j])
      BY <1>1, SortedOnce
    <3> QED
      BY <2>1, <3>1
  <2>3. U!MergesOnce' /\ U!NoTrackTwice'
    BY <1>1, <1>3, <2>1, <2>2 DEF U!MergesOnce, U!Distinct, U!NoTrackTwice
  <2>4. \A i \in 1..Len(s11') : U!CreatedAt(s11[i])' = U!CreatedAt(s11'[i])
    BY <1>2, <2>2
  <2>5. \A i \in 1..Len(s11') - 1 : i \in 1..Len(s11') /\ i + 1 \in 1..Len(s11') /\ i < i + 1
    BY <2>2
  <2>6. U!StreamSorted'
    BY <2>2, <2>4, <2>5 DEF U!StreamSorted
  <2> QED
    BY <2>3, <2>6
<1> QED
  BY <1>6, <1>7, <1>8, <1>9, <1>11, <1>12, <1>13 DEF U!Next

\* soundcloud_get_stream, jspf_write: each step keeps the invariant of the stream.
LEMMA UsersKept == UsersInv /\ [U!Next]_(U!vars) => UsersInv'
<1> SUFFICES ASSUME UsersInv, [U!Next]_(U!vars) PROVE UsersInv'
  OBVIOUS
<1>1. U!Ascending' /\ Onward
  BY TimesKept DEF UsersInv
<1>2. U!CachesWhole' /\ s5' \in U!Users
  BY <1>1, CachesKept DEF UsersInv
<1>3. U!MergesOnce' /\ U!NoTrackTwice' /\ U!StreamSorted'
  BY <1>1, MergesKept DEF UsersInv
<1> QED
  BY <1>1, <1>2, <1>3 DEF UsersInv

\* jspf_read, soundcloud_get_stream: in the beginning nothing is published or cached.
LEMMA UsersFirst == U!Init => UsersInv
<1> SUFFICES ASSUME U!Init PROVE UsersInv
  OBVIOUS
<1>1. s2 = [u \in U!Users |-> << >>] /\ s3 = [u \in U!Users |-> << >>] /\ s1 = 1
      /\ s4 = "start" /\ s5 = 1 /\ s10 = << >> /\ s11 = U!Null
  BY DEF U!Init
<1>2. \A u \in U!Users : U!OfUser(u) = {}
  BY <1>1 DEF U!OfUser
<1>3. U!Tracks = {}
  BY <1>2 DEF U!Tracks
<1>4. U!Ascending
  BY <1>1, <1>2, <1>3 DEF U!Ascending
<1>5. U!CachesWhole
  BY <1>1 DEF U!CachesWhole, U!Whole, U!Descends
<1>6. U!MergesOnce
  BY <1>1 DEF U!MergesOnce, U!Distinct
<1> QED
  BY <1>1, <1>4, <1>5, <1>6, OneUser DEF UsersInv, U!NoTrackTwice, U!StreamSorted

\* soundcloud.c, jspf.c: whatever pages fail and wherever the program dies, a cached list has
\* no gap, no track is in the stream twice, and the stream is sorted.
THEOREM StreamIsKept == PartsSpec => []StreamKept
<1> DEFINE I == part = "users" => UsersInv
<1>1. PartsInit => I
  BY UsersFirst DEF PartsInit
<1>2. I /\ [PartsNext]_partvars => I'
  BY StepsOfParts, UsersKept DEF OfItsPart
<1>3. I => StreamKept
  BY DEF StreamKept, UsersInv, U!NoGap, U!CachesWhole, U!Whole
<1> QED
  BY <1>1, <1>2, <1>3, PTL DEF PartsSpec

-----------------------------------------------------------------------------
(* Types.  Most of what PartsTypeInvariant says of a part is in its          *)
(* invariant already; the rest is about counts, about the suggestions of the *)
(* input line and about lists that are fetched.                              *)

\* Lists with the same places are of the same length.
LEMMA AsLong ==
  ASSUME NEW S, NEW p \in Seq(S), NEW q \in Seq(S), DOMAIN p = DOMAIN q PROVE Len(p) = Len(q)
<1>1. PICK a \in Nat, b \in Nat : a = Len(p) /\ b = Len(q) /\ 1..a = 1..b
  BY LenProperties
<1>2. a <= b /\ b <= a
  <2>1. /\ a # 0 => a \in 1..a
        /\ b # 0 => b \in 1..b
    OBVIOUS
  <2>2. /\ a # 0 => a \in 1..b
        /\ b # 0 => b \in 1..a
    BY <1>1, <2>1
  <2> QED
    BY <2>2
<1> QED
  BY <1>1, <1>2

\* An entry more makes a list longer by one.
LEMMA LongerByOne ==
  ASSUME NEW S, NEW q \in Seq(S), NEW v PROVE Len(Append(q, v)) = Len(q) + 1
<1>1. q \in Seq(S \cup {v}) /\ v \in S \cup {v}
  BY SeqMonotonic
<1> QED
  BY <1>1, AppendProperties

\* There are no more lists and blocks than there may be.
RefSizes == Len(s1) <= MaxBlocks /\ Len(s3) <= MaxLists

\* track.c, state.c: whatever moves, a block and a list are only added below these bounds.
LEMMA RefSizesKept == RefsInv /\ RefSizes /\ [R!Next]_(R!vars) => RefSizes'
<1> SUFFICES ASSUME RefsInv, RefSizes, [R!Next]_(R!vars) PROVE RefSizes'
  OBVIOUS
<1>types. /\ s1 \in Seq(Seq(Held)) /\ s3 \in Seq(Nat) /\ s1' \in Seq(Seq(Held))
          /\ s3' \in Seq(Nat) /\ Len(s1) \in Nat /\ Len(s3) \in Nat
          /\ MaxLists \in Nat \ {0} /\ MaxBlocks \in Nat
  <2>1. RefsInv'
    BY RefsPreserved
  <2>2. MaxLists \in Nat \ {0} /\ MaxBlocks \in Nat
    BY PartsAssumption DEF R!SizesAssumption
  <2>3. /\ s1 \in Seq(Seq(Held)) /\ s3 \in Seq(Nat) /\ s1' \in Seq(Seq(Held))
        /\ s3' \in Seq(Nat)
    BY <2>1 DEF RefsInv
  <2> QED
    BY <2>2, <2>3, LenProperties
<1>1. ASSUME UNCHANGED <<s1, s3>> PROVE RefSizes'
  BY <1>1 DEF RefSizes
<1>2. ASSUME DOMAIN s1' = DOMAIN s1, s3' = s3 PROVE RefSizes'
  <2>1. Len(s1') = Len(s1)
    BY <1>2, <1>types, AsLong
  <2> QED
    BY <1>2, <2>1 DEF RefSizes
<1>3. ASSUME NEW e \in R!Entries, R!Play(e[1], e[2]) PROVE RefSizes'
  BY <1>1, <1>3 DEF R!Play
<1>4. ASSUME NEW e \in R!Entries, R!Del(e[1], e[2]) PROVE RefSizes'
  BY <1>2, <1>4 DEF R!Del
<1>5. ASSUME NEW e \in R!Entries, NEW l \in DOMAIN s3, R!Add(e[1], e[2], l) PROVE RefSizes'
  <2>1. PICK entry, flags :
          \/ R!GrowInPlace(l, entry, flags)
          \/ R!GrowMoved(l, entry, flags) /\ s3' = [s3 EXCEPT ![l] = Len(s1) + 1]
    BY <1>5 DEF R!Add, R!Grow
  <2>2. CASE R!GrowInPlace(l, entry, flags)
    BY <1>2, <2>2 DEF R!GrowInPlace
  <2>3. CASE R!GrowMoved(l, entry, flags) /\ s3' = [s3 EXCEPT ![l] = Len(s1) + 1]
    <3> DEFINE left == [s1 EXCEPT ![s3[l]] = << >>]
    <3>1. Len(s1) < MaxBlocks /\ s1' = Append(left, Append(R!Block(l), entry))
      BY <2>3 DEF R!GrowMoved
    <3>2. left \in Seq(Seq(Held)) /\ DOMAIN left = DOMAIN s1
      <4>1. << >> \in Seq(Held) /\ s3[l] \in DOMAIN s1
        BY DEF RefsInv
      <4> QED
        BY <1>types, <4>1
    <3> HIDE DEF left
    <3>3. Len(left) = Len(s1)
      BY <1>types, <3>2, AsLong
    <3>4. Len(s1') = Len(s1) + 1
      BY <3>1, <3>2, <3>3, LongerByOne
    <3>5. Len(s3') = Len(s3)
      BY <1>types, <2>3, AsLong
    <3> QED
      BY <1>types, <3>1, <3>4, <3>5 DEF RefSizes
  <2> QED
    BY <2>1, <2>2, <2>3
<1>6. ASSUME NEW tracks, R!AddList(tracks) PROVE RefSizes'
  <2>1. /\ Len(s3) < MaxLists /\ Len(s1) < MaxBlocks
        /\ Len(s1') = Len(s1) + 1 /\ Len(s3') = Len(s3) + 1
    BY <1>6, <1>types, LongerByOne DEF R!AddList
  <2> QED
    BY <1>types, <2>1 DEF RefSizes
<1>7. CASE R!Stop
  BY <1>1, <1>7 DEF R!Stop
<1>8. CASE R!Exit
  <2>1. DOMAIN s1' = DOMAIN s1 /\ s3' = << >>
    BY <1>8 DEF R!Exit
  <2>2. Len(s1') = Len(s1) /\ Len(s3') = 0
    BY <1>types, <2>1, AsLong
  <2> QED
    BY <1>types, <2>2 DEF RefSizes
<1>9. CASE UNCHANGED R!vars
  BY <1>1, <1>9 DEF R!vars
<1> QED
  BY <1>3, <1>4, <1>5, <1>6, <1>7, <1>8, <1>9 DEF R!Next

\* track.c: what the invariant of the references says of the types.
LEMMA RefsTyped == RefsInv /\ RefSizes => R!TypeInvariant
<1> SUFFICES ASSUME RefsInv, RefSizes PROVE R!TypeInvariant
  OBVIOUS
<1>1. /\ s1 \in Seq(Seq(Held)) /\ s2 \subseteq DOMAIN s1
      /\ s3 \in Seq(Nat) /\ \A k \in DOMAIN s3 : s3[k] \in DOMAIN s1
  BY DEF RefsInv
<1>2. s3 \in Seq(DOMAIN s1)
  <2>1. s3 \in [1..Len(s3) -> DOMAIN s1] /\ Len(s3) \in Nat
    BY <1>1, LenProperties
  <2> QED
    BY <2>1, SeqDef
<1>3. ASSUME NEW e \in Held PROVE e.name \in R!Permalinks <=> e.href = << >>
  BY PartsAssumption DEF R!SizesAssumption, Held, Entry, R!Permalinks
<1>4. \A b \in DOMAIN s1 : \A i \in DOMAIN s1[b] : s1[b][i] \in Held
  BY <1>1
<1> QED
  BY <1>1, <1>2, <1>3, <1>4 DEF R!TypeInvariant, RefSizes

\* At most every line read has given a mapping.
KeyCounts == s3 \in 0..s4 /\ s4 \in 0..MaxLines /\ s1 \in {"read", "run", "refused"}

\* config.c: the mappings are counted with the lines.
LEMMA KeyCountsKept == KeyCounts /\ [K!Next]_(K!vars) => KeyCounts'
<1> SUFFICES ASSUME KeyCounts, [K!Next]_(K!vars) PROVE KeyCounts'
  OBVIOUS
<1>size. MaxLines \in Nat
  BY PartsAssumption DEF K!TableAssumption
<1>1. ASSUME NEW scope, NEW key, NEW word, K!Map(scope, key, word) PROVE KeyCounts'
  <2>1. s1' = s1 /\ s4 < MaxLines /\ s4' = s4 + 1 /\ s3' \in {s3, s3 + 1}
    BY <1>1 DEF K!Map
  <2> QED
    BY <1>size, <2>1 DEF KeyCounts
<1>2. CASE K!Start \/ K!NoFile \/ (\E k \in Keys : K!Press(k)) \/ UNCHANGED K!vars
  BY <1>2 DEF K!Start, K!NoFile, K!Press, K!vars, KeyCounts
<1> QED
  BY <1>1, <1>2 DEF K!Next

\* config.c: what is mapped is a command of the table.
LEMMA KeysTyped ==
  ASSUME KeysInv, KeyCounts PROVE K!TypeInvariant
<1>1. \A scope, word : Hits(word, scope) \subseteq 1..Len(Commands)
  <2>1. Commands \in Seq([name : Seq(STRING) \ {<< >>}, valid_scope : K!Scopes])
    BY PartsAssumption DEF K!TableAssumption
  <2> QED
    BY <2>1 DEF Hits
<1>2. ASSUME NEW scope, NEW run, NEW word, OfLine(scope, run, word)
      PROVE  run.command \in 0..Len(Commands) /\ (run = K!None <=> word = << >>)
  <2>1. Len(Commands) \in Nat
    <3>1. Commands \in Seq([name : Seq(STRING) \ {<< >>}, valid_scope : K!Scopes])
      BY PartsAssumption DEF K!TableAssumption
    <3> QED
      BY <3>1
  <2>2. K!None.command = 0
    BY DEF K!None
  <2>3. run.command # 0 <=> word # << >>
    BY <1>2, CommandOfLine
  <2>4. CASE run = K!None /\ word = << >>
    BY <2>1, <2>2, <2>4
  <2>5. CASE run.command \in Hits(word, scope)
    <3>1. run.command \in 1..Len(Commands)
      BY <1>1, <2>5
    <3>2. run # K!None /\ word # << >>
      BY <2>1, <2>2, <2>3, <3>1
    <3> QED
      BY <2>1, <3>1, <3>2
  <2> QED
    BY <1>2, <2>4, <2>5 DEF OfLine
<1>3. \A s \in K!Scopes, k \in Keys : /\ s2[s][k].command \in 0..Len(Commands)
                                      /\ (s2[s][k] = K!None <=> s5[s][k] = << >>)
  BY <1>2 DEF KeysInv
<1>4. s7.run.command \in 0..Len(Commands)
  <2>1. CASE s7.run.command = 0
    <3>1. Len(Commands) \in Nat
      <4>1. Commands \in Seq([name : Seq(STRING) \ {<< >>}, valid_scope : K!Scopes])
        BY PartsAssumption DEF K!TableAssumption
      <4> QED
        BY <4>1
    <3> QED
      BY <2>1, <3>1
  <2>2. CASE s7.run.command # 0
    <3>1. s7.run = K!Get(s7.scope, s7.key) /\ s7.scope \in K!Scopes /\ s7.key \in Keys
      BY <2>2 DEF KeysInv
    <3>2. "global" \in K!Scopes
      BY DEF K!Scopes
    <3> QED
      BY <1>3, <3>1, <3>2 DEF K!Get
  <2> QED
    BY <2>1, <2>2
<1> QED
  BY <1>3, <1>4 DEF K!TypeInvariant, KeyCounts, KeysInv

\* A window is counted while it is there, and the items are of users.
BoxTypes ==
    /\ X!TypeInvariant /\ (s5 => s6 > 0)
    /\ s2 \in Seq([user : X!Users, checked : BOOLEAN])

\* commands/textbox.c, tui.c: no item, position or count of the box leaves its range.
LEMMA BoxTypesKept == BoxTypes /\ [X!Next]_(X!vars) => BoxTypes'
<1> SUFFICES ASSUME BoxTypes, [X!Next]_(X!vars) PROVE BoxTypes'
  OBVIOUS
<1>size. /\ NUsers \in Nat \ {0} /\ NUrls \in Nat /\ GotoLimit \in Nat
         /\ MaxPos \in Nat /\ MaxWins \in Nat \ {0, 1} /\ MaxSubs \in Nat
  BY PartsAssumption DEF X!SizesAssumption
<1> DEFINE Items == [user : X!Users, checked : BOOLEAN]
<1>items. ASSUME NEW q \in Seq(Items), NEW i \in DOMAIN q PROVE q[i].user \in X!Users
  <2>1. q[i] \in Items
    BY ElementOfSeq, LenProperties
  <2> QED
    BY <2>1
<1>types. /\ s1 \in {"none", "help", "details", "subscriptions"} /\ s3 \in 0..MaxPos
          /\ s4 \in 0..GotoLimit /\ s8 \in {-1, NUrls} /\ s6 \in 0..MaxWins
          /\ s9 \in Seq(X!Users) /\ s10 \in Seq(X!Users) /\ (s5 => s6 > 0) /\ s2 \in Seq(Items)
  BY DEF BoxTypes, X!TypeInvariant
<1> HIDE DEF Items
<1>new. ASSUME NEW n \in {1, 2}, NEW i, NEW s, X!NewWindows(n, i, s)
        PROVE  s6' \in 0..MaxWins /\ s6' > 0
  BY <1>new, <1>size, <1>types DEF X!NewWindows
<1>redraw. ASSUME X!Redraw PROVE s6' \in 0..MaxWins /\ (s5' => s6' > 0)
  BY <1>new, <1>redraw, <1>size, <1>types DEF X!Redraw
<1>all. ASSUME s1' \in {"none", "help", "details", "subscriptions"}, s3' \in 0..MaxPos,
               s4' \in 0..GotoLimit, s8' \in {-1, NUrls}, s6' \in 0..MaxWins,
               s9' \in Seq(X!Users), s10' \in Seq(X!Users), s5' => s6' > 0, s2' \in Seq(Items)
        PROVE  BoxTypes'
  BY <1>all, <1>items DEF BoxTypes, X!TypeInvariant, Items
<1>1. CASE X!Help
  BY <1>1, <1>all, <1>types, <1>redraw DEF X!Help, X!config
<1>2. CASE X!Details
  BY <1>2, <1>all, <1>types, <1>redraw DEF X!Details, X!config
<1>3. ASSUME NEW f \in {<<>>} \cup {<<u>> : u \in X!Users} \cup {[u \in X!Users |-> u]},
             X!Subscriptions(f)
      PROVE BoxTypes'
  <2>1. f \in Seq(X!Users)
    <3>1. [u \in X!Users |-> u] \in Seq(X!Users)
      <4>1. NUsers \in Nat /\ [u \in 1..NUsers |-> u] \in [1..NUsers -> 1..NUsers]
        BY <1>size
      <4> QED
        BY <4>1, SeqDef DEF X!Users
    <3>2. << >> \in Seq(X!Users) /\ \A u \in X!Users : <<u>> \in Seq(X!Users)
      OBVIOUS
    <3> QED
      BY <3>1, <3>2
  <2>2. s2' = [i \in DOMAIN f |-> X!Item(f[i], f[i] \in X!Range(s9))]
    BY <1>3 DEF X!Subscriptions
  <2>3. s2' \in Seq(Items)
    <3>1. \A i \in DOMAIN f : X!Item(f[i], f[i] \in X!Range(s9)) \in Items
      BY <2>1 DEF X!Item, Items
    <3>2. DOMAIN f = 1..Len(f) /\ Len(f) \in Nat
      BY <2>1
    <3> QED
      BY <2>2, <3>1, <3>2
  <2>4. X!NewWindows(2, s2', s4)
    BY <1>3 DEF X!Subscriptions
  <2> QED
    BY <1>3, <1>all, <1>types, <1>new, <2>3, <2>4 DEF X!Subscriptions, X!config
<1>4. CASE X!Close
  BY <1>4, <1>all, <1>size, <1>types, <1>redraw DEF X!Close, X!config
<1>5. ASSUME NEW p \in 0..MaxPos, X!Scroll(p) PROVE BoxTypes'
  BY <1>5, <1>all, <1>types, <1>redraw DEF X!Scroll, X!config
<1>6. ASSUME NEW delta \in {-1, 1}, X!GotoItem(delta) PROVE BoxTypes'
  <2>1. s4' \in 0..GotoLimit
    BY <1>6, <1>size, <1>types DEF X!GotoItem
  <2>2. X!NewWindows(1, s2', s4')
    BY <1>6 DEF X!GotoItem, X!RedrawItems
  <2> QED
    BY <1>6, <1>all, <1>types, <1>new, <2>1, <2>2 DEF X!GotoItem, X!config
<1>7. CASE X!Toggle
  <2>1. s4 + 1 \in DOMAIN s2
    BY <1>7, <1>types DEF X!Toggle
  <2>2. s2[s4 + 1] \in Items
    BY <1>types, <2>1
  <2>3. s2[s4 + 1].user \in X!Users
    BY <2>2 DEF Items
  <2>4. s2' = [s2 EXCEPT ![s4 + 1] = [s2[s4 + 1] EXCEPT !.checked = ~s2[s4 + 1].checked]]
    BY <1>7, Zenon DEF X!Toggle
  <2>5. [s2[s4 + 1] EXCEPT !.checked = ~s2[s4 + 1].checked] \in Items
    BY <2>2, Zenon DEF Items
  <2>6. s2' \in Seq(Items)
    BY <1>types, <2>1, <2>4, <2>5
  <2>7. s9' \in Seq(X!Users) /\ s10' \in Seq(X!Users)
    <3> DEFINE u == s2[s4 + 1].user
    <3>1. s9' = Append(s9, u) /\ s10' \in {s10, Append(s9, u)}
      BY <1>7 DEF X!Toggle, X!Save, X!SaveFails
    <3>2. u \in X!Users
      BY <2>3
    <3> HIDE DEF u
    <3>3. Append(s9, u) \in Seq(X!Users)
      BY <1>types, <3>2, AppendProperties
    <3> QED
      BY <1>types, <3>1, <3>3
  <2>8. X!NewWindows(1, s2', s4')
    BY <1>7 DEF X!Toggle, X!RedrawItems
  <2> QED
    BY <1>7, <1>all, <1>types, <1>new, <2>6, <2>7, <2>8 DEF X!Toggle
<1>8. ASSUME NEW d \in 0..9, X!Digit(d) PROVE BoxTypes'
  BY <1>8, <1>all, <1>types DEF X!Digit, X!vars, X!box, X!window, X!config
<1>9. CASE X!Restart
  <2>1. PICK n \in 0..Len(s10) : s9' = SubSeq(s10, 1, n) /\ s10' = s9'
    BY <1>9 DEF X!Restart
  <2>2. SubSeq(s10, 1, n) \in Seq(X!Users)
    BY <1>types, SubSeqProperties
  <2>3. << >> \in Seq(Items)
    OBVIOUS
  <2> QED
    BY <1>9, <1>all, <1>size, <2>1, <2>2, <2>3 DEF X!Restart
<1>10. CASE UNCHANGED X!vars
  BY <1>10, <1>all, <1>types DEF X!vars, X!box, X!window, X!config
<1> QED
  BY <1>1, <1>2, <1>3, <1>4, <1>5, <1>6, <1>7, <1>8, <1>9, <1>10 DEF X!Next

\* The buffer ends somewhere; the list of suggestions has its end, and before it commands.
Ended(b) == DOMAIN b = 0..BufferSize /\ \E i \in 0..BufferSize : b[i] = NUL
Suggested(m, n) ==
    /\ m \in [0..C!K -> 0..C!K] /\ m[C!K] = 0 /\ n \in 0..C!K
    /\ \A i \in 0..n - 1 : m[i] \in 1..C!K

\* While the line is open there is room behind the position, and where completion goes back
\* to.
LineTypes ==
    /\ C!TypeInvariant /\ Suggested(s4, s5)
    /\ s1 # "off" => s3 < BufferSize
    /\ s8 # C!Nothing => s8 < BufferSize

\* The sizes of the table and of the buffer.
LEMMA LineSizes ==
  /\ C!K \in Nat /\ BufferSize \in Nat \ {0} /\ Height \in Nat \ {0}
  /\ \A i \in 1..C!K : Len(Names[i]) \in 1..BufferSize - 2
BY PartsAssumption DEF C!TableAssumption, C!K

\* A NUL put into the buffer ends it.
LEMMA EndedAt ==
  ASSUME NEW b, DOMAIN b = 0..BufferSize, NEW p \in 0..BufferSize
  PROVE  Ended([b EXCEPT ![p] = NUL])
BY DEF Ended

\* commands/playlist.c: completion puts a name, a space and a NUL into the buffer.
LEMMA EndedPut ==
  ASSUME NEW i \in 1..C!K
  PROVE  Ended(C!Put(Names[i])) /\ Len(Names[i]) + 1 \in 0..BufferSize - 1
<1> DEFINE n == Len(Names[i])
           b == C!Put(Names[i])
<1>1. n \in 1..BufferSize - 2 /\ BufferSize \in Nat
  BY LineSizes
<1>2. b = [j \in 0..BufferSize |-> IF j < n THEN Names[i][j + 1] ELSE IF j = n THEN " "
                                   ELSE IF j = n + 1 THEN NUL ELSE s2[j]]
  BY DEF C!Put
<1> HIDE DEF n, b
<1>3. n + 1 \in 0..BufferSize /\ ~(n + 1 < n) /\ n + 1 # n
  BY <1>1
<1>4. DOMAIN b = 0..BufferSize /\ b[n + 1] = NUL
  BY <1>2, <1>3
<1>5. Ended(b) /\ n + 1 \in 0..BufferSize - 1
  BY <1>1, <1>3, <1>4 DEF Ended
<1> QED
  BY <1>5 DEF n, b

\* commands/playlist.c: at first every command is suggested.
LEMMA AllSuggested == Suggested([i \in 0..C!K |-> (i + 1) % (C!K + 1)], C!K)
<1>1. PICK k \in Nat : k = C!K
  BY LineSizes
<1> DEFINE m == [i \in 0..k |-> (i + 1) % (k + 1)]
<1>2. \A i \in 0..k - 1 : (i + 1) % (k + 1) = i + 1
  OBVIOUS
<1>3. (k + 1) % (k + 1) = 0
  OBVIOUS
<1>4. /\ \A i \in 0..k - 1 : m[i] \in 1..k
      /\ m[k] = 0
  BY <1>2, <1>3
<1>5. m \in [0..k -> 0..k]
  <2>1. \A i \in 0..k : m[i] \in 0..k
    <3>1. \A i \in 0..k : i \in 0..k - 1 \/ i = k
      OBVIOUS
    <3> QED
      BY <1>4, <3>1
  <2> QED
    BY <2>1
<1> HIDE DEF m
<1>6. Suggested(m, k)
  BY <1>1, <1>4, <1>5 DEF Suggested
<1> QED
  BY <1>1, <1>6 DEF m

\* submit_updated_suggestion_list: those that are found are suggested.
LEMMA FilterSuggests ==
  ASSUME Suggested(s4, s5), NEW b, C!Filter(b) PROVE Suggested(s4', s5')
<1> DEFINE hits == {i \in 1..C!K : C!IsPrefix(C!TextAt(b, 0), Names[i])}
<1>0. PICK order \in UNION {C!Bijection(1..n, hits) : n \in 0..C!K} :
        /\ s5' = Len(order)
        /\ s4' = [i \in 0..C!K |-> IF i < Len(order) THEN order[i + 1]
                                   ELSE IF i = Len(order) THEN 0 ELSE s4[i]]
  BY Zenon DEF C!Filter
<1>1. PICK k \in Nat : k = C!K
  BY LineSizes
<1>hits. hits \subseteq 1..k
  BY <1>1
<1> HIDE DEF hits
<1>2. PICK n \in 0..k : order \in C!Bijection(1..n, hits)
  BY <1>1
<1>3. order \in [1..n -> 1..k] /\ Len(order) = n
  <2>1. order \in [1..n -> hits]
    BY <1>2 DEF C!Bijection, C!Injection
  <2>2. order \in [1..n -> 1..k]
    BY <1>hits, <2>1
  <2> QED
    BY <2>2
<1>4. /\ s5' = n
      /\ s4' = [i \in 0..k |-> IF i < n THEN order[i + 1] ELSE IF i = n THEN 0 ELSE s4[i]]
  BY <1>0, <1>1, <1>3
<1>5. s4 \in [0..k -> 0..k] /\ s4[k] = 0
  BY <1>1 DEF Suggested
<1>6. \A i \in 0..k : i < n => i + 1 \in 1..n
  OBVIOUS
<1>7. \A i \in 0..n - 1 : s4'[i] \in 1..k
  BY <1>3, <1>4, <1>6
<1>8. s4' \in [0..k -> 0..k]
  <2>1. \A i \in 0..k : i < n => order[i + 1] \in 0..k
    BY <1>3, <1>6
  <2>2. \A i \in 0..k : s4[i] \in 0..k /\ 0 \in 0..k
    BY <1>5
  <2> QED
    BY <1>4, <2>1, <2>2
<1>9. s4'[k] = 0
  BY <1>4, <1>5
<1> QED
  BY <1>1, <1>4, <1>7, <1>8, <1>9 DEF Suggested

\* command_dispatcher: the first command whose name the line begins with, if any.
LEMMA DispatchesOne ==
  ASSUME s11.command \in 0..C!K, NEW b, C!Dispatch(b) PROVE s11'.command \in 0..C!K
<1>1. PICK k \in Nat : k = C!K
  BY LineSizes
<1> DEFINE matches == {i \in 1..k : /\ C!IsPrefix(Names[i], C!TextAt(b, 0))
                                    /\ b[Len(Names[i])] \in {NUL, " "}}
<1>2. s11' = IF s1 = "search" THEN s11
             ELSE IF matches = {} THEN [command |-> 0, argument |-> << >>]
             ELSE [command |-> C!Min(matches),
                   argument |-> C!TextAt(b, Len(Names[C!Min(matches)]) + 1)]
  BY <1>1 DEF C!Dispatch
<1>3. matches # {} => C!Min(matches) \in 1..k
  <2>1. matches \subseteq 1..k
    BY Zenon
  <2> HIDE DEF matches
  <2>2. matches \subseteq Nat
    BY <2>1
  <2> QED
    BY <2>1, <2>2, LeastNatural DEF C!Min
<1> HIDE DEF matches
<1> QED
  BY <1>1, <1>2, <1>3

\* handle_command, handle_search: no key leaves the buffer without an end, or an index into
\* the suggestions or the buffer out of its range.
LEMMA LineTypesKept == LineTypes /\ [C!Next]_(C!vars) => LineTypes'
<1> SUFFICES ASSUME LineTypes, [C!Next]_(C!vars) PROVE LineTypes'
  OBVIOUS
<1> DEFINE Modes == {"off", "command", "search"}
           n == BufferSize
           Places == {-1} \cup 0..n - 1
<1>0. PICK k \in Nat : k = C!K
  BY LineSizes
<1>size. n \in Nat \ {0} /\ C!Nothing = -1 /\ C!Huge = k + 3
  BY <1>0, LineSizes DEF C!Nothing, C!Huge
<1>types. /\ s1 \in Modes /\ s10 \in BOOLEAN /\ s9 \in BOOLEAN
          /\ Ended(s2) /\ s3 \in 0..n /\ (s1 # "off" => s3 < n) /\ s8 \in Places
          /\ Suggested(s4, s5) /\ s7 \in 0..k + 4 /\ s6 \in {-1} \cup 0..k + 3
          /\ s11.command \in 0..k
  BY <1>0, <1>size DEF LineTypes, C!TypeInvariant, Ended
<1>all. ASSUME s1' \in Modes, s10' \in BOOLEAN, s9' \in BOOLEAN, Ended(s2'), s3' \in 0..n,
               s1' # "off" => s3' < n, s8' \in Places, Suggested(s4', s5'),
               s7' \in 0..k + 4, s6' \in {-1} \cup 0..k + 3, s11'.command \in 0..k
        PROVE  LineTypes'
  <2>1. /\ DOMAIN s2' = 0..n /\ (\E i \in 0..n : s2'[i] = NUL)
        /\ s4' \in [0..k -> 0..k] /\ s4'[k] = 0 /\ s5' \in 0..k
    BY <1>0, <1>all DEF Ended, Suggested
  <2>2. s8' \in {-1} \cup 0..n /\ (s8' # -1 => s8' < n)
    BY <1>all, <1>size
  <2>3. /\ s8' \in {C!Nothing} \cup 0..BufferSize /\ s7' \in 0..C!Huge + 1
        /\ s6' \in {C!Nothing} \cup 0..C!Huge
    BY <1>all, <1>size, <2>2
  <2>4. /\ s4' \in [0..C!K -> 0..C!K] /\ s4'[C!K] = 0 /\ s5' \in 0..C!K
        /\ s11'.command \in 0..C!K
    BY <1>0, <1>all, <2>1
  <2>5. C!TypeInvariant'
    <3>1. UNCHANGED <<C!Nothing, C!Huge, C!K>>
      BY DEF C!Nothing, C!Huge, C!K
    <3> QED
      BY <1>all, <2>1, <2>3, <2>4, <3>1, Zenon DEF C!TypeInvariant
  <2> QED
    BY <1>all, <2>2, <2>5 DEF LineTypes, C!Nothing
<1>put. ASSUME NEW b, DOMAIN b = 0..n, NEW p, p \in 0..n - 1
        PROVE  Ended([b EXCEPT ![p] = NUL]) /\ DOMAIN [b EXCEPT ![p] = NUL] = 0..n
  <2>1. p \in 0..BufferSize /\ DOMAIN b = 0..BufferSize
    BY <1>put, <1>size
  <2> QED
    BY <1>put, <2>1, EndedAt
<1> HIDE DEF Modes, n, Places
<1>range. DOMAIN s2 = 0..n
  BY <1>types DEF Ended, n
<1>shown. s5 \in 0..k /\ \A i \in 0..s5 - 1 : s4[i] \in 1..k
  BY <1>0, <1>types DEF Suggested
<1>1. ASSUME NEW m \in {"command", "search"}, C!Open(m) PROVE LineTypes'
  <2>1. /\ s1' = m /\ s2' = [s2 EXCEPT ![0] = NUL] /\ s3' = 0 /\ s7' = 0 /\ s8' = -1
        /\ s9' = FALSE /\ s4' = [i \in 0..C!K |-> (i + 1) % (C!K + 1)] /\ s5' = C!K
        /\ s11' = s11
    BY <1>1, <1>size DEF C!Open
  <2>2. s6' \in {-1} \cup 0..k + 3
    BY <1>1, <1>size, <1>types DEF C!Open
  <2>3. s10' \in BOOLEAN
    BY <1>1, <1>types DEF C!Open
  <2>4. Suggested(s4', s5')
    BY <2>1, AllSuggested
  <2>5. Ended(s2')
    <3>1. 0 \in 0..n - 1
      BY <1>size
    <3> QED
      BY <1>range, <1>put, <2>1, <3>1
  <2>6. s1' \in Modes /\ s3' \in 0..n /\ s3' < n /\ s8' \in Places /\ s7' \in 0..k + 4
    BY <1>size, <2>1 DEF Modes, Places
  <2>7. s11'.command \in 0..k /\ s9' \in BOOLEAN
    BY <1>types, <2>1
  <2> QED
    BY <1>all, <2>2, <2>3, <2>4, <2>5, <2>6, <2>7
<1>2. ASSUME NEW c \in Typed, C!Type(c) PROVE LineTypes'
  <2> DEFINE b == [s2 EXCEPT ![s3] = c, ![s3 + 1] = NUL]
  <2>1. /\ s1 # "off" /\ s2' = b /\ s3' = s3 + 1 /\ UNCHANGED <<s6, s7, s8>>
        /\ IF s1 = "command" THEN C!Filter(b) ELSE UNCHANGED <<s4, s5>>
        /\ IF s3' = n THEN s1' = "off" /\ s10' = FALSE /\ C!Dispatch(b) /\ UNCHANGED s9
           ELSE UNCHANGED <<s1, s10, s11>> /\ s9' = (s9 /\ s1 = "search")
    BY <1>2, Zenon DEF C!Type, C!Insert, n
  <2>2. s3 + 1 \in 0..n
    BY <1>size, <1>types, <2>1
  <2>3. Ended(b)
    <3>1. DOMAIN [s2 EXCEPT ![s3] = c] = 0..n
      BY <1>range
    <3>2. b = [[s2 EXCEPT ![s3] = c] EXCEPT ![s3 + 1] = NUL]
      OBVIOUS
    <3> QED
      BY <2>2, <3>1, <3>2, EndedAt DEF n
  <2> HIDE DEF b
  <2>4. Suggested(s4', s5')
    BY <1>types, <2>1, FilterSuggests
  <2>5. s11'.command \in 0..k
    BY <1>0, <1>types, <2>1, DispatchesOne
  <2>6. s10' \in BOOLEAN
    BY <1>types, <2>1
  <2>7. s9' \in BOOLEAN
    BY <1>types, <2>1, Zenon
  <2>8. s1' \in Modes /\ (s1' # "off" => s3' < n)
    BY <1>size, <1>types, <2>1, <2>2 DEF Modes
  <2> QED
    BY <1>all, <1>types, <2>1, <2>2, <2>3, <2>4, <2>5, <2>6, <2>7, <2>8
<1>3. CASE C!Escape
  BY <1>3, <1>all, <1>types DEF C!Escape, C!Close, C!line, Modes
<1>4. CASE C!Enter
  <2>1. s11'.command \in 0..k
    BY <1>0, <1>4, <1>types, DispatchesOne DEF C!Enter
  <2> QED
    BY <1>4, <1>all, <1>types, <2>1 DEF C!Enter, C!Close, C!line, Modes
<1>5. CASE C!Up \/ C!Down
  <2>1. s6' \in {-1} \cup 0..k + 3
    BY <1>5, <1>shown, <1>size, <1>types DEF C!Up, C!Down
  <2>2. UNCHANGED <<s1, s2, s3, s4, s5, s7, s8, s10, s11>> /\ s9' = FALSE
    BY <1>5 DEF C!Up, C!Down
  <2> QED
    BY <1>all, <1>types, <2>1, <2>2
<1>6. CASE C!Tab
  <2> DEFINE cut == IF s8 = -1 THEN s2 ELSE [s2 EXCEPT ![s8] = NUL]
             from == IF ~s9 /\ s6 # -1 THEN s6 ELSE s7
             fits == {i \in from..s5 - 1 : C!IsPrefix(C!TextAt(cut, 0), Names[s4[i]])}
             stem == IF s8 = -1 THEN s3 ELSE s8
             j == C!Min(fits)
  <2>1. /\ s1 = "command" /\ s9' = TRUE /\ UNCHANGED <<s1, s4, s5, s10, s11>>
        /\ \/ /\ s7' = 0 /\ s2' = [cut EXCEPT ![stem] = NUL] /\ s3' = stem
              /\ s8' = -1 /\ s6' = -1
           \/ s8' = stem /\ fits = {} /\ s2' = cut /\ s7' = from /\ UNCHANGED <<s3, s6>>
           \/ /\ s8' = stem /\ fits # {} /\ s2' = C!Put(Names[s4[j]])
              /\ s3' = Len(Names[s4[j]]) + 1 /\ s6' = j /\ s7' = j + 1
    BY <1>6, <1>size, Zenon DEF C!Tab, C!Nothing
  <2>2. stem \in 0..n - 1 /\ from \in 0..k + 3 + 1
    BY <1>size, <1>types, <2>1 DEF Places
  <2>3. Ended(cut) /\ DOMAIN cut = 0..n
    <3>1. CASE s8 = -1
      BY <1>range, <1>types, <3>1
    <3>2. CASE s8 # -1
      <4>1. s8 \in 0..n - 1 /\ cut = [s2 EXCEPT ![s8] = NUL]
        BY <2>2, <3>2
      <4> HIDE DEF cut
      <4> QED
        BY <1>range, <1>put, <4>1
    <3> QED
      BY <3>1, <3>2
  <2>4. ASSUME fits # {} PROVE j \in 0..k /\ s4[j] \in 1..k /\ j < k
    <3>1. fits \subseteq from..s5 - 1
      BY Zenon
    <3> HIDE DEF fits, from
    <3>2. fits \subseteq Nat
      BY <2>2, <3>1
    <3>3. j \in fits
      BY <2>4, <3>2, LeastNatural DEF C!Min
    <3> HIDE DEF j
    <3>4. j \in 0..s5 - 1
      BY <1>shown, <2>2, <3>1, <3>3
    <3> QED
      BY <1>shown, <3>4
  <2> HIDE DEF cut, from, fits, stem, j
  <2>5. s8' \in Places /\ (s1' # "off" => s3' < n) /\ s3' \in 0..n /\ Ended(s2')
        /\ s7' \in 0..k + 4 /\ s6' \in {-1} \cup 0..k + 3
    <3>1. CASE /\ s7' = 0 /\ s2' = [cut EXCEPT ![stem] = NUL] /\ s3' = stem
               /\ s8' = -1 /\ s6' = -1
      <4>1. Ended(s2')
        BY <1>put, <2>2, <2>3, <3>1
      <4> QED
        BY <1>size, <2>2, <3>1, <4>1 DEF Places
    <3>2. CASE s8' = stem /\ fits = {} /\ s2' = cut /\ s7' = from /\ UNCHANGED <<s3, s6>>
      BY <1>size, <1>types, <2>1, <2>2, <2>3, <3>2 DEF Places
    <3>3. CASE /\ s8' = stem /\ fits # {} /\ s2' = C!Put(Names[s4[j]])
               /\ s3' = Len(Names[s4[j]]) + 1 /\ s6' = j /\ s7' = j + 1
      <4>1. Ended(s2') /\ s3' \in 0..n - 1
        BY <1>0, <2>4, <3>3, EndedPut DEF n
      <4> QED
        BY <1>size, <2>2, <2>4, <3>3, <4>1 DEF Places
    <3> QED
      BY <2>1, <3>1, <3>2, <3>3
  <2> QED
    BY <1>all, <1>types, <2>1, <2>5
<1>7. CASE C!Backspace
  <2>1. CASE s3 = 0
    BY <1>7, <1>all, <1>types, <2>1 DEF C!Backspace, C!Close, C!line, Modes
  <2>2. CASE s3 # 0
    <3>1. /\ s1 # "off" /\ s3' = s3 - 1 /\ s2' = [s2 EXCEPT ![s3 - 1] = NUL]
          /\ UNCHANGED <<s1, s6, s7, s8, s10, s11>>
          /\ IF s1 = "command" THEN C!Filter(s2') /\ s9' = FALSE ELSE UNCHANGED <<s4, s5, s9>>
      BY <1>7, <2>2 DEF C!Backspace
    <3>2. s3' \in 0..n /\ s3' < n
      BY <1>size, <1>types, <2>2, <3>1
    <3>3. Ended(s2')
      BY <1>range, <3>1, <3>2, EndedAt DEF n
    <3>4. Suggested(s4', s5')
      BY <1>types, <3>1, FilterSuggests
    <3>5. s9' \in BOOLEAN
      BY <1>types, <3>1
    <3> QED
      BY <1>all, <1>types, <3>1, <3>2, <3>3, <3>4, <3>5
  <2> QED
    BY <2>1, <2>2
<1>8. CASE UNCHANGED C!vars
  BY <1>8, <1>all, <1>types DEF C!vars, C!line
<1> QED
  BY <1>1, <1>2, <1>3, <1>4, <1>5, <1>6, <1>7, <1>8 DEF C!Next

\* What is cached and fetched are tracks that were published.
ListTypes ==
    /\ s4 \in {"start", "read", "fetch", "merge", "write", "stream", "end", "undefined"}
    /\ s7 \in Seq(U!Tracks) /\ s9 \in Seq(U!Tracks) /\ (s8 # U!Null => s8 \in Seq(U!Tracks))

\* soundcloud.c, jspf.c: no page and no file brings others.
LEMMA ListTypesKept ==
  ASSUME UsersInv, ListTypes, Onward, [U!Next]_(U!vars) PROVE ListTypes'
<1>1. /\ s4 \in {"start", "read", "fetch", "merge", "write", "stream", "end", "undefined"}
      /\ s7 \in Seq(U!Tracks) /\ s9 \in Seq(U!Tracks) /\ (s8 # U!Null => s8 \in Seq(U!Tracks))
  BY DEF ListTypes
<1>2. \A q \in Seq(U!Tracks) : q \in Seq(U!Tracks')
  <2>1. U!Tracks \subseteq U!Tracks'
    BY DEF Onward, U!Tracks
  <2> QED
    BY <2>1
<1>3. \A q \in Seq(U!OfUser(s5)) : q \in Seq(U!Tracks)
  <2>1. U!OfUser(s5) \subseteq U!Tracks
    BY DEF UsersInv, U!Tracks
  <2> QED
    BY <2>1
<1>4. ASSUME NEW c \in Seq(U!Tracks), NEW r \in Seq(U!Tracks), NEW l, s7' = c, s9' = r,
             s8' = l, l # U!Null => l \in Seq(U!Tracks),
             s4' \in {"start", "read", "fetch", "merge", "write", "stream", "end", "undefined"}
      PROVE  ListTypes'
  BY <1>2, <1>4 DEF ListTypes, U!Null
<1>5. << >> \in Seq(U!Tracks)
  OBVIOUS
<1>6. CASE U!Tick \/ (\E u \in U!Users : U!Publish(u)) \/ U!Start \/ U!OpenFile \/ U!Stream
           \/ UNCHANGED U!vars
  BY <1>1, <1>4, <1>6 DEF U!Tick, U!Publish, U!Start, U!OpenFile, U!Stream, U!vars
<1>7. CASE U!OnlyCached \/ U!WriteFile \/ U!NoFile
  <2>1. s4' \in {"read", "stream"} /\ UNCHANGED <<s7, s8, s9>>
    BY <1>7, NextUser DEF UsersInv, U!OnlyCached, U!WriteFile, U!NoFile
  <2> QED
    BY <1>1, <1>4, <2>1
<1>8. CASE U!ReadCache
  <2>1. s7' = U!Read(s5) /\ s8' = U!Null /\ s4' = "fetch"
    BY <1>8 DEF U!ReadCache
  <2>2. PICK n \in 0..Len(s2[s5]) :
          /\ \A t \in U!OfUser(s5) : t[2] > n <=> U!CreatedAt(t) >= U!From(U!Read(s5))
          /\ s9' = U!NewestFirst(s5, n)
    BY <1>8 DEF U!ReadCache
  <2>3. U!Read(s5) \in Seq(U!OfUser(s5))
    BY DEF UsersInv, U!CachesWhole, U!Read, U!Whole
  <2>4. U!NewestFirst(s5, n) \in Seq(U!OfUser(s5))
    <3>1. /\ U!Ascending /\ s5 \in U!Users
          /\ \A t \in U!OfUser(s5) : t[2] > n <=> U!CreatedAt(t) >= U!From(U!Read(s5))
      BY <2>2 DEF UsersInv
    <3> QED
      BY <2>2, <2>3, <3>1, ReadIsRecent DEF U!Recent
  <2> QED
    BY <1>3, <1>4, <2>1, <2>2, <2>3, <2>4
<1>9. CASE U!Page
  <2> DEFINE f == U!Fetched
             T1 == U!Tracks
  <2>1. s7' = s7 /\ s4' \in {"fetch", "merge"}
    BY <1>9 DEF U!Page
  <2>2. f \in Seq(T1)
    BY <1>1, <1>5 DEF U!Fetched
  <2>3. PICK n \in Nat : s8' = f \o SubSeq(s9, 1, n) /\ s9' = SubSeq(s9, n + 1, Len(s9))
                         /\ n \in 0..Len(s9)
    <3> DEFINE n == IF Len(s9) < PageLimit THEN Len(s9) ELSE PageLimit
    <3>1. Len(s9) \in Nat /\ PageLimit \in Nat
      BY <1>1, PartsAssumption DEF U!SizesAssumption
    <3>2. s8' = f \o SubSeq(s9, 1, n) /\ s9' = SubSeq(s9, n + 1, Len(s9))
      BY <1>9 DEF U!Page, U!Fetched
    <3>3. n \in Nat /\ n \in 0..Len(s9)
      BY <3>1
    <3> HIDE DEF n, f
    <3> QED
      BY <3>2, <3>3
  <2>4. s9 \in Seq(T1)
    BY <1>1
  <2> HIDE DEF f, T1
  <2>5. s8' \in Seq(T1) /\ s9' \in Seq(T1)
    <3>1. \A a, b \in Seq(T1) : \A k \in 0..Len(b) :
            a \o SubSeq(b, 1, k) \in Seq(T1) /\ SubSeq(b, k + 1, Len(b)) \in Seq(T1)
      BY PageMoves
    <3> QED
      BY <2>2, <2>3, <2>4, <3>1
  <2> QED
    BY <1>1, <1>4, <2>1, <2>5 DEF T1
<1>10. CASE U!PageFails \/ U!PageUnparsable
  BY <1>1, <1>4, <1>5, <1>10 DEF U!PageFails, U!PageUnparsable
<1>11. CASE U!Restart
  BY <1>4, <1>5, <1>11 DEF U!Restart
<1> QED
  BY <1>6, <1>7, <1>8, <1>9, <1>10, <1>11 DEF U!Next

\* soundcloud.c, jspf.c: what the invariant of the stream says of the types.
LEMMA ListsTyped == UsersInv /\ ListTypes => U!TypeInvariant
<1> SUFFICES ASSUME UsersInv, ListTypes PROVE U!TypeInvariant
  OBVIOUS
<1>1. \A S : \A q \in Seq(S) : U!Range(q) \subseteq S
  BY DEF U!Range
<1>2. \A u \in U!Users : s3[u] # U!Cut => s3[u] \in Seq(U!OfUser(u))
  BY DEF UsersInv, U!CachesWhole, U!Whole
<1>3. \A q \in {s7, s9, s10} \cup ({s8, s11} \ {U!Null}) : q \in Seq(U!Tracks)
  BY DEF UsersInv, U!MergesOnce, ListTypes
<1> QED
  BY <1>1, <1>2, <1>3 DEF U!TypeInvariant, UsersInv, ListTypes

\* The types in the beginning.
LEMMA TypesFirst ==
  /\ R!Init => RefSizes
  /\ C!Init => LineTypes
  /\ K!Init => KeyCounts
  /\ X!Init => BoxTypes
  /\ U!Init => ListTypes
<1>1. R!Init => RefSizes
  <2> SUFFICES ASSUME R!Init PROVE RefSizes
    OBVIOUS
  <2>1. Len(s1) = 2 /\ Len(s3) = 2
    BY DEF R!Init
  <2> QED
    BY <2>1, PartsAssumption DEF R!SizesAssumption, RefSizes
<1>2. C!Init => LineTypes
  <2> SUFFICES ASSUME C!Init PROVE LineTypes
    OBVIOUS
  <2>1. C!K \in Nat /\ BufferSize \in Nat
    BY LineSizes
  <2>2. /\ s1 = "off" /\ s2 = [i \in 0..BufferSize |-> NUL] /\ s3 = 0 /\ s6 = 0 /\ s7 = 0
        /\ s8 = C!Nothing /\ s9 = FALSE /\ s10 = FALSE /\ s11.command = 0
        /\ s4 = [i \in 0..C!K |-> (i + 1) % (C!K + 1)] /\ s5 = C!K
    BY DEF C!Init
  <2>3. Suggested(s4, s5)
    BY <2>2, AllSuggested
  <2>4. DOMAIN s2 = 0..BufferSize /\ \E i \in 0..BufferSize : s2[i] = NUL
    <3>1. 0 \in 0..BufferSize
      BY <2>1
    <3> QED
      BY <2>2, <3>1
  <2>5. C!TypeInvariant
    <3>1. s1 \in {"off", "command", "search"} /\ s10 \in BOOLEAN /\ s9 \in BOOLEAN
      BY <2>2
    <3>2. s3 \in 0..BufferSize /\ s8 \in {C!Nothing} \cup 0..BufferSize
      BY <2>1, <2>2
    <3>3. s7 \in 0..C!Huge + 1 /\ s6 \in {C!Nothing} \cup 0..C!Huge /\ s11.command \in 0..C!K
      BY <2>1, <2>2 DEF C!Huge
    <3>4. s4 \in [0..C!K -> 0..C!K] /\ s4[C!K] = 0 /\ s5 \in 0..C!K
      BY <2>3, Zenon DEF Suggested
    <3> QED
      BY <2>4, <3>1, <3>2, <3>3, <3>4, Zenon DEF C!TypeInvariant
  <2> QED
    BY <2>2, <2>3, <2>5 DEF LineTypes
<1>3. K!Init => KeyCounts
  BY PartsAssumption DEF K!Init, KeyCounts, K!TableAssumption
<1>4. X!Init => BoxTypes
  BY PartsAssumption DEF X!Init, BoxTypes, X!TypeInvariant, X!SizesAssumption
<1>5. U!Init => ListTypes
  BY DEF U!Init, ListTypes
<1> QED
  BY <1>1, <1>2, <1>3, <1>4, <1>5

\* With any numbers of tracks, commands, keys, users, threads and steps of the mixer, every
\* variable of every part keeps to its type: no count, index or buffer leaves its range, the
\* buffer of the input line always ends, and no reference is to a block that never was.
THEOREM PartsTypesAreKept == PartsSpec => []PartsTypeInvariant
<1> DEFINE I == /\ TypeInvariant
                /\ part = "references" => RefsInv /\ RefSizes
                /\ part = "commandline" => LineTypes
                /\ part = "keys" => KeysInv /\ KeyCounts
                /\ part = "textbox" => BoxTypes
                /\ part = "title" => T!TypeInvariant
                /\ part = "flags" => F!TypeInvariant
                /\ part = "volume" => VolumeInv
                /\ part = "users" => UsersInv /\ ListTypes
<1>1. PartsInit => I
  <2> SUFFICES ASSUME PartsInit PROVE I
    OBVIOUS
  <2>1. TypeInvariant
    BY DescriptionTypes DEF PartsInit
  <2>2. /\ part = "references" => RefsInv /\ RefSizes
        /\ part = "commandline" => LineTypes
        /\ part = "keys" => KeysInv /\ KeyCounts
        /\ part = "textbox" => BoxTypes
    BY RefsFirst, KeysFirst, TypesFirst DEF PartsInit
  <2>3. /\ part = "title" => T!TypeInvariant
        /\ part = "flags" => F!TypeInvariant
        /\ part = "volume" => VolumeInv
        /\ part = "users" => UsersInv /\ ListTypes
    BY TitleFirst, FlagsFirst, VolumeFirst, UsersFirst, TypesFirst DEF PartsInit
  <2> QED
    BY <2>1, <2>2, <2>3
<1>2. I /\ [PartsNext]_partvars => I'
  <2> SUFFICES ASSUME I, [PartsNext]_partvars PROVE I'
    OBVIOUS
  <2>1. OfItsPart
    BY StepsOfParts
  <2>2. TypeInvariant'
    BY <2>1, DescriptionTypes DEF OfItsPart, TypeInvariant, vars
  <2>3. /\ part' = "references" => RefsInv' /\ RefSizes'
        /\ part' = "commandline" => LineTypes'
        /\ part' = "keys" => KeysInv' /\ KeyCounts'
        /\ part' = "textbox" => BoxTypes'
    BY <2>1, RefsPreserved, RefSizesKept, LineTypesKept, KeysPreserved, KeyCountsKept,
       BoxTypesKept DEF OfItsPart
  <2>4. /\ part' = "title" => T!TypeInvariant'
        /\ part' = "flags" => F!TypeInvariant'
        /\ part' = "volume" => VolumeInv'
    BY <2>1, TitleTypes, FlagTypes, VolumeKept DEF OfItsPart
  <2>5. part' = "users" => UsersInv' /\ ListTypes'
    <3> SUFFICES ASSUME part = "users" PROVE UsersInv' /\ ListTypes'
      BY <2>1 DEF OfItsPart
    <3>1. UsersInv /\ ListTypes /\ [U!Next]_(U!vars)
      BY <2>1 DEF OfItsPart
    <3>2. Onward
      BY <3>1, TimesKept DEF UsersInv
    <3> QED
      BY <3>1, <3>2, UsersKept, ListTypesKept
  <2> QED
    BY <2>2, <2>3, <2>4, <2>5
<1>3. I => PartsTypeInvariant
  BY RefsTyped, KeysTyped, ListsTyped
  DEF PartsTypeInvariant, LineTypes, BoxTypes, VolumeInv
<1> QED
  BY <1>1, <1>2, <1>3, PTL DEF PartsSpec
=============================================================================
