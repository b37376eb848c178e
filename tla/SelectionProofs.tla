--------------------------- MODULE SelectionProofs --------------------------
(***************************************************************************)
(* The selection of the list on the screen, for any number of lists and    *)
(* tracks, any terminal of at least eight lines, any arguments of goto and *)
(* any W that is larger than what lists and terminal need.  The lemmas are *)
(* about single steps: LivePartsProofs uses them for two instances.        *)
(***************************************************************************)
EXTENDS Selection, SequenceTheorems, TLAPS

SizeT == 0..W - 1
Entry == [count : SizeT, selected : SizeT, old : SizeT, position : SizeT]

\* Lengths that a size_t and the scrolling have room for.
Fits(n) == n \in Nat /\ n + 2 < W /\ \A h \in Heights : n + h <= W

\* The sizes, spelled out: every list the program starts with or adds to fits, with what the
\* scrolling adds to its length.
LEMMA Sizes ==
  ASSUME SizesAssumption
  PROVE  /\ W \in Nat /\ W > 3 /\ MaxLists \in Nat /\ MaxLists >= 2 /\ MaxTracks \in Nat
         /\ \A h \in Heights : h \in Nat /\ h >= 8 /\ h <= W
         /\ \A n \in Lengths : Fits(n)
         /\ \A n \in Lengths : \A m \in 0..n : Fits(m)
<1>1. MaxTracks \in Lengths
  BY DEF Lengths
<1>2. /\ W \in Nat /\ MaxLists \in Nat /\ MaxLists >= 2 /\ MaxTracks \in Nat
      /\ \A h \in Heights : h \in Nat /\ h >= 8
  <2>1. Lengths \subseteq Nat /\ Heights \subseteq Nat /\ \A h \in Heights : h >= 8
    BY DEF SizesAssumption
  <2> QED
    BY <1>1, <2>1 DEF SizesAssumption
<1>3. \A n \in Lengths : n \in Nat /\ n + 3 < W /\ \A h \in Heights : n + h <= W
  BY DEF SizesAssumption
<1>4. W > 3 /\ \A h \in Heights : h <= W
  BY <1>1, <1>2, <1>3
<1>5. ASSUME NEW n \in Lengths, NEW m \in 0..n PROVE Fits(m)
  <2>1. n \in Nat /\ m \in Nat /\ m <= n /\ n + 3 < W
    BY <1>3
  <2>2. ASSUME NEW h \in Heights PROVE m + h <= W
    BY <1>2, <1>3, <2>1
  <2> QED
    BY <1>2, <2>1, <2>2 DEF Fits
<1>6. ASSUME NEW n \in Lengths PROVE Fits(n)
  BY <1>3, <1>5
<1> QED
  BY <1>2, <1>4, <1>5, <1>6

\* Reckoning with size_t: within its range, below 0, and at the most by one turn above it.
LEMMA Modulo ==
  ASSUME SizesAssumption
  PROVE  /\ \A x \in Int : x % W \in 0..W - 1
         /\ \A x \in 0..W - 1 : x % W = x
         /\ \A x \in 0 - W..-1 : x % W = x + W
<1>1. W \in Nat \ {0}
  BY Sizes
<1>2. ASSUME NEW x \in Int PROVE x % W \in 0..W - 1
  BY <1>1
<1>3. ASSUME NEW x \in 0..W - 1 PROVE x % W = x
  BY <1>1
<1>4. ASSUME NEW x \in 0 - W..-1 PROVE x % W = x + W
  BY <1>1
<1> QED
  BY <1>2, <1>3, <1>4

-----------------------------------------------------------------------------
(* Changing one list *)

\* The lists stay what they are, but for one.
Alters(l) ==
    /\ lists' \in Seq(Entry) /\ Len(lists') = Len(lists) /\ DOMAIN lists' = DOMAIN lists
    /\ \A k \in DOMAIN lists \ {l} : lists'[k] = lists[k]

\* state_set_current_selected changes nothing but the list that is shown.
LEMMA Selects ==
  ASSUME lists \in Seq(Entry), current \in DOMAIN lists, NEW n \in SizeT, Select(n)
  PROVE  /\ Alters(current)
         /\ lists'[current] = [Shown EXCEPT !.old = Sel, !.selected = n]
<1> DEFINE r == [Shown EXCEPT !.old = Sel, !.selected = n]
<1>1. Shown \in Entry
  BY ElementOfSeq, LenProperties DEF Shown
<1>2. r \in Entry
  BY <1>1 DEF Entry, Sel
<1>3. lists' = [lists EXCEPT ![current] = r]
  BY DEF Select, Shown
<1> HIDE DEF r
<1>4. lists' \in Seq(Entry) /\ Len(lists') = Len(lists)
  BY <1>2, <1>3, ExceptSeq
<1> QED
  BY <1>3, <1>4 DEF Alters, r

\* state_set_current_position likewise.
LEMMA Moves ==
  ASSUME lists \in Seq(Entry), current \in DOMAIN lists, NEW p \in SizeT, MoveTo(p)
  PROVE  Alters(current) /\ lists'[current] = [Shown EXCEPT !.position = p]
<1> DEFINE r == [Shown EXCEPT !.position = p]
<1>1. Shown \in Entry
  BY ElementOfSeq, LenProperties DEF Shown
<1>2. r \in Entry
  BY <1>1 DEF Entry
<1>3. lists' = [lists EXCEPT ![current] = r]
  BY DEF MoveTo, Shown
<1> HIDE DEF r
<1>4. lists' \in Seq(Entry) /\ Len(lists') = Len(lists)
  BY <1>2, <1>3, ExceptSeq
<1> QED
  BY <1>3, <1>4 DEF Alters, r

\* track_list_add and track_list_del change the length of one list.
LEMMA Counts ==
  ASSUME lists \in Seq(Entry), NEW l \in DOMAIN lists, NEW n \in SizeT,
         lists' = [lists EXCEPT ![l].count = n]
  PROVE  Alters(l) /\ lists'[l] = [lists[l] EXCEPT !.count = n]
<1> DEFINE r == [lists[l] EXCEPT !.count = n]
<1>1. lists[l] \in Entry
  BY ElementOfSeq, LenProperties
<1>2. r \in Entry
  BY <1>1 DEF Entry
<1>3. lists' = [lists EXCEPT ![l] = r]
  OBVIOUS
<1> HIDE DEF r
<1>4. lists' \in Seq(Entry) /\ Len(lists') = Len(lists)
  BY <1>2, <1>3, ExceptSeq
<1> QED
  BY <1>3, <1>4 DEF Alters, r

-----------------------------------------------------------------------------
(* The invariant *)

\* What is about to be deleted is behind the selection's new place, or it is the last track
\* of a list that is left; a list that is shown has tracks, the Stream excepted; and while
\* tui_track_focus scrolls down, what it shows does not begin behind the selection.
DeletesBehind ==
    victim # <<>> =>
        /\ victim[1] \in DOMAIN lists
        /\ \/ victim[1] = current /\ Sel + 2 <= Shown.count
           \/ victim[1] # current /\ current = 1 /\ lists[victim[1]].count = 1

Inv ==
    /\ lists \in Seq(Entry) /\ Len(lists) \in 2..MaxLists
    /\ \A l \in DOMAIN lists : Fits(lists[l].count)
    /\ current \in DOMAIN lists /\ EmptyNotShown /\ lines \in Heights
    /\ playing \in [list : Nat, track : SizeT] /\ playing.list \in DOMAIN lists \cup {NoTrack}
    /\ playing.track # NoTrack => playing.list \in DOMAIN lists
    /\ pc \in {"ready", "focus", "up", "down", "delete"}
    /\ (pc = "ready" => victim = <<>>) /\ (pc = "delete" => victim # <<>>)
    /\ DeletesBehind
    /\ pc = "down" /\ Sel < Shown.count => Shown.position <= Sel

\* state_init: at the start the Stream is shown, with its first track selected.
LEMMA First == ASSUME SizesAssumption, Init PROVE Inv
<1>1. PICK a \in Streams, b \in Bookmarks : lists = <<Fresh(a), Fresh(b)>>
  BY DEF Init
<1>2. Fits(a) /\ Fits(b) /\ W \in Nat /\ W > 3 /\ MaxLists \in Nat /\ MaxLists >= 2
  BY Sizes DEF Lengths
<1>3. Fresh(a) \in Entry /\ Fresh(b) \in Entry
  BY <1>2 DEF Fresh, Entry, SizeT, Fits
<1>4. lists \in Seq(Entry) /\ Len(lists) = 2 /\ DOMAIN lists = {1, 2}
  BY <1>1, <1>3
<1>5. \A l \in DOMAIN lists : Fits(lists[l].count)
  BY <1>1, <1>2, <1>4 DEF Fresh
<1>6. playing \in [list : Nat, track : SizeT]
  BY <1>2 DEF Init, SizeT, NoTrack
<1> QED
  BY <1>2, <1>4, <1>5, <1>6 DEF Init, Inv, EmptyNotShown, DeletesBehind

\* The entry of the list that is shown.
LEMMA ShownEntry ==
  ASSUME Inv, SizesAssumption
  PROVE  /\ Shown \in Entry /\ Fits(Shown.count) /\ Sel \in SizeT /\ Shown.position \in SizeT
         /\ Shown.count \in Nat /\ current \in Nat \ {0}
         /\ Last \in SizeT /\ (Shown.count > 0 => Last = Shown.count - 1)
<1>1. Shown \in Entry /\ current \in Nat \ {0}
  BY ElementOfSeq, LenProperties DEF Inv, Shown
<1>2. Fits(Shown.count)
  BY DEF Inv, Shown
<1>3. Shown.count \in Nat /\ Shown.count < W /\ W \in Nat
  BY <1>2, Sizes DEF Fits
<1>4. Last \in SizeT
  BY <1>3, Modulo DEF Last, SizeT
<1>5. ASSUME Shown.count > 0 PROVE Last = Shown.count - 1
  BY <1>3, <1>5, Modulo DEF Last
<1> QED
  BY <1>1, <1>2, <1>3, <1>4, <1>5 DEF Entry, Sel

\* The numbers tui_track_focus reckons with.
LEMMA Screen ==
  ASSUME Inv, SizesAssumption
  PROVE  /\ lines \in Nat /\ lines \div 4 \in Nat /\ lines \div 2 \in Nat
         /\ Shown.count \in Nat /\ Shown.position \in Nat /\ Shown.position < W
         /\ W \in Nat /\ W > 3
<1>1. lines \in Heights
  BY DEF Inv
<1>2. lines \in Nat /\ W \in Nat /\ W > 3
  BY <1>1, Sizes
<1>3. Shown.count \in Nat /\ Shown.position \in 0..W - 1
  BY ShownEntry DEF SizeT
<1>4. lines \div 4 \in Nat /\ lines \div 2 \in Nat
  BY <1>2
<1>5. Shown.position \in Nat /\ Shown.position < W
  BY <1>2, <1>3
<1> QED
  BY <1>2, <1>3, <1>4, <1>5

\* state_set_current_selected by a command.
LEMMA GotoKeeps == ASSUME SizesAssumption, Inv, NEW n \in SizeT, Goto(n) PROVE Inv'
<1>1. /\ Select(n) /\ pc = "ready" /\ pc' = "focus" /\ current' = current
      /\ UNCHANGED <<playing, lines, victim>>
  BY DEF Goto, Select
<1>2. Alters(current) /\ lists'[current] = [Shown EXCEPT !.old = Sel, !.selected = n]
  BY <1>1, Selects DEF Inv
<1>3. lists'[current].count = Shown.count
  BY <1>2, ShownEntry DEF Entry
<1>4. \A l \in DOMAIN lists : lists'[l].count = lists[l].count
  BY <1>2, <1>3 DEF Alters, Shown
<1>5. EmptyNotShown'
  BY <1>1, <1>3 DEF Inv, EmptyNotShown, Shown
<1> QED
  BY <1>1, <1>2, <1>4, <1>5 DEF Inv, Alters, DeletesBehind

\* add_delta_within_limits stays below its limit.
LEMMA DeltaWithin ==
  ASSUME SizesAssumption, NEW base \in SizeT, NEW d \in Steps, NEW upper \in SizeT
  PROVE  /\ AddDelta(base, d, upper) \in 0..upper
         /\ AddDelta(base, -d, upper) \in SizeT
         /\ base <= upper => AddDelta(base, -d, upper) \in 0..upper
<1>1. W \in Nat /\ d \in 1..W - 1 /\ base \in 0..W - 1 /\ upper \in 0..W - 1
  BY Sizes DEF SizesAssumption, SizeT
<1>2. (base + d) % W \in 0..W - 1
  BY <1>1, Modulo
<1>3. AddDelta(base, d, upper) = IF (base + d) % W < upper THEN (base + d) % W ELSE upper
  BY <1>1 DEF AddDelta
<1>4. AddDelta(base, -d, upper) = IF base < d THEN 0 ELSE base - d
  <2>1. -d < 0 /\ -(-d) = d /\ base + (-d) = base - d
    BY <1>1
  <2> QED
    BY <2>1 DEF AddDelta
<1> QED
  BY <1>1, <1>2, <1>3, <1>4 DEF SizeT

\* What a command selects is a size_t.
LEMMA Goes ==
  ASSUME SizesAssumption, Inv,
         \/ GotoPlaying \/ GotoEnd \/ \E d \in Steps : GotoBy(d) \/ GotoBy(-d)
         \/ \E n \in Places : GotoAt(n)
         \/ \E down \in BOOLEAN : Search(down)
  PROVE  \E n \in SizeT : Goto(n)
<1>1. CASE GotoPlaying
  BY <1>1 DEF GotoPlaying, Inv
<1>2. CASE GotoEnd
  BY <1>2, ShownEntry DEF GotoEnd
<1>3. ASSUME NEW d \in Steps, GotoBy(d) \/ GotoBy(-d) PROVE \E n \in SizeT : Goto(n)
  <2>1. Sel \in SizeT /\ Last \in SizeT
    BY ShownEntry
  <2>2. AddDelta(Sel, d, Last) \in 0..Last /\ AddDelta(Sel, -d, Last) \in SizeT
    BY <2>1, DeltaWithin
  <2>3. 0..Last \subseteq SizeT
    BY <2>1, Sizes DEF SizeT
  <2> QED
    BY <1>3, <2>2, <2>3 DEF GotoBy
<1>4. ASSUME NEW n \in Places, GotoAt(n) PROVE \E k \in SizeT : Goto(k)
  BY <1>4 DEF GotoAt, SizesAssumption, SizeT
<1>5. ASSUME NEW down \in BOOLEAN, Search(down) PROVE \E n \in SizeT : Goto(n)
  <2>1. PICK n \in 0..Shown.count - 1 : Goto(n)
    BY <1>5 DEF Search
  <2>2. n \in SizeT
    BY ShownEntry, Sizes DEF Fits, SizeT
  <2> QED
    BY <2>1, <2>2
<1> QED
  BY <1>1, <1>2, <1>3, <1>4, <1>5

\* cmd_pl_del: what is about to be deleted is behind the place the selection has moved to, or
\* the last track of a list that is left.
LEMMA DelKeeps == ASSUME SizesAssumption, Inv, Del PROVE Inv'
<1>1. /\ pc = "ready" /\ current # 1 /\ victim' = <<current, Sel>>
      /\ UNCHANGED <<playing, lines>>
  BY DEF Del
<1>2. Shown.count > 0
  BY <1>1, ShownEntry DEF Inv, EmptyNotShown
<1>3. Sel \in SizeT /\ Shown \in Entry /\ Shown.count \in Nat /\ Last = Shown.count - 1
  BY <1>2, ShownEntry
<1>4. CASE Shown.count = 1
  <2>1. current' = 1 /\ pc' = "focus" /\ UNCHANGED lists
    BY <1>4 DEF Del
  <2>2. 1 \in DOMAIN lists
    BY LenProperties DEF Inv
  <2> QED
    BY <1>1, <1>4, <2>1, <2>2 DEF Inv, EmptyNotShown, DeletesBehind, Shown
<1>5. CASE Shown.count # 1 /\ Sel >= Last
  <2> DEFINE n == (Shown.count - 2) % W
  <2>1. Select(n)
    BY <1>5 DEF Del
  <2>2. n = Shown.count - 2 /\ n \in SizeT
    <3>1. Shown.count - 2 \in 0..W - 1
      BY <1>2, <1>3, <1>5, ShownEntry, Sizes DEF Fits
    <3> QED
      BY <3>1, Modulo DEF SizeT
  <2> HIDE DEF n
  <2>3. Alters(current) /\ lists'[current] = [Shown EXCEPT !.old = Sel, !.selected = n]
    BY <2>1, <2>2, Selects DEF Inv
  <2>4. lists'[current].count = Shown.count /\ lists'[current].selected = n
    BY <1>3, <2>3 DEF Entry
  <2>5. current' = current /\ pc' = "focus"
    BY <2>1 DEF Select
  <2>6. \A l \in DOMAIN lists : lists'[l].count = lists[l].count
    BY <2>3, <2>4 DEF Alters, Shown
  <2>7. EmptyNotShown'
    BY <1>2, <2>4, <2>5 DEF EmptyNotShown, Shown
  <2>8. DeletesBehind'
    <3>1. (Sel + 2 <= Shown.count)'
      BY <1>3, <2>2, <2>4, <2>5 DEF Shown, Sel
    <3> QED
      BY <1>1, <2>3, <2>5, <3>1 DEF DeletesBehind, Inv, Alters
  <2> QED
    BY <1>1, <2>3, <2>5, <2>6, <2>7, <2>8 DEF Inv, Alters
<1>6. CASE Shown.count # 1 /\ ~(Sel >= Last)
  <2>1. pc' = "delete" /\ UNCHANGED <<lists, current>>
    BY <1>6 DEF Del
  <2>2. Sel + 2 <= Shown.count
    BY <1>3, <1>6 DEF SizeT
  <2> QED
    BY <1>1, <2>1, <2>2 DEF Inv, EmptyNotShown, DeletesBehind, Shown, Sel
<1> QED
  BY <1>4, <1>5, <1>6

\* track_list_del after the selection has been moved: the list that is shown keeps a track.
LEMMA DeleteKeeps == ASSUME SizesAssumption, Inv, Delete PROVE Inv'
<1> DEFINE l == victim[1]
<1>1. /\ pc = "delete" /\ pc' = "ready" /\ victim' = <<>>
      /\ lists' = [lists EXCEPT ![l].count = (@ - 1) % W]
      /\ UNCHANGED <<current, playing, lines>>
  BY DEF Delete
<1>2. /\ l \in DOMAIN lists
      /\ \/ l = current /\ Sel + 2 <= Shown.count
         \/ l # current /\ current = 1 /\ lists[l].count = 1
  BY <1>1 DEF Inv, DeletesBehind
<1> HIDE DEF l
<1>3. lists[l] \in Entry /\ Fits(lists[l].count) /\ lists[l].count \in Nat
  BY <1>2, ElementOfSeq, LenProperties DEF Inv, Fits
<1>4. lists[l].count >= 1 /\ (l = current => lists[l].count >= 2)
  BY <1>2, <1>3, ShownEntry DEF Shown, SizeT
<1> DEFINE n == lists[l].count - 1
<1>5. n \in SizeT /\ Fits(n) /\ (lists[l].count - 1) % W = n
  <2>1. n \in Nat /\ n < W /\ n + 2 < W
    BY <1>3, <1>4, Sizes DEF Fits
  <2>2. \A h \in Heights : n + h <= W
    BY <1>3, Sizes DEF Fits
  <2> QED
    BY <2>1, <2>2, Modulo, Sizes DEF Fits, SizeT
<1> HIDE DEF n
<1>6. Alters(l) /\ lists'[l] = [lists[l] EXCEPT !.count = n]
  BY <1>1, <1>2, <1>5, Counts DEF Inv
<1>7. lists'[l].count = n
  BY <1>3, <1>6 DEF Entry
<1>8. \A k \in DOMAIN lists : Fits(lists'[k].count)
  BY <1>5, <1>6, <1>7 DEF Alters, Inv
<1>9. EmptyNotShown'
  <2>1. CASE l = current
    BY <1>1, <1>3, <1>4, <1>7, <2>1 DEF EmptyNotShown, Shown, n
  <2>2. CASE l # current
    BY <1>1, <1>2, <2>2 DEF EmptyNotShown
  <2> QED
    BY <2>1, <2>2
<1> QED
  BY <1>1, <1>6, <1>8, <1>9 DEF Inv, Alters, DeletesBehind

\* cmd_pl_add: the list grows no further than its bound.
LEMMA AddKeeps == ASSUME SizesAssumption, Inv, NEW l \in 1..MaxLists, Add(l) PROVE Inv'
<1>1. /\ pc = "ready" /\ l \in DOMAIN lists /\ lists[l].count < MaxTracks
      /\ lists' = [lists EXCEPT ![l].count = @ + 1]
      /\ UNCHANGED <<current, playing, lines, pc, victim>>
  BY DEF Add
<1>2. lists[l] \in Entry /\ lists[l].count \in Nat
  BY <1>1, ElementOfSeq, LenProperties DEF Inv, Fits
<1> DEFINE n == lists[l].count + 1
<1>3. n \in SizeT /\ Fits(n)
  <2>1. MaxTracks \in Lengths /\ n \in 0..MaxTracks
    BY <1>1, <1>2, Sizes DEF Lengths
  <2>2. Fits(n)
    BY <2>1, Sizes
  <2> QED
    BY <2>2, Sizes DEF Fits, SizeT
<1> HIDE DEF n
<1>4. Alters(l) /\ lists'[l] = [lists[l] EXCEPT !.count = n]
  BY <1>1, <1>3, Counts DEF Inv, n
<1>5. lists'[l].count = n
  BY <1>2, <1>4 DEF Entry
<1>6. \A k \in DOMAIN lists : Fits(lists'[k].count)
  BY <1>3, <1>4, <1>5 DEF Alters, Inv
<1>7. EmptyNotShown'
  BY <1>1, <1>2, <1>4, <1>5 DEF EmptyNotShown, Shown, Inv, Alters, n
<1> QED
  BY <1>1, <1>4, <1>6, <1>7 DEF Inv, Alters, DeletesBehind

\* state_add_list: a list is appended while there is room for it.
LEMMA AddListKeeps == ASSUME SizesAssumption, Inv, NEW n \in Users, AddList(n) PROVE Inv'
<1>1. pc = "ready" /\ UNCHANGED <<current, playing, lines, pc, victim>>
  BY DEF AddList
<1>2. CASE Len(lists) = MaxLists
  <2>1. UNCHANGED lists
    BY <1>2 DEF AddList
  <2> QED
    BY <1>1, <2>1 DEF Inv, EmptyNotShown, Shown, DeletesBehind
<1>3. CASE Len(lists) # MaxLists
  <2>1. lists' = Append(lists, Fresh(n))
    BY <1>3 DEF AddList
  <2>2. Fits(n)
    BY Sizes DEF Lengths
  <2>3. Fresh(n) \in Entry
    BY <2>2, Sizes DEF Fits, Fresh, Entry, SizeT
  <2>4. Len(lists) \in Nat /\ DOMAIN lists = 1..Len(lists)
    BY LenProperties DEF Inv
  <2>5. /\ lists' \in Seq(Entry) /\ Len(lists') = Len(lists) + 1
        /\ \A k \in 1..Len(lists) : lists'[k] = lists[k]
        /\ lists'[Len(lists) + 1] = Fresh(n)
    BY <2>1, <2>3, AppendProperties DEF Inv
  <2>6. DOMAIN lists' = 1..Len(lists) + 1
    BY <2>5, LenProperties
  <2>7. Len(lists') \in 2..MaxLists
    BY <1>3, <2>4, <2>5, Sizes DEF Inv
  <2>8. ASSUME NEW k \in DOMAIN lists' PROVE Fits(lists'[k].count)
    <3>1. CASE k \in DOMAIN lists
      BY <2>4, <2>5, <3>1 DEF Inv
    <3>2. CASE k = Len(lists) + 1
      BY <2>2, <2>5, <3>2 DEF Fresh
    <3> QED
      BY <2>4, <2>6, <3>1, <3>2
  <2>9. DOMAIN lists \subseteq DOMAIN lists'
    BY <2>4, <2>6
  <2>10. EmptyNotShown'
    BY <1>1, <2>4, <2>5 DEF Inv, EmptyNotShown, Shown
  <2> QED
    BY <1>1, <2>5, <2>7, <2>8, <2>9, <2>10 DEF Inv, DeletesBehind
<1> QED
  BY <1>2, <1>3

\* The commands and steps that leave the lists alone.
LEMMA OthersKeep ==
  ASSUME SizesAssumption, Inv,
         \/ \E l \in 1..MaxLists : SwitchToList(l)
         \/ Play \/ Stop \/ NextTrack \/ Resize \/ UNCHANGED vars
  PROVE  Inv'
<1> USE DEF Inv, EmptyNotShown, Shown, Sel, DeletesBehind
<1>1. ASSUME NEW l \in 1..MaxLists, SwitchToList(l) PROVE Inv'
  BY <1>1 DEF SwitchToList
<1>2. CASE Play
  <2>1. playing' \in [list : Nat, track : SizeT] /\ playing'.list \in DOMAIN lists
    BY <1>2, ShownEntry DEF Play
  <2> QED
    BY <1>2, <2>1 DEF Play
<1>3. CASE Stop
  <2>1. NoTrack \in SizeT /\ 1 \in DOMAIN lists
    BY Sizes, LenProperties DEF NoTrack, SizeT
  <2>2. /\ playing' \in [list : Nat, track : SizeT] /\ playing'.list \in DOMAIN lists
    BY <1>3, <2>1 DEF Stop
  <2> QED
    BY <1>3, <2>2 DEF Stop
<1>4. CASE NextTrack
  <2>1. playing.list \in DOMAIN lists /\ playing \in [list : Nat, track : SizeT]
    BY <1>4 DEF NextTrack
  <2>2. lists[playing.list].count \in Nat /\ lists[playing.list].count + 2 < W
    BY <2>1 DEF Fits
  <2> DEFINE to == IF playing.track >= lists[playing.list].count THEN 0 ELSE playing.track + 1
  <2>3. to \in SizeT
    <3>1. playing.track \in 0..W - 1 /\ W \in Nat /\ W > 3
      BY <2>1, Sizes DEF SizeT
    <3>2. CASE playing.track >= lists[playing.list].count
      BY <3>1, <3>2 DEF SizeT
    <3>3. CASE ~(playing.track >= lists[playing.list].count)
      BY <2>2, <3>1, <3>3 DEF SizeT
    <3> QED
      BY <3>2, <3>3
  <2>4. playing' = [playing EXCEPT !.track = to]
    BY <1>4 DEF NextTrack
  <2> HIDE DEF to
  <2>5. playing' \in [list : Nat, track : SizeT] /\ playing'.list = playing.list
    BY <2>1, <2>3, <2>4
  <2>6. UNCHANGED <<lists, current, lines, pc, victim>>
    BY <1>4 DEF NextTrack
  <2> QED
    BY <2>1, <2>5, <2>6
<1>5. CASE Resize
  BY <1>5 DEF Resize
<1>6. CASE UNCHANGED vars
  BY <1>6 DEF vars
<1> QED
  BY <1>1, <1>2, <1>3, <1>4, <1>5, <1>6

-----------------------------------------------------------------------------
(* tui_track_focus *)

\* Moving what is shown of the list changes nothing but the position.
LEMMA MoveKeeps ==
  ASSUME SizesAssumption, Inv, NEW p \in SizeT, MoveTo(p), pc \in {"up", "down"},
         UNCHANGED <<current, playing, lines, victim>>,
         \/ pc' = pc
         \/ FocusDone,
         pc' = "down" /\ Sel < Shown.count => p <= Sel
  PROVE  Inv' /\ Shown'.position = p /\ Sel' = Sel
<1>1. Alters(current) /\ lists'[current] = [Shown EXCEPT !.position = p]
  BY Moves DEF Inv
<1>2. /\ lists'[current].count = Shown.count /\ lists'[current].selected = Sel
      /\ lists'[current].position = p
  BY <1>1, ShownEntry DEF Entry, Sel
<1>3. \A l \in DOMAIN lists : lists'[l].count = lists[l].count
  BY <1>1, <1>2 DEF Alters, Shown
<1>4. Shown'.position = p /\ Sel' = Sel /\ Shown'.count = Shown.count
  BY <1>2 DEF Shown, Sel
<1>5. EmptyNotShown' /\ DeletesBehind'
  BY <1>1, <1>3, <1>4 DEF Inv, EmptyNotShown, DeletesBehind, Alters
<1>6. /\ pc' \in {"ready", "focus", "up", "down", "delete"}
      /\ (pc' = "ready" => victim' = <<>>) /\ (pc' = "delete" => victim' # <<>>)
  BY DEF FocusDone, Inv
<1> QED
  BY <1>1, <1>3, <1>4, <1>5, <1>6 DEF Inv, Alters

\* Places on the screen are reckoned without a turn while the selection is of the list.
LEMMA Window ==
  ASSUME SizesAssumption, Inv, Sel < Shown.count
  PROVE  /\ lines \in Nat /\ lines >= 8 /\ W \in Nat /\ Sel \in Nat /\ Shown.count \in Nat
         /\ Shown.count + lines <= W
         /\ \A p \in 0..Sel : (p + lines - 4) % W = p + lines - 4 /\ p + lines \div 4 \in SizeT
         /\ lines \div 2 <= Shown.count =>
              /\ Half = Shown.count - lines \div 2
              /\ (Half + lines - 4) % W = Half + lines - 4
         /\ Shown.count < lines \div 2 => Half > Sel
         /\ Half \in SizeT
<1>1. /\ lines \in Nat /\ lines >= 8 /\ W \in Nat /\ Sel \in Nat /\ Shown.count \in Nat
      /\ Shown.count + lines <= W
  BY ShownEntry, Sizes DEF Inv, Fits, SizeT
<1>2. ASSUME NEW p \in 0..Sel
      PROVE  (p + lines - 4) % W = p + lines - 4 /\ p + lines \div 4 \in SizeT
  <2>1. p + lines - 4 \in 0..W - 1 /\ p + lines \div 4 \in 0..W - 1
    BY <1>1
  <2> QED
    BY <2>1, Modulo DEF SizeT
<1>3. ASSUME lines \div 2 <= Shown.count
      PROVE  /\ Half = Shown.count - lines \div 2
             /\ (Half + lines - 4) % W = Half + lines - 4
  <2>1. Shown.count - lines \div 2 \in 0..W - 1
    BY <1>1, <1>3
  <2>2. Half = Shown.count - lines \div 2
    BY <2>1, Modulo DEF Half
  <2>3. Half + lines - 4 \in 0..W - 1
    BY <1>1, <1>3, <2>2
  <2> QED
    BY <2>2, <2>3, Modulo
<1>4. ASSUME Shown.count < lines \div 2 PROVE Half > Sel
  <2>1. Shown.count - lines \div 2 \in 0 - W..-1
    BY <1>1, <1>4
  <2>2. Half = Shown.count - lines \div 2 + W
    BY <2>1, Modulo DEF Half
  <2> QED
    BY <1>1, <2>2
<1>5. Half \in SizeT
  <2>1. Shown.count - lines \div 2 \in Int
    BY <1>1
  <2> QED
    BY <2>1, Modulo DEF Half, SizeT
<1> QED
  BY <1>1, <1>2, <1>3, <1>4, <1>5

\* tui_track_focus: nothing is scrolled when the selection is on the screen.
LEMMA FocusKeeps ==
  ASSUME SizesAssumption, Inv, Focus
  PROVE  Inv' /\ EndsWithSelection
<1>1. pc = "focus" /\ UNCHANGED <<lists, current, playing, lines, victim>>
  BY DEF Focus, FocusAt
<1>2. CASE Visible(Sel)
  BY <1>1, <1>2 DEF Focus, FocusDone, Inv, EmptyNotShown, DeletesBehind, EndsWithSelection,
     Visible, Shown, Sel
<1>3. CASE ~Visible(Sel)
  <2>1. pc' = "up"
    BY <1>3 DEF Focus
  <2> QED
    BY <1>1, <2>1 DEF Inv, EmptyNotShown, DeletesBehind, EndsWithSelection, Showing, Shown, Sel
<1> QED
  BY <1>2, <1>3

\* tui_track_focus: it scrolls up until the selection is not above the screen.
LEMMA ScrollUpKeeps ==
  ASSUME SizesAssumption, Inv, ScrollUp
  PROVE  Inv' /\ EndsWithSelection
<1>1. pc = "up" /\ UNCHANGED <<current, playing, lines, victim>>
  BY DEF ScrollUp, FocusAt
<1>2. CASE Sel < Shown.position
  <2> DEFINE q == lines \div 4
             p == IF Shown.position >= q THEN Shown.position - q ELSE 0
  <2>1. MoveTo(p) /\ pc' = pc
    BY <1>2 DEF ScrollUp
  <2>2. p \in SizeT
    <3>1. q \in Nat /\ Shown.position \in Nat /\ Shown.position < W /\ W \in Nat /\ W > 3
      BY Screen
    <3> HIDE DEF q
    <3>2. CASE Shown.position >= q
      BY <3>1, <3>2 DEF SizeT
    <3>3. CASE ~(Shown.position >= q)
      BY <3>1, <3>3 DEF SizeT
    <3> QED
      BY <3>2, <3>3
  <2> HIDE DEF p
  <2>3. Inv'
    BY <1>1, <2>1, <2>2, MoveKeeps
  <2> QED
    BY <1>1, <2>1, <2>3 DEF EndsWithSelection, Showing
<1>3. CASE ~(Sel < Shown.position)
  <2>1. pc' = "down" /\ UNCHANGED lists
    BY <1>3 DEF ScrollUp
  <2>2. Shown.position <= Sel
    BY <1>3, ShownEntry, Sizes DEF SizeT
  <2> QED
    BY <1>1, <2>1, <2>2 DEF Inv, EmptyNotShown, DeletesBehind, EndsWithSelection, Showing,
       Shown, Sel
<1> QED
  BY <1>2, <1>3

\* Scrolling down by a quarter stays in front of the selection, and so does the last half
\* of the screen when it is left with.
LEMMA ScrollDownKeeps ==
  ASSUME SizesAssumption, Inv, ScrollDown
  PROVE  Inv' /\ EndsWithSelection
<1>1. pc = "down" /\ UNCHANGED <<current, playing, lines, victim>>
  BY DEF ScrollDown, FocusAt
<1>2. Sel < Shown.count => Shown.position \in 0..Sel
  BY <1>1, ShownEntry, Sizes DEF Inv, SizeT
<1> DEFINE end == (Shown.position + lines - 4) % W
<1>3. CASE Sel < end
  <2>1. FocusDone /\ UNCHANGED lists
    BY <1>3 DEF ScrollDown
  <2> QED
    BY <1>1, <1>3, <2>1 DEF FocusDone, Inv, EmptyNotShown, DeletesBehind, EndsWithSelection,
       Visible, Shown, Sel
<1>4. CASE ~(Sel < end) /\ Shown.position < Half
  <2> DEFINE p == (Shown.position + lines \div 4) % W
  <2>1. MoveTo(p) /\ pc' = pc
    BY <1>4 DEF ScrollDown
  <2>2. p \in SizeT
    <3> DEFINE q == lines \div 4
    <3>1. q \in Nat /\ Shown.position \in Nat
      BY Screen
    <3> HIDE DEF q
    <3>2. Shown.position + q \in Int
      BY <3>1
    <3> USE DEF q
    <3> QED
      BY <3>2, Modulo DEF SizeT
  <2>3. ASSUME Sel < Shown.count PROVE p <= Sel
    <3>1. /\ lines \in Nat /\ lines >= 8 /\ Sel \in Nat /\ Shown.position \in 0..Sel
          /\ end = Shown.position + lines - 4 /\ Shown.position + lines \div 4 \in SizeT
      BY <1>2, <2>3, Window
    <3>2. p = Shown.position + lines \div 4
      BY <3>1, Modulo DEF SizeT
    <3>3. Shown.position + lines - 4 <= Sel
      BY <1>4, <3>1
    <3> HIDE DEF p, end
    <3> QED
      BY <3>1, <3>2, <3>3
  <2> HIDE DEF p
  <2>4. Inv'
    BY <1>1, <2>1, <2>2, <2>3, MoveKeeps
  <2> QED
    BY <1>1, <2>1, <2>4 DEF EndsWithSelection, Showing
<1>5. CASE ~(Sel < end) /\ ~(Shown.position < Half)
  <2>1. MoveTo(Half) /\ FocusDone
    BY <1>5 DEF ScrollDown
  <2>2. Half \in SizeT
    <3>1. lines \in Nat /\ Shown.count \in Nat
      BY ShownEntry, Sizes DEF Inv
    <3>2. Shown.count - lines \div 2 \in Int
      BY <3>1
    <3> QED
      BY <3>2, Modulo DEF Half, SizeT
  <2>3. pc' # "down"
    BY <2>1 DEF FocusDone
  <2>4. Inv' /\ Shown'.position = Half /\ Sel' = Sel
    BY <1>1, <2>1, <2>2, <2>3, MoveKeeps
  <2>5. ASSUME Sel < Shown.count PROVE Half <= Sel /\ Sel < (Half + lines - 4) % W
    <3>1. /\ lines \in Nat /\ lines >= 8 /\ Sel \in Nat /\ Shown.position \in 0..Sel
          /\ Shown.count \in Nat /\ Half \in Int
      BY <1>2, <2>2, <2>5, Window DEF SizeT
    <3>2. Half <= Shown.position
      BY <1>5, <3>1
    <3>3. lines \div 2 <= Shown.count
      <4>1. ~(Half > Sel)
        BY <3>1, <3>2
      <4> QED
        BY <2>5, <3>1, <4>1, Window
    <3>4. Half = Shown.count - lines \div 2 /\ (Half + lines - 4) % W = Half + lines - 4
      BY <2>5, <3>3, Window
    <3> QED
      BY <2>5, <3>1, <3>2, <3>4
  <2>6. EndsWithSelection
    BY <1>1, <2>4, <2>5 DEF EndsWithSelection, Visible
  <2> QED
    BY <2>4, <2>6
<1> QED
  BY <1>3, <1>4, <1>5

-----------------------------------------------------------------------------
(* What the theorems about the instances need *)

\* Each step keeps the invariant.
LEMMA Kept == ASSUME SizesAssumption, Inv, [Next]_vars PROVE Inv'
<1>1. ASSUME NEW n \in SizeT, Goto(n) PROVE Inv'
  BY <1>1, GotoKeeps
<1>2. CASE Command
  BY <1>1, <1>2, Goes, DelKeeps, AddKeeps, AddListKeeps, OthersKeep DEF Command
<1>3. CASE Show
  BY <1>3, FocusKeeps, ScrollUpKeeps, ScrollDownKeeps DEF Show
<1> QED
  BY <1>2, <1>3, DeleteKeeps, OthersKeep DEF Next

\* TypeInvariant follows from the invariant.
LEMMA Typed == ASSUME SizesAssumption, Inv PROVE TypeInvariant
<1>1. Len(lists) \in 1..MaxLists
  BY Sizes DEF Inv
<1> QED
  BY <1>1 DEF Inv, TypeInvariant, Entry, SizeT

\* Only the steps of tui_track_focus end it.
LEMMA Ends == ASSUME SizesAssumption, Inv, [Next]_vars PROVE EndsWithSelection
<1>1. CASE Show
  BY <1>1, FocusKeeps, ScrollUpKeeps, ScrollDownKeeps DEF Show
<1>2. CASE Showing
  <2>1. pc \notin {"ready", "delete"}
    BY <1>2 DEF Showing
  <2>2. Show \/ UNCHANGED pc
    BY <2>1 DEF Next, Command, SwitchToList, Add, GotoPlaying, GotoEnd, Del, Play, Stop, GotoBy,
       GotoAt, Goto, Search, AddList, Delete, NextTrack, Resize, vars
  <2> QED
    BY <1>1, <1>2, <2>2 DEF EndsWithSelection, Showing
<1>3. CASE ~Showing
  BY <1>3 DEF EndsWithSelection
<1> QED
  BY <1>2, <1>3

-----------------------------------------------------------------------------
(* Commands keep the selection of every list in the list. *)

\* A selection within the list that is shown leaves every list's within it.
LEMMA GotoListed ==
  ASSUME SizesAssumption, Inv, AllListed, NEW n \in SizeT, Select(n), n < Shown.count
  PROVE  AllListed'
<1>1. Alters(current) /\ lists'[current] = [Shown EXCEPT !.old = Sel, !.selected = n]
  BY Selects DEF Inv
<1>2. lists'[current].count = Shown.count /\ lists'[current].selected = n
  BY <1>1, ShownEntry DEF Entry
<1> QED
  BY <1>1, <1>2 DEF AllListed, Alters

\* Relative and other gotos, the searches and cmd_pl_del select a track of the list.
LEMMA CommandsListed ==
  ASSUME SizesAssumption, Inv, AllListed, Shown.count > 0,
         \/ GotoEnd \/ Del
         \/ \E d \in Steps : GotoBy(d) \/ GotoBy(-d)
         \/ \E down \in BOOLEAN : Search(down)
  PROVE  AllListed'
<1>1. Shown.count \in Nat /\ Last = Shown.count - 1 /\ Last \in SizeT /\ Sel \in SizeT
  BY ShownEntry
<1>2. Shown.count - 1 \in Nat /\ 0..Last \subseteq SizeT /\ Sel <= Last
  <2>1. Sel < Shown.count \/ Sel = 0
    BY DEF AllListed, Inv, Shown, Sel
  <2> QED
    BY <1>1, <2>1, Sizes DEF SizeT
<1>3. ASSUME NEW n \in 0..Last, Select(n) PROVE AllListed'
  <2>1. n < Shown.count /\ n \in SizeT
    BY <1>1, <1>2
  <2> QED
    BY <1>3, <2>1, GotoListed
<1>4. CASE GotoEnd
  BY <1>1, <1>2, <1>3, <1>4 DEF GotoEnd, Goto
<1>5. ASSUME NEW d \in Steps, GotoBy(d) \/ GotoBy(-d) PROVE AllListed'
  <2>1. AddDelta(Sel, d, Last) \in 0..Last /\ AddDelta(Sel, -d, Last) \in 0..Last
    BY <1>1, <1>2, DeltaWithin
  <2> QED
    BY <1>3, <1>5, <2>1 DEF GotoBy, Goto
<1>6. ASSUME NEW down \in BOOLEAN, Search(down) PROVE AllListed'
  BY <1>1, <1>3, <1>6 DEF Search, Goto
<1>7. CASE Del
  <2>1. UNCHANGED lists \/ (Shown.count # 1 /\ Select((Shown.count - 2) % W))
    BY <1>7 DEF Del
  <2>2. ASSUME Shown.count # 1, Select((Shown.count - 2) % W) PROVE AllListed'
    <3>1. Shown.count - 2 \in 0..Last /\ Shown.count - 2 \in 0..W - 1
      BY <1>1, <1>2, <2>2, Sizes DEF SizeT
    <3>2. (Shown.count - 2) % W = Shown.count - 2
      BY <3>1, Modulo
    <3> QED
      BY <1>3, <2>2, <3>1, <3>2
  <2>3. ASSUME UNCHANGED lists PROVE AllListed'
    BY <2>3 DEF AllListed
  <2> QED
    BY <2>1, <2>2, <2>3
<1> QED
  BY <1>4, <1>5, <1>6, <1>7

\* Deleting leaves the selection in the list: it was moved before, if it had to be.
LEMMA DeleteListed == ASSUME SizesAssumption, Inv, AllListed, Delete PROVE AllListed'
<1> DEFINE l == victim[1]
<1>1. victim # <<>> /\ lists' = [lists EXCEPT ![l].count = (@ - 1) % W]
  BY DEF Delete, Inv
<1>2. /\ l \in DOMAIN lists
      /\ \/ l = current /\ Sel + 2 <= Shown.count
         \/ l # current /\ current = 1 /\ lists[l].count = 1
  BY <1>1 DEF Inv, DeletesBehind
<1> HIDE DEF l
<1> DEFINE n == lists[l].count - 1
<1>3. lists[l] \in Entry /\ lists[l].count \in Nat /\ lists[l].count < W /\ W \in Nat
  BY <1>2, ElementOfSeq, LenProperties, Sizes DEF Inv, Fits
<1>4. lists[l].selected \in Nat /\ (lists[l].selected < n \/ lists[l].selected = 0) /\ n \in Nat
  <2>1. lists[l].selected \in Nat
    BY <1>3 DEF Entry, SizeT
  <2>2. CASE l = current
    BY <1>2, <1>3, <2>1, <2>2 DEF Shown, Sel
  <2>3. CASE l # current
    BY <1>2, <1>3, <2>1, <2>3 DEF AllListed
  <2> QED
    BY <2>1, <2>2, <2>3
<1>5. (lists[l].count - 1) % W = n /\ n \in SizeT
  <2>1. n \in 0..W - 1
    BY <1>3, <1>4
  <2> QED
    BY <2>1, Modulo DEF SizeT
<1> HIDE DEF n
<1>6. Alters(l) /\ lists'[l] = [lists[l] EXCEPT !.count = n]
  BY <1>1, <1>2, <1>5, Counts DEF Inv
<1>7. lists'[l].count = n /\ lists'[l].selected = lists[l].selected
  BY <1>3, <1>6 DEF Entry
<1> QED
  BY <1>4, <1>6, <1>7 DEF AllListed, Alters

\* Lists that grow keep their selection, and a new one has its first track selected.
LEMMA AddListed ==
  ASSUME SizesAssumption, Inv, AllListed,
         (\E l \in 1..MaxLists : Add(l)) \/ \E n \in Users : AddList(n)
  PROVE  AllListed'
<1>1. ASSUME NEW l \in 1..MaxLists, Add(l) PROVE AllListed'
  <2>1. l \in DOMAIN lists /\ lists' = [lists EXCEPT ![l].count = @ + 1]
    BY <1>1 DEF Add
  <2>2. lists[l] \in Entry /\ lists[l].count \in Nat /\ lists[l].selected \in Nat
    <3>1. lists[l] \in Entry
      BY <2>1, ElementOfSeq, LenProperties DEF Inv
    <3>2. SizeT \subseteq Nat
      BY Sizes DEF SizeT
    <3>3. QED
      BY <3>1, <3>2 DEF Entry
  <2>3. lists[l].count < W - 2
    BY <2>1, <2>2, Sizes DEF Inv, Fits
  <2> DEFINE n == lists[l].count + 1
  <2>4. n \in SizeT
    BY <2>2, <2>3, Sizes DEF SizeT
  <2> HIDE DEF n
  <2>5. Alters(l) /\ lists'[l] = [lists[l] EXCEPT !.count = n]
    BY <2>1, <2>4, Counts DEF Inv, n
  <2>6. lists'[l].count = lists[l].count + 1 /\ lists'[l].selected = lists[l].selected
    BY <2>2, <2>5 DEF Entry, n
  <2> QED
    BY <2>1, <2>2, <2>5, <2>6 DEF AllListed, Alters
<1>2. ASSUME NEW n \in Users, AddList(n) PROVE AllListed'
  <2>1. CASE UNCHANGED lists
    BY <2>1 DEF AllListed
  <2>2. CASE lists' = Append(lists, Fresh(n))
    <3>1. Fresh(n) \in Entry
      BY Sizes DEF Fits, Fresh, Entry, SizeT, Lengths
    <3>2. Len(lists) \in Nat /\ DOMAIN lists = 1..Len(lists)
      BY LenProperties DEF Inv
    <3>3. /\ lists' \in Seq(Entry) /\ Len(lists') = Len(lists) + 1
          /\ \A k \in 1..Len(lists) : lists'[k] = lists[k]
          /\ lists'[Len(lists) + 1] = Fresh(n)
      BY <2>2, <3>1, AppendProperties DEF Inv
    <3>4. DOMAIN lists' = 1..Len(lists) + 1
      BY <3>3, LenProperties
    <3>5. ASSUME NEW k \in 1..Len(lists) + 1
          PROVE  lists'[k].selected < lists'[k].count \/ lists'[k].selected = 0
      <4>1. CASE k \in 1..Len(lists)
        BY <3>2, <3>3, <4>1 DEF AllListed
      <4>2. CASE k = Len(lists) + 1
        BY <3>3, <4>2 DEF Fresh
      <4> QED
        BY <3>2, <4>1, <4>2
    <3> QED
      BY <3>4, <3>5 DEF AllListed
  <2> QED
    BY <1>2, <2>1, <2>2 DEF AddList
<1> QED
  BY <1>1, <1>2

\* Scrolling leaves the selections alone.
LEMMA ShowListed == ASSUME SizesAssumption, Inv, AllListed, Show PROVE AllListed'
<1>1. UNCHANGED lists \/ \E p \in SizeT : MoveTo(p)
  <2>1. CASE Focus
    BY <2>1 DEF Focus
  <2>2. CASE ScrollUp
    <3> DEFINE q == lines \div 4
    <3>1. q \in Nat /\ Shown.position \in Nat /\ Shown.position < W /\ W \in Nat /\ W > 3
      BY Screen
    <3> HIDE DEF q
    <3>2. (IF Shown.position >= q THEN Shown.position - q ELSE 0) \in SizeT
      <4>1. CASE Shown.position >= q
        BY <3>1, <4>1 DEF SizeT
      <4>2. CASE ~(Shown.position >= q)
        BY <3>1, <4>2 DEF SizeT
      <4> QED
        BY <4>1, <4>2
    <3>3. \/ UNCHANGED lists
          \/ MoveTo(IF Shown.position >= q THEN Shown.position - q ELSE 0)
      BY <2>2 DEF ScrollUp, q
    <3> QED
      BY <3>2, <3>3
  <2>3. CASE ScrollDown
    <3> DEFINE h == lines \div 2
               q == lines \div 4
    <3>1. h \in Nat /\ q \in Nat /\ Shown.count \in Nat /\ Shown.position \in Nat
      BY Screen
    <3> HIDE DEF h, q
    <3>2. Shown.count - h \in Int /\ Shown.position + q \in Int
      BY <3>1
    <3> USE DEF h, q
    <3>3. Half \in SizeT /\ (Shown.position + lines \div 4) % W \in SizeT
      BY <3>2, Modulo DEF Half, SizeT
    <3> QED
      BY <2>3, <3>3 DEF ScrollDown
  <2> QED
    BY <2>1, <2>2, <2>3 DEF Show
<1>2. ASSUME NEW p \in SizeT, MoveTo(p) PROVE AllListed'
  <2>1. Alters(current) /\ lists'[current] = [Shown EXCEPT !.position = p]
    BY <1>2, Moves DEF Inv
  <2>2. lists'[current].count = Shown.count /\ lists'[current].selected = Shown.selected
    BY <2>1, ShownEntry DEF Entry
  <2> QED
    BY <2>1, <2>2 DEF AllListed, Alters, Shown, Inv
<1>3. ASSUME UNCHANGED lists PROVE AllListed'
  BY <1>3 DEF AllListed
<1> QED
  BY <1>1, <1>2, <1>3

\* The selection of a list leaves it only by a goto to a number or to the track that is
\* played.
LEMMA Strays == ASSUME SizesAssumption, Inv, [Next]_vars PROVE StraysByGoto
<1> SUFFICES ASSUME AllListed, Shown.count > 0, ~GotoPlaying, ~\E n \in Places : GotoAt(n)
             PROVE  AllListed'
  BY DEF StraysByGoto
<1>1. CASE Command
  <2>1. ASSUME UNCHANGED lists PROVE AllListed'
    BY <2>1 DEF AllListed
  <2>2. ASSUME NEW l \in 1..MaxLists, SwitchToList(l) PROVE AllListed'
    BY <2>1, <2>2 DEF SwitchToList
  <2>3. CASE Play \/ Stop
    BY <2>1, <2>3 DEF Play, Stop
  <2> QED
    BY <1>1, <2>2, <2>3, CommandsListed, AddListed DEF Command
<1>2. CASE NextTrack \/ Resize \/ UNCHANGED vars
  BY <1>2 DEF NextTrack, Resize, vars, AllListed
<1> QED
  BY <1>1, <1>2, DeleteListed, ShowListed DEF Next
=============================================================================
