---------------------------- MODULE Description -----------------------------
(***************************************************************************)
(* description_prepare_urls (commands/playlist.c): the description of a    *)
(* track is copied with a number behind each URL, and the URLs are         *)
(* collected.  The copy has room for 42 URLs; an array grows by 16.        *)
(* Text is followed by its length only: every snprintf adds the length it  *)
(* would need, whether or not it fitted.                                   *)
(***************************************************************************)
EXTENDS Integers

CONSTANTS
    Length, \* strlen(string)
    Gaps,   \* bound: characters between two URLs
    Lens    \* bound: lengths of a URL; REGEX_URL matches two characters at least

ASSUME LengthAssumption == Length \in Nat /\ Gaps \subseteq Nat /\ Lens \subseteq Nat \ {0, 1}

Size == Length + (2 + 16) * 42 + 1 \* prep_size

VARIABLES
    pc,       \* "scan", "done", or "aborted" by an assertion
    at,       \* where rem_str begins
    used,     \* prep_used
    found,    \* urls_pos
    urls_size

vars == <<pc, at, used, found, urls_size>>

Init == pc = "scan" /\ at = 0 /\ used = 0 /\ found = 0 /\ urls_size = 0

\* Mutated form: the number is set in bold, too.
OverheadBold(n) == IF n < 10 THEN 8 ELSE IF n < 100 THEN 9 ELSE IF n < 1000 THEN 10 ELSE 11
\* F_UNDERLINE, F_RESET and " [n]"
Overhead(n) == IF n < 10 THEN 6 ELSE IF n < 100 THEN 7 ELSE IF n < 1000 THEN 8 ELSE 9

\* Mutated form: the array grows when it is overfull.
GrowLate == urls_size' = IF found > urls_size THEN urls_size + 16 ELSE urls_size
Grow == urls_size' = IF found >= urls_size THEN urls_size + 16 ELSE urls_size

\* Mutated form: the search goes on behind the character that follows.
MatchBehind(gap, len) ==
    /\ pc = "scan" /\ at + gap + len <= Length /\ used + gap <= Size
    /\ used' = used + gap + len + Overhead(found)
    /\ Grow /\ found' = found + 1 /\ at' = at + gap + len + 1 /\ UNCHANGED pc
Match(gap, len) ==
    /\ pc = "scan" /\ at + gap + len <= Length /\ used + gap <= Size
    /\ used' = used + gap + len + Overhead(found)
    /\ Grow /\ found' = found + 1 /\ at' = at + gap + len /\ UNCHANGED pc

\* assert(prep_size >= prep_used), in front of the text and in front of the URL
Abort(gap, len) ==
    /\ pc = "scan" /\ at + gap + len <= Length /\ used + gap > Size
    /\ pc' = "aborted" /\ UNCHANGED <<at, used, found, urls_size>>

\* No further URL; the rest is copied, without an assertion.
Finish ==
    /\ pc = "scan" /\ pc' = "done" /\ used' = used + Length - at /\ at' = Length
    /\ UNCHANGED <<found, urls_size>>

Next == Finish \/ \E gap \in Gaps, len \in Lens : Match(gap, len) \/ Abort(gap, len)

Spec == Init /\ [][Next]_vars

-----------------------------------------------------------------------------
(* Properties *)

TypeInvariant ==
    /\ pc \in {"scan", "done", "aborted"} /\ at \in 0..Length
    /\ used \in Nat /\ found \in Nat /\ urls_size \in Nat

\* Up to a hundred URLs the copy fits, its NUL included, however long they are, and no
\* assertion fails; so 42 is no limit.
FewUrlsFit == found <= 100 => pc # "aborted" /\ used < Size

\* A URL is stored only where the array has a place, and at most 16 places are unused.
UrlsFit == found <= urls_size /\ urls_size <= found + 16

\* description_prepare_urls overruns neither the copy of a description nor its array of URLs.
DescriptionFits == FewUrlsFit /\ UrlsFit

\* The assertions of description_prepare_urls.
AssertionsHold == pc # "aborted"
=============================================================================
