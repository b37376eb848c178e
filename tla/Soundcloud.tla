----------------------------- MODULE Soundcloud -----------------------------
(***************************************************************************)
(* The stream of the subscribed users (soundcloud.c) and the files its     *)
(* parts are cached in (jspf.c).  Per user the cached list is read, the    *)
(* tracks created since are fetched page by page, newest first, put before *)
(* the cached ones and written back.  Users publish meanwhile, any page    *)
(* may fail, and the program may die at any step; a file that was being    *)
(* written is cut off then, cannot be parsed and counts as empty.          *)
(*                                                                         *)
(* A track is <<user, number>>; a user's tracks are numbered in the order  *)
(* of their creation.  Times are in seconds, as in the request.            *)
(***************************************************************************)
EXTENDS Integers, Sequences, Functions

CONSTANTS
    NUsers,    \* config_get_subscribe_count()
    Limit,     \* tracks of a page
    MaxTracks, \* bound: per user the tracks he publishes
    MaxTime,   \* bound: seconds
    MaxRuns    \* bound: starts of the program

SizesAssumption ==
    /\ NUsers \in Nat \ {0} /\ Limit \in Nat \ {0}
    /\ MaxTracks \in [1..NUsers -> Nat] /\ MaxTime \in Nat /\ MaxRuns \in Nat

Users == 1..NUsers

VARIABLES
    now, published,  \* the time; per user the times of its tracks
    file,            \* per user the cached list, Cut, or <<>> when there is none
    pc, user,        \* the step, and the user it is about
    before,          \* tracks published when the program fetched its last stream
    cached, list,    \* cache_tracks; list, Null before the first page
    rest,            \* tracks on the pages to come
    merged,          \* the lists of the users done, as track_list_merge puts them together
    stream,          \* merged, sorted, Null while there is none
    failed,          \* some page could not be had
    runs

Null == <<<<0, 0>>>>
Cut == <<<<0, 1>>>>
server == <<now, published>>
vars == <<server, file, pc, user, before, cached, list, rest, merged, stream, failed, runs>>

Init ==
    /\ now = 1 /\ published = [u \in Users |-> <<>>] /\ file = [u \in Users |-> <<>>]
    /\ pc = "start" /\ user = 1 /\ before = [u \in Users |-> 0] /\ cached = <<>> /\ list = Null
    /\ rest = <<>> /\ merged = <<>> /\ stream = Null /\ failed = FALSE /\ runs = 1

CreatedAt(t) == published[t[1]][t[2]]
OfUser(u) == {<<u, i>> : i \in DOMAIN published[u]}

-----------------------------------------------------------------------------

Tick == now < MaxTime /\ now' = now + 1
        /\ UNCHANGED <<published, file, pc, user, before, cached, list, rest, merged, stream, failed, runs>>
Publish(u) ==
    /\ Len(published[u]) < MaxTracks[u] /\ published' = [published EXCEPT ![u] = Append(@, now)]
    /\ UNCHANGED <<now, file, pc, user, before, cached, list, rest, merged, stream, failed, runs>>

Start ==
    /\ pc = "start" /\ pc' = "read" /\ user' = 1
    /\ before' = [u \in Users |-> Len(published[u])]
    /\ UNCHANGED <<server, file, cached, list, rest, merged, stream, failed, runs>>

\* jspf_read: a file that cannot be parsed yields an empty list.
Read(u) == IF file[u] = Cut THEN <<>> ELSE file[u]

\* Mutated form: the newest cached track is asked for again.
FromNewest(tracks) == IF tracks = <<>> THEN 0 ELSE CreatedAt(tracks[1])
\* Mutated form: the time is that of the oldest cached track.
FromOldest(tracks) == IF tracks = <<>> THEN 0 ELSE CreatedAt(tracks[Len(tracks)]) + 1
\* created_at[from]: a second after the newest cached track.
From(tracks) == IF tracks = <<>> THEN 0 ELSE CreatedAt(tracks[1]) + 1

\* soundcloud.com returns the tracks of a user newest first: here those behind the first n.
NewestFirst(u, n) == [i \in 1..Len(published[u]) - n |-> <<u, Len(published[u]) + 1 - i>>]
ReadCache ==
    /\ pc = "read" /\ pc' = "fetch" /\ cached' = Read(user) /\ list' = Null
    /\ \E n \in 0..Len(published[user]) :
        /\ \A t \in OfUser(user) : t[2] > n <=> CreatedAt(t) >= From(Read(user))
        /\ rest' = NewestFirst(user, n)
    /\ UNCHANGED <<server, file, user, before, merged, stream, failed, runs>>

\* parse_single_response, and track_list_append behind the pages before.
Page ==
    LET n == IF Len(rest) < Limit THEN Len(rest) ELSE Limit IN
    /\ pc = "fetch"
    /\ list' = (IF list = Null THEN <<>> ELSE list) \o SubSeq(rest, 1, n)
    /\ rest' = SubSeq(rest, n + 1, Len(rest)) /\ pc' = (IF rest' = <<>> THEN "merge" ELSE "fetch")
    /\ UNCHANGED <<server, file, user, before, cached, merged, stream, failed, runs>>

\* Mutated form: the pages before the one that failed are kept.
PageFailsKeep ==
    /\ pc = "fetch" /\ pc' = "merge" /\ rest' = <<>> /\ failed' = TRUE
    /\ UNCHANGED <<server, file, user, before, cached, list, merged, stream, runs>>
\* No response, or one with another status: what was fetched is dropped.
PageFails ==
    /\ pc = "fetch" /\ list' = Null /\ pc' = "merge" /\ rest' = <<>> /\ failed' = TRUE
    /\ UNCHANGED <<server, file, user, before, cached, merged, stream, runs>>
\* A response that cannot be parsed is NULL; as a later page it is appended nevertheless.
PageUnparsable ==
    /\ pc = "fetch" /\ pc' = (IF list = Null THEN "merge" ELSE "undefined") /\ failed' = TRUE
    /\ rest' = <<>> /\ UNCHANGED <<server, file, user, before, cached, list, merged, stream, runs>>

\* track_list_merge, of a list and what is to come behind it.
Merged(tracks, behind) == tracks \o behind

\* Mutated form: one user too many.
DonePast(result) ==
    /\ merged' = Merged(merged, result)
    /\ IF user > NUsers THEN pc' = "stream" /\ UNCHANGED user ELSE pc' = "read" /\ user' = user + 1
Done(result) ==
    /\ merged' = Merged(merged, result)
    /\ IF user = NUsers THEN pc' = "stream" /\ UNCHANGED user ELSE pc' = "read" /\ user' = user + 1
OnlyCached ==
    /\ pc = "merge" /\ list = Null /\ Done(cached)
    /\ UNCHANGED <<server, file, before, cached, list, rest, stream, failed, runs>>

\* jspf_write opens the file, which empties it, ...
OpenFile ==
    /\ pc = "merge" /\ list # Null /\ pc' = "write" /\ file' = [file EXCEPT ![user] = Cut]
    /\ UNCHANGED <<server, user, before, cached, list, rest, merged, stream, failed, runs>>
\* ... and writes it; or it cannot be opened, which is logged.
WriteFile ==
    /\ pc = "write" /\ file' = [file EXCEPT ![user] = Merged(list, cached)]
    /\ Done(Merged(list, cached))
    /\ UNCHANGED <<server, before, cached, list, rest, stream, failed, runs>>
NoFile ==
    /\ pc = "merge" /\ list # Null /\ Done(Merged(list, cached))
    /\ UNCHANGED <<server, file, before, cached, list, rest, stream, failed, runs>>

\* track_list_sort: newest first; qsort may leave the tracks of one second in any order.
Sorted(tracks) ==
    LET orders == {p \in Bijection(DOMAIN tracks, DOMAIN tracks) : \A i, j \in DOMAIN tracks :
                      i < j => CreatedAt(tracks[p[i]]) >= CreatedAt(tracks[p[j]])}
    IN  {[i \in DOMAIN tracks |-> tracks[p[i]]] : p \in orders}

\* Mutated form: the users' lists stay one after the other.
StreamUnsorted ==
    /\ pc = "stream" /\ stream' = merged /\ pc' = "end"
    /\ UNCHANGED <<server, file, user, before, cached, list, rest, merged, failed, runs>>
Stream ==
    /\ pc = "stream" /\ stream' \in Sorted(merged) /\ pc' = "end"
    /\ UNCHANGED <<server, file, user, before, cached, list, rest, merged, failed, runs>>

\* The program ends or dies, at any step, and is started again: only the files last.
Restart ==
    /\ pc # "start" /\ runs < MaxRuns /\ runs' = runs + 1
    /\ pc' = "start" /\ user' = 1 /\ cached' = <<>> /\ list' = Null /\ rest' = <<>>
    /\ merged' = <<>> /\ stream' = Null /\ failed' = FALSE
    /\ UNCHANGED <<server, file, before>>

Next ==
    \/ Tick \/ \E u \in Users : Publish(u)
    \/ Start \/ ReadCache \/ Page \/ PageFails \/ PageUnparsable
    \/ OnlyCached \/ OpenFile \/ WriteFile \/ NoFile \/ Stream \/ Restart

Spec == Init /\ [][Next]_vars

-----------------------------------------------------------------------------
(* Properties *)

Tracks == UNION {OfUser(u) : u \in Users}
Holds(tracks, t) == t \in Range(tracks)

TypeInvariant ==
    /\ pc \in {"start", "read", "fetch", "merge", "write", "stream", "end", "undefined"}
    /\ user \in Users
    /\ \A tracks \in {cached, rest, merged} \cup ({list, stream} \ {Null}) : Range(tracks) \subseteq Tracks
    /\ \A u \in Users : file[u] = Cut \/ Range(file[u]) \subseteq OfUser(u)

\* A cached list has no gap: it holds every track older than its newest one, apart from
\* those created in the very second of another track it holds; whatever pages failed and
\* wherever the program died before.
NoGap ==
    \A u \in Users : file[u] \notin {Cut, <<>>} => \A t \in OfUser(u) :
        CreatedAt(t) < CreatedAt(file[u][1]) /\ ~Holds(file[u], t) =>
            \E i \in DOMAIN file[u] : CreatedAt(file[u][i]) = CreatedAt(t)

\* No track is in the stream twice, however often it was fetched and cached.
NoTrackTwice == stream # Null => \A i, j \in DOMAIN stream : stream[i] = stream[j] => i = j

\* The stream is sorted by time, newest first.
StreamSorted == stream # Null => \A i \in 1..Len(stream) - 1 : CreatedAt(stream[i]) >= CreatedAt(stream[i + 1])

\* Why: times never go back, so a track published later is not older than any other.
Ascending ==
    /\ now \in Nat /\ published \in [Users -> Seq(Nat)]
    /\ \A t \in Tracks : CreatedAt(t) <= now
    /\ \A u \in Users : \A s, t \in OfUser(u) : s[2] <= t[2] => CreatedAt(s) <= CreatedAt(t)

Descends(tracks) == \A i, j \in DOMAIN tracks : i < j => tracks[i][2] > tracks[j][2]
\* A list of one user as it is cached: newest first, and without a gap.
Whole(u, tracks) ==
    /\ tracks \in Seq(OfUser(u)) /\ Descends(tracks)
    /\ tracks # <<>> => \A t \in OfUser(u) :
        CreatedAt(t) < CreatedAt(tracks[1]) /\ ~Holds(tracks, t) =>
            \E i \in DOMAIN tracks : CreatedAt(tracks[i]) = CreatedAt(t)
\* All tracks of a user from a second after the cached ones up to the first of them.
Recent(u, tracks, known) ==
    /\ tracks \in Seq(OfUser(u)) /\ Descends(tracks)
    /\ \A i \in DOMAIN tracks : CreatedAt(tracks[i]) >= From(known)
    /\ tracks # <<>> => \A t \in OfUser(u) :
        From(known) <= CreatedAt(t) /\ CreatedAt(t) < CreatedAt(tracks[1]) => Holds(tracks, t)

\* What is cached is whole; the pages had so far and those to come are the recent tracks.
Fetched == IF list = Null THEN <<>> ELSE list
CachesWhole ==
    /\ DOMAIN file = Users /\ \A u \in Users : file[u] # Cut => Whole(u, file[u])
    /\ pc \in {"fetch", "merge", "write"} => Whole(user, cached)
    /\ pc = "fetch" =>
        Recent(user, Fetched \o rest, cached) /\ {Fetched, rest} \subseteq Seq(OfUser(user))
    /\ pc \in {"merge", "write"} /\ list # Null => Recent(user, list, cached)
    /\ pc = "write" => list # Null

\* The lists put together are of users done, each track once; sorting them changes no more
\* than their order.
Distinct(tracks) == \A i, j \in DOMAIN tracks : tracks[i] = tracks[j] => i = j
MergesOnce ==
    /\ merged \in Seq(Tracks) /\ Distinct(merged) /\ (pc = "start" => merged = <<>>)
    /\ pc \in {"read", "fetch", "merge", "write"} => \A i \in DOMAIN merged : merged[i][1] < user
    /\ stream # Null => stream \in Seq(Tracks)

\* soundcloud.h: the list contains all tracks (that were there when it was asked for).
ContainsAllTracks ==
    pc = "end" /\ ~failed => \A t \in Tracks : t[2] <= before[t[1]] => Holds(stream, t)
\* soundcloud.h: NULL in case of failure: the entries are had, or not, and nothing else.
FailsDefined == pc # "undefined"
=============================================================================
