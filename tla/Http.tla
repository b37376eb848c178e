-------------------------------- MODULE Http --------------------------------
(***************************************************************************)
(* One request to a server (http.c) as its three callers make it:          *)
(* soundcloud_connect_track for a download worker, soundcloud_get_entries  *)
(* page by page over one connection, and soundcloud_get_subscriptions.     *)
(* The model follows who owns a connection while redirects close one and   *)
(* open another, and how much of the buffer the header and body take.      *)
(*                                                                         *)
(* What the code does with a NULL or freed connection is undefined; such a *)
(* step ends in pc = "undefined" and `fault' says what was used.           *)
(***************************************************************************)
EXTENDS Integers, Sequences

CONSTANTS
    MaxRedirects, \* MAX_REDIRECT_STEPS
    BufferSize,   \* DEFAULT_BUFFER_SIZE
    Headers,      \* lengths of a header
    Lengths,      \* contents a server announces
    MaxPages,     \* bound: pages of one stream
    Callers       \* who makes the request: "track", "entries", "subscriptions"

SizesAssumption ==
    /\ MaxRedirects \in Nat /\ BufferSize \in Nat \ {0} /\ MaxPages \in Nat \ {0}
    /\ Headers \subseteq 1..BufferSize - 1 /\ Lengths \subseteq Nat
    /\ Callers \subseteq {"track", "entries", "subscriptions"}

VARIABLES
    pc, fault, caller,
    open,   \* the connections that exist; they are numbered as they are opened
    used,   \* the last number used
    held,   \* the connection the caller passed, 0 for NULL
    nwc,    \* the connection of the current request
    chain,  \* the connections url_connect opened for redirects
    resp,   \* the response: status, nwc and length, or Null
    size,   \* length of resp->buffer
    read,   \* bytes of the buffer in use: header_length + body_read
    lost,   \* the server is gone
    pages   \* pages fetched

conn == <<open, used, held, nwc, chain>>
body == <<size, read, lost>>
vars == <<pc, fault, caller, conn, resp, body, pages>>

MaxConns == MaxRedirects + 3 \* bound, above what a behaviour needs
Null == [status |-> "none", nwc |-> 0, header |-> 0, length |-> 0]

Init ==
    /\ pc = "idle" /\ fault = "none" /\ caller \in Callers
    /\ open = {} /\ used = 0 /\ held = 0 /\ nwc = 0 /\ chain = <<>>
    /\ resp = Null /\ size = 0 /\ read = 0 /\ lost = FALSE /\ pages = 0

Undefined(what) == pc' = "undefined" /\ fault' = what
Finish == pc' = "done" /\ UNCHANGED fault

-----------------------------------------------------------------------------

Connected ==
    /\ open' = open \cup {used + 1} /\ used' = used + 1
    /\ held' = used + 1 /\ nwc' = used + 1 /\ pc' = "request" /\ UNCHANGED fault

\* No connection: get_entries asserts that there is one, the others return NULL.
Unconnected ==
    /\ IF caller = "entries" THEN Undefined("assertion") ELSE Finish
    /\ UNCHANGED <<open, used, held, nwc>>

Connect ==
    /\ pc = "idle" /\ (Connected \/ Unconnected)
    /\ UNCHANGED <<caller, chain, resp, body, pages>>

\* The recursion unwinds: every level stores its connection over the inner one's.
Returned(r) == [r EXCEPT !.nwc = IF chain = <<>> THEN 0 ELSE chain[1]]
\* NULL is returned through no level, or else dereferenced by the one above it.
ReturnNull ==
    /\ resp' = Null
    /\ IF chain = <<>> THEN pc' = "returned" /\ UNCHANGED fault ELSE Undefined("NULL response")

\* The request is sent and its header read; the connection may be one that was freed.
Send == nwc \in open
SendToFreed ==
    /\ pc = "request" /\ ~Send /\ Undefined("freed connection")
    /\ UNCHANGED <<caller, conn, resp, body, pages>>
HeaderLost ==
    /\ pc = "request" /\ Send /\ ReturnNull
    /\ UNCHANGED <<caller, conn, body, pages>>

\* Mutated form: the steps left are not counted.
RedirectUncounted ==
    /\ pc = "request" /\ Send /\ used < MaxConns
    /\ open' = (open \ {nwc}) \cup {used + 1} /\ used' = used + 1 /\ nwc' = used + 1
    /\ chain' = Append(chain, used + 1)
    /\ UNCHANGED <<pc, fault, caller, held, resp, body, pages>>
\* Mutated form: the connection that is left is not closed.
RedirectKeepOpen ==
    /\ pc = "request" /\ Send /\ Len(chain) < MaxRedirects
    /\ open' = open \cup {used + 1} /\ used' = used + 1 /\ nwc' = used + 1
    /\ chain' = Append(chain, used + 1)
    /\ UNCHANGED <<pc, fault, caller, held, resp, body, pages>>

\* A redirect is followed: the connection is closed, then the next one opened.
Redirect ==
    /\ pc = "request" /\ Send /\ Len(chain) < MaxRedirects
    /\ open' = (open \ {nwc}) \cup {used + 1} /\ used' = used + 1 /\ nwc' = used + 1
    /\ chain' = Append(chain, used + 1)
    /\ UNCHANGED <<pc, fault, caller, held, resp, body, pages>>

\* ... to a location that cannot be parsed, ...
RedirectUnparsable ==
    /\ pc = "request" /\ Send /\ Len(chain) < MaxRedirects
    /\ open' = open \ {nwc} /\ ReturnNull
    /\ UNCHANGED <<caller, used, held, nwc, chain, body, pages>>
\* ... or a server that cannot be reached: url_connect's result is not looked at (nor is a
\* redirect without a Location).
RedirectUnreachable ==
    /\ pc = "request" /\ Send /\ Len(chain) < MaxRedirects
    /\ open' = open \ {nwc} /\ Undefined("NULL connection")
    /\ UNCHANGED <<caller, used, held, nwc, chain, resp, body, pages>>

\* Any other answer, or one redirect too many.
Answer(status, header, length) ==
    /\ pc = "request" /\ Send /\ (status = "redirect" => Len(chain) = MaxRedirects)
    /\ resp' = Returned([status |-> status, nwc |-> 0, header |-> header, length |-> length])
    /\ pc' = "returned" /\ UNCHANGED <<fault, caller, conn, body, pages>>

-----------------------------------------------------------------------------
(* http_request_get: the body *)

\* Mutated form: the buffer grows only when the terminator did not fit, by one off.
GrowLate(r) ==
    size' = IF r.header + r.length > BufferSize THEN r.header + r.length + 1 ELSE BufferSize
Grow(r) ==
    size' = IF r.header + r.length >= BufferSize THEN r.header + r.length + 1 ELSE BufferSize

StartBody ==
    /\ pc = "returned" /\ caller # "track" /\ resp # Null
    /\ Grow(resp) /\ read' = resp.header /\ lost' = FALSE
    /\ pc' = "body" /\ nwc' = (IF resp.nwc # 0 THEN resp.nwc ELSE held)
    /\ UNCHANGED <<fault, caller, open, used, held, chain, resp, pages>>

\* Mutated form: what was received is stored again and again at the same place.
ReceiveUncounted(n) ==
    /\ pc = "body" /\ read < resp.header + resp.length /\ nwc \in open /\ ~lost
    /\ n <= resp.header + resp.length - read /\ read' = resp.header
    /\ UNCHANGED <<pc, fault, caller, conn, resp, size, lost, pages>>

Receive(n) ==
    /\ pc = "body" /\ read < resp.header + resp.length /\ nwc \in open /\ ~lost
    /\ n <= resp.header + resp.length - read /\ read' = read + n
    /\ UNCHANGED <<pc, fault, caller, conn, resp, size, lost, pages>>
ReceiveFromFreed ==
    /\ pc = "body" /\ read < resp.header + resp.length /\ nwc \notin open
    /\ Undefined("freed connection") /\ UNCHANGED <<caller, conn, resp, body, pages>>
Lose == pc = "body" /\ ~lost /\ lost' = TRUE /\ UNCHANGED <<pc, fault, caller, conn, resp, size, read, pages>>
\* recv returns 0 or an error; the loop goes on.
ReceiveNothing ==
    pc = "body" /\ read < resp.header + resp.length /\ nwc \in open /\ lost /\ UNCHANGED vars
EndBody ==
    /\ pc = "body" /\ read = resp.header + resp.length /\ pc' = "complete"
    /\ UNCHANGED <<fault, caller, conn, resp, body, pages>>

-----------------------------------------------------------------------------
(* The callers *)

Disconnect(c) == \* network_conn::disconnect
    IF c \in open THEN open' = open \ {c} /\ Finish
    ELSE Undefined("freed connection") /\ UNCHANGED open

\* get_entries goes on with the next page over its own connection, ...
NextPage ==
    /\ pc = "complete" /\ caller = "entries" /\ resp.status = "ok" /\ pages + 1 < MaxPages
    /\ pc' = "request" /\ nwc' = held /\ pages' = pages + 1 /\ chain' = <<>> /\ resp' = Null
    /\ UNCHANGED <<fault, caller, open, used, held, body>>
\* ... or ends, at the last page or an error, and get_stream disconnects.
EndEntries ==
    /\ caller = "entries" /\ (pc = "complete" \/ (pc = "returned" /\ resp = Null))
    /\ Disconnect(held) /\ resp' = Null
    /\ UNCHANGED <<caller, used, held, nwc, chain, body, pages>>

\* get_subscriptions disconnects only where there is no response.
EndSubscriptions ==
    /\ caller = "subscriptions"
    /\ \/ pc = "complete" /\ Finish /\ UNCHANGED open
       \/ pc = "returned" /\ resp = Null /\ Disconnect(held)
    /\ UNCHANGED <<caller, used, held, nwc, chain, resp, body, pages>>

\* The worker receives from resp->nwc and disconnects it.
Worker ==
    /\ pc = "returned" /\ caller = "track"
    /\ IF resp.nwc = 0 THEN Undefined("no connection") /\ UNCHANGED open ELSE Disconnect(resp.nwc)
    /\ UNCHANGED <<caller, used, held, nwc, chain, resp, body, pages>>

HeaderStep ==
    \/ HeaderLost \/ Redirect \/ RedirectUnparsable \/ RedirectUnreachable
    \/ \E s \in {"ok", "redirect", "other"}, h \in Headers, n \in Lengths : Answer(s, h, n)
BodyStep == StartBody \/ ReceiveFromFreed \/ EndBody \/ \E n \in 1..BufferSize : Receive(n)
Next ==
    \/ Connect \/ SendToFreed \/ HeaderStep \/ BodyStep \/ Lose \/ ReceiveNothing
    \/ NextPage \/ EndEntries \/ EndSubscriptions \/ Worker

\* The thread that makes the request runs; a server need not answer, and may be lost.
Spec == Init /\ [][Next]_vars /\ WF_vars(BodyStep)

-----------------------------------------------------------------------------
(* Properties *)

TypeInvariant ==
    /\ pc \in {"idle", "request", "returned", "body", "complete", "done", "undefined"}
    /\ caller \in Callers /\ open \subseteq 1..used /\ used <= MaxRedirects + 1
    /\ {held, nwc} \subseteq 0..used /\ chain \in Seq(1..used) /\ resp.nwc \in 0..used
    /\ read \in Nat /\ size \in Nat /\ lost \in BOOLEAN /\ pages \in 0..MaxPages

\* While a request is on its way no connection of an earlier redirect is open: only the
\* one it is sent to.  (The caller's own is closed by the first redirect.)
ClosesWhatItLeaves ==
    pc = "request" /\ chain # <<>> => open \cap ({held} \cup {chain[i] : i \in DOMAIN chain}) = {nwc}

\* The buffer has room for header, body and the 0 that ends the body, which is parsed as
\* a string: also where header and body just fill the first buffer.
BodyFits == pc \in {"body", "complete"} => read <= size /\ resp.header + resp.length < size

\* The buffer holds no more than the header and what the server announced, and has room for
\* a 0 behind that.
Fits ==
    /\ resp.header \in Nat /\ resp.length \in Nat /\ read \in Nat /\ size \in Nat
    /\ pc \in {"body", "complete"} =>
        read <= resp.header + resp.length /\ resp.header + resp.length < size

\* Connections are numbered as they are opened, so a new one is none of the earlier ones;
\* before the first redirect the request is sent to the caller's.
Numbered ==
    /\ used \in Nat /\ held \in 0..used
    /\ open \subseteq 1..used /\ chain \in Seq(1..used)
    /\ pc = "idle" => chain = <<>> /\ used = 0
    /\ pc = "request" /\ chain = <<>> => nwc = held

\* The first redirect closes the caller's connection for good, so a request that can be sent
\* has not come further than its redirects.
Counted ==
    /\ used > 1 => held \notin open
    /\ pc = "request" /\ nwc \in open => used = 1 + Len(chain)
    /\ used <= MaxRedirects + 1

\* The body is received to its end, unless the server is lost.
Receiving == pc = "body"
BodyEndsUnlessLost == Receiving ~> ~Receiving \/ lost

\* http.h: http_request_get returns NULL in case of error: it always returns.
BodyEnds == Receiving ~> ~Receiving
\* http.h: NULL in case of error: following a redirect dereferences no NULL itself.
ErrorIsNull == fault \notin {"NULL connection", "NULL response"}
\* http.h: after a redirect the body is read from resp->nwc: that connection exists.
ResponseConnectionOpen == pc = "returned" /\ resp.nwc # 0 => resp.nwc \in open
\* soundcloud.h: the response has a network connection to receive the data.
TrackHasConnection == pc = "returned" /\ caller = "track" /\ resp # Null => resp.nwc # 0
\* soundcloud.h: the connection passed for the entries is neither closed nor freed.
EntriesKeepConnection == caller = "entries" /\ pc \in {"request", "returned", "body", "complete"} => held \in open
\* soundcloud.h: NULL in case of failure (failed connection ...).
StreamFailsWithNull == fault # "assertion"
=============================================================================
