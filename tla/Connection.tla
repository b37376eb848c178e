----------------------------- MODULE Connection -----------------------------
(***************************************************************************)
(* A connection to a server, plain (network/plain.c) or encrypted          *)
(* (network/tls.c): how it is set up, what is released when that fails,    *)
(* how the server's certificate is compared with the remembered one, and   *)
(* what recv and recv_byte make of the outcomes of a read.  The program    *)
(* may die at any step and start again; the fingerprint file stays as it   *)
(* was at that moment.                                                     *)
(***************************************************************************)
EXTENDS Integers

CONSTANTS
    Certs,     \* certificates the server may present
    NoCert,    \* no certificate: no file, or an empty one
    MaxAddr,   \* addresses of a server's name
    Wanted,    \* bytes a recv asks for
    MaxRecord, \* bytes of one record of the encrypted stream
    MaxRuns    \* bound: connections made, over all runs of the program

SizesAssumption ==
    /\ NoCert \notin Certs /\ MaxAddr \in Nat /\ Wanted \in Nat \ {0}
    /\ MaxRecord \in Nat \ {0} /\ MaxRuns \in Nat \ {0}

VARIABLES
    pc, kind,  \* the step, and "plain" or "tls"
    block,     \* struct network_conn is allocated
    sock,      \* its socket is open
    dropped,   \* what the program lost hold of: "block", "socket"
    addrs,     \* addresses not tried yet
    cert,      \* the certificate presented
    file,      \* remembered_certs/<server>
    known,     \* the certificate of the first encrypted connection made
    cut,       \* the program died between fopen("w") and fclose
    got,       \* buffer_pos of a recv
    avail,     \* bytes of the record left: ssl_get_bytes_avail
    answer,    \* of recv_byte
    runs

network == <<block, sock, addrs>>
trust == <<cert, file, known, cut>>
reading == <<got, avail, answer>>
vars == <<pc, kind, network, dropped, trust, reading, runs>>

Init ==
    /\ pc = "idle" /\ kind = "plain" /\ block = FALSE /\ sock = FALSE /\ dropped = {}
    /\ addrs = 0 /\ cert = NoCert /\ file = NoCert /\ known = NoCert /\ cut = FALSE
    /\ got = 0 /\ avail = 0 /\ answer = "none" /\ runs = 0

-----------------------------------------------------------------------------
(* plain_connect *)

Begin(k) ==
    /\ pc = "idle" /\ runs < MaxRuns
    /\ pc' = (IF k = "plain" THEN "resolve" ELSE "init") /\ kind' = k /\ runs' = runs + 1
    /\ block' = TRUE /\ cert' = NoCert /\ dropped' = {} /\ got' = 0 /\ avail' = 0
    /\ UNCHANGED <<sock, addrs, file, known, cut, answer>>

\* The callee returns NULL; `lost' is what it has forgotten to release.
ReturnNull(lost) ==
    /\ pc' = "idle" /\ dropped' = dropped \cup lost /\ block' = FALSE /\ sock' = FALSE

\* getaddrinfo fails: the struct is not freed.
ResolveFails ==
    /\ pc = "resolve" /\ ReturnNull({"block"})
    /\ UNCHANGED <<kind, addrs, trust, reading, runs>>
Resolve ==
    /\ pc = "resolve" /\ pc' = "try" /\ addrs' \in 1..MaxAddr
    /\ UNCHANGED <<kind, block, sock, dropped, trust, reading, runs>>

\* Mutated form: the socket is not closed when connect() fails.
TryFailsOpen ==
    /\ pc = "try" /\ addrs > 0 /\ addrs' = addrs - 1 /\ dropped' = dropped \cup {"socket"}
    /\ UNCHANGED <<pc, kind, block, sock, trust, reading, runs>>
\* An address is passed over: no socket, or connect() fails and the socket is closed.
TryFails ==
    /\ pc = "try" /\ addrs > 0 /\ addrs' = addrs - 1
    /\ UNCHANGED <<pc, kind, block, sock, dropped, trust, reading, runs>>
TryConnects ==
    /\ pc = "try" /\ addrs > 0 /\ sock' = TRUE /\ pc' = "open"
    /\ UNCHANGED <<kind, block, addrs, dropped, trust, reading, runs>>
NoAddressLeft ==
    /\ pc = "try" /\ addrs = 0 /\ ReturnNull({})
    /\ UNCHANGED <<kind, addrs, trust, reading, runs>>

-----------------------------------------------------------------------------
(* tls_connect *)

\* The random generator or the context cannot be set up, or there is no server.
TlsFails ==
    /\ pc \in {"init", "connect"} /\ ReturnNull({})
    /\ UNCHANGED <<kind, addrs, trust, reading, runs>>
TlsInit ==
    /\ pc = "init" /\ pc' = "connect"
    /\ UNCHANGED <<kind, network, dropped, trust, reading, runs>>
TlsConnect ==
    /\ pc = "connect" /\ pc' = "handshake" /\ sock' = TRUE
    /\ UNCHANGED <<kind, block, addrs, dropped, trust, reading, runs>>
\* A handshake that wants to read or write is called again: a stutter.
HandshakeFails ==
    /\ pc = "handshake" /\ ReturnNull({})
    /\ UNCHANGED <<kind, addrs, trust, reading, runs>>
Handshake(c) ==
    /\ pc = "handshake" /\ pc' = "compare" /\ cert' = c
    /\ UNCHANGED <<kind, network, dropped, file, known, cut, reading, runs>>

\* Mutated form: a mismatch is logged only.
CompareLogs ==
    /\ pc = "compare" /\ pc' = "truncate"
    /\ UNCHANGED <<kind, network, dropped, trust, reading, runs>>
Compare ==
    /\ pc = "compare" /\ file \in {NoCert, cert} /\ pc' = "truncate"
    /\ UNCHANGED <<kind, network, dropped, trust, reading, runs>>
\* Another fingerprint than the remembered one: NULL, without closing the connection.
Mismatch ==
    /\ pc = "compare" /\ file \notin {NoCert, cert} /\ ReturnNull({"block", "socket"})
    /\ UNCHANGED <<kind, addrs, trust, reading, runs>>

Truncate ==
    /\ pc = "truncate" /\ file' = NoCert /\ pc' = "write"
    /\ UNCHANGED <<kind, network, dropped, cert, known, cut, reading, runs>>
WriteCert ==
    /\ pc = "write" /\ file' = cert /\ pc' = "open"
    /\ known' = IF known = NoCert THEN cert ELSE known
    /\ UNCHANGED <<kind, network, dropped, cert, cut, reading, runs>>

Crash ==
    /\ pc # "idle" /\ pc' = "idle" /\ cut' = (cut \/ pc = "write")
    /\ block' = FALSE /\ sock' = FALSE /\ dropped' = {}
    /\ UNCHANGED <<kind, addrs, cert, file, known, reading, runs>>

Disconnect ==
    /\ pc = "open" /\ pc' = "idle" /\ block' = FALSE /\ sock' = FALSE
    /\ UNCHANGED <<kind, addrs, dropped, trust, reading, runs>>

-----------------------------------------------------------------------------
(* Receiving *)

Min2(a, b) == IF a < b THEN a ELSE b
BeginRecv ==
    /\ pc = "open" /\ pc' = "recv" /\ got' = 0
    /\ UNCHANGED <<kind, network, dropped, trust, avail, answer, runs>>

\* Mutated form: the whole record is taken.
TakeAll(n) ==
    /\ got' = got + n /\ avail' = 0 /\ pc' = "open"
\* ssl_read hands out what fits; recv goes on while the record holds more.
Take(n) ==
    /\ got' = got + Min2(n, Wanted - got) /\ avail' = n - Min2(n, Wanted - got)
    /\ pc' = IF avail' = 0 THEN "open" ELSE "recv"

\* ssl_read waits for a record when none is left.
RecvRecord ==
    /\ pc = "recv" /\ kind = "tls" /\ avail = 0 /\ \E n \in 1..MaxRecord : Take(n)
    /\ UNCHANGED <<kind, network, dropped, trust, answer, runs>>
RecvRest ==
    /\ pc = "recv" /\ avail > 0 /\ got < Wanted /\ Take(avail)
    /\ UNCHANGED <<kind, network, dropped, trust, answer, runs>>
\* Mutated form: a full buffer is not taken for the end.
RecvFullAgain == pc = "recv" /\ got = Wanted /\ UNCHANGED vars
\* Nothing fits any more: ssl_read is asked for 0 bytes and returns 0.
RecvFull ==
    /\ pc = "recv" /\ got = Wanted /\ pc' = "open"
    /\ UNCHANGED <<kind, network, dropped, trust, reading, runs>>
\* The end of the stream, or an error, at a record's end.
RecvEnd ==
    /\ pc = "recv" /\ kind = "tls" /\ avail = 0 /\ got < Wanted /\ pc' = "open"
    /\ UNCHANGED <<kind, network, dropped, trust, reading, runs>>
\* plain_recv: fread.
RecvPlain ==
    /\ pc = "recv" /\ kind = "plain" /\ got' \in 0..Wanted /\ pc' = "open"
    /\ UNCHANGED <<kind, network, dropped, trust, avail, answer, runs>>

BeginByte ==
    /\ pc = "open" /\ pc' = "byte" /\ answer' = "none"
    /\ UNCHANGED <<kind, network, dropped, trust, got, avail, runs>>
\* tls_recv_byte returns a (signed) char: byte 0xFF is -1; plain_recv_byte returns getc().
Byte(b) ==
    /\ pc = "byte" /\ pc' = "open"
    /\ answer' = (IF b = "0xFF" /\ kind = "tls" THEN "-1" ELSE "byte")
    /\ avail' = (IF avail > 0 THEN avail - 1 ELSE 0)
    /\ UNCHANGED <<kind, network, dropped, trust, got, runs>>
ByteEnd ==
    /\ pc = "byte" /\ avail = 0 /\ pc' = "ended" /\ answer' = "-1"
    /\ UNCHANGED <<kind, network, dropped, trust, got, avail, runs>>
EndedDisconnect ==
    /\ pc = "ended" /\ pc' = "idle" /\ block' = FALSE /\ sock' = FALSE
    /\ UNCHANGED <<kind, addrs, dropped, trust, reading, runs>>
\* An error: getc() returns EOF, ssl_read is called again and fails again.
ByteError ==
    /\ pc = "byte" /\ avail = 0 /\ pc' = (IF kind = "plain" THEN "ended" ELSE "failing")
    /\ answer' = (IF kind = "plain" THEN "-1" ELSE answer)
    /\ UNCHANGED <<kind, network, dropped, trust, got, avail, runs>>
ByteErrorAgain == pc = "failing" /\ UNCHANGED vars

Plain == ResolveFails \/ Resolve \/ TryFails \/ TryConnects \/ NoAddressLeft
Tls ==
    \/ TlsFails \/ TlsInit \/ TlsConnect \/ HandshakeFails \/ Compare \/ Mismatch \/ Truncate
    \/ WriteCert \/ \E c \in Certs : Handshake(c)
Recv == RecvRecord \/ RecvRest \/ RecvFull \/ RecvEnd \/ RecvPlain
RecvByte == ByteEnd \/ ByteError \/ ByteErrorAgain \/ \E b \in {"0xFF", "other"} : Byte(b)
Next ==
    \/ \E k \in {"plain", "tls"} : Begin(k)
    \/ Plain \/ Tls \/ Recv \/ RecvByte \/ BeginRecv \/ BeginByte
    \/ Disconnect \/ EndedDisconnect \/ Crash

\* The thread runs, and a read ends: with data, the end of the stream or an error.
Spec == Init /\ [][Next]_vars /\ WF_vars(Recv) /\ WF_vars(RecvByte)

-----------------------------------------------------------------------------
(* Properties *)

TypeInvariant ==
    /\ pc \in {"idle", "resolve", "try", "init", "connect", "handshake", "compare", "truncate",
               "write", "open", "recv", "byte", "ended", "failing"}
    /\ kind \in {"plain", "tls"} /\ {block, sock, cut} \subseteq BOOLEAN
    /\ dropped \subseteq {"block", "socket"} /\ addrs \in 0..MaxAddr
    /\ {cert, file, known} \subseteq Certs \cup {NoCert}
    /\ got \in 0..Wanted /\ avail \in 0..MaxRecord /\ answer \in {"none", "byte", "-1"}

\* A failed connection leaves nothing behind, but for two paths: a name that cannot be
\* resolved leaks the struct, and a fingerprint mismatch the struct and its socket.
LosesOnlyKnown ==
    /\ "socket" \in dropped => kind = "tls" /\ cert # file
    /\ "block" \in dropped => kind = "plain" \/ cert # file

\* All encrypted connections to a server are made with one certificate, over restarts of
\* the program, unless it died while it wrote the fingerprint.
KeepsFirstCertificate == pc \in {"open", "recv"} /\ kind = "tls" /\ ~cut => cert = known

\* A connection is lost only on its way to NULL; each step belongs to one kind.
DropsAtEnd ==
    /\ pc # "idle" => dropped = {}
    /\ pc \in {"resolve", "try"} => kind = "plain"
    /\ pc \in {"init", "connect", "handshake", "compare", "truncate", "write"} => kind = "tls"

\* The file holds the certificate of the first connection, except while it is written; it is
\* written only with that certificate.
FileIsKnown ==
    /\ IF pc = "write" THEN file = NoCert ELSE file = known
    /\ pc \in {"truncate", "write"} => known \in {NoCert, cert}
    /\ pc \in {"open", "recv", "byte", "ended", "failing"} /\ kind = "tls" => cert = known
UndisturbedTrust == ~cut => FileIsKnown

\* recv returns: it does not wait for a second record to fill the buffer.
Receiving == pc = "recv"
RecvReturns == Receiving ~> ~Receiving

\* http.c: http_read_header returns 0 on error, so recv_byte returns.
ByteReturns == (pc \in {"byte", "failing"}) ~> (pc \notin {"byte", "failing"})
\* http.c: recv_byte's -1 is the end of the stream.
MinusOneIsEnd == [][answer' = "-1" /\ answer # "-1" => pc' = "ended"]_vars
=============================================================================
