\* The parts stop by themselves: the log is closed, a page is done, all connections are made.
CHECK_DEADLOCK FALSE
SPECIFICATION Spec
CONSTANTS
    \* A Stream of no or of seven tracks on two sizes of a terminal, and two lists without.
    MaxLists = 3
    Streams = {0, 7}
    Bookmarks = {0}
    Users = {0}
    MaxTracks = 0
    Heights = {8, 9}
    Moves = {1, 3}
    Places = {0, 8}
    W = 16
    \* A track and a list of two at most, which may become empty.
    FewLists = 2
    FewStreams = {1}
    FewBookmarks = {2}
    FewUsers = {0}
    FewTracks = 2
    FewHeights = {8}
    FewMoves = {1}
    FewPlaces = {2}
    FewW = 11
    \* Two lines of each of three threads, two SIGINTs.
    Threads = {"main", "player", "worker"}
    Main = "main"
    MaxSignals = 2
    MaxLines = 2
    \* The track in two pieces, saved twice, with a full disk and a crash.
    Savers = {Download1, Download2}
    Size = 2
    Full = TRUE
    MaxCrashes = 1
    \* Two redirects, contents below, at and above the size of the buffer.
    MaxRedirects = 2
    BufferSize = 4
    Headers = {1, 2}
    Contents = {0, 2, 3}
    MaxPages = 2
    Callers = {"track", "entries", "subscriptions"}
    \* Two addresses, two certificates, three connections.
    Certs = {OldCert, NewCert}
    NoCert = NoCert
    MaxAddr = 2
    Wanted = 3
    MaxRecord = 4
    MaxRuns = 3
INVARIANTS
    TypeInvariant
    LogKept
    CacheIsWhole
    
    
PROPERTIES
    
    PartsEnd
