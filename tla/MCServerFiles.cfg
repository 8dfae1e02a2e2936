SPECIFICATION MCSpec
CONSTANTS
    server = server
    r1 = r1
    Stores = {server}
    Server = server
    Renderers = {r1}
    MaxWrites = 2
    MaxOutages = 2
    NoteServers = {"s1", "s2"}
    Origins = {"", "r"}
    MaxNotes = 2
    MaxChanges = 2
    MaxDocuments = 4
    MaxReleases = 2
    Trees <- MCFieldTables
    WriteInner <- MCWrite
    Characters <- MCCharacters
    Garbage <- MCMistaken
    MaxSpan = 50
    MaxDepth = 3
    MaxString = 8
INVARIANT CaughtUp
INVARIANT NotesKept
INVARIANT SchemaFollows
PROPERTY LastGoodKept
PROPERTY RenderersConverge
PROPERTY LiteralsRead
CHECK_DEADLOCK FALSE
