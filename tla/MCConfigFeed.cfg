SPECIFICATION FeedSpec
CONSTANTS
    server = server
    r1 = r1
    Stores = {server}
    Server = server
    Renderers = {r1}
    MaxWrites = 2
    MaxOutages = 0
PROPERTY SaveKeepsRest
CHECK_DEADLOCK FALSE
