\* Two connections through the middleware chain while the server stops and starts.
SPECIFICATION FairSpec
CONSTANTS
    c1 = c1
    c2 = c2
    Conns = {c1, c2}
    proxy = proxy
    client = client
    stranger = stranger
    traced = traced
    malformed = malformed
    good = good
    bad = bad
    u1 = u1
    Broken = Broken
    None = None
    Requests <- SomeRequests
    Addresses = {proxy, client, stranger}
    Private = {proxy}
    RequestIds = {traced}
    UserOf <- UserOfGood
    Statuses = {201}
    BodyLimit = 1
INVARIANTS
    RecordsTruthful
    HeadersOnEveryResponse
    OneAuthor
    HandlerGuarded
PROPERTIES
    CutOnlyByForce
    EveryRequestEnds
