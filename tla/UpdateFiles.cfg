SPECIFICATION FairSpec
CONSTANTS
    Ids = {i1, i2}
    NoId = NoId
    Handlers = {h1, h2}
    Watched = {i1}
    MaxPosts = 1
INVARIANTS ScriptIsReported OncePerRequest
PROPERTIES StatusNeverGoesBack Reported Unblocked
