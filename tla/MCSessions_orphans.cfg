SPECIFICATION Spec
CONSTANTS
    Convs = {c1}
    Requests = {r1, r2}
    a = a
    along = along
    b = b
    Texts = {a, along, b}
    First80 <- TextHeads
    Bodies <- TextBodies
    Posts <- TextPosts
    Replies <- TextReplies
    NoText = NoText
    Edits = {NoEdit}
    NoEdit = NoEdit
    Window = 1
    TTL = 1
    MaxMessages = 2
    NoConv = NoConv
INVARIANT NoOrphans
