CONSTANTS
    Notifications = {n1, n2}
    Senders = {s1, s2}
    ChanCap = 1
    Window = 0

SPECIFICATION FairSpec

INVARIANTS
    TypeOK
    NoStrandedRequest
    AnswerMatchesIndex
    NoDoublePush

PROPERTIES
    ImplementsLadder
    EveryRequestAsked
    EveryNotificationSettles
    SendersReturn
