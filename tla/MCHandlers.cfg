SPECIFICATION Spec
CONSTANTS
    s1 = s1
    s2 = s2
    Sockets <- MCSockets
    Usernames <- MCUsernames
    Passwords <- MCPasswords
    Hashes <- MCHashes
    hashPassword <- MCHash
    GameTypes = {"word_match"}
    Requests <- HandlerRequests
    MaxScore = 10
    MaxFeedback = 1
    MaxItems = 1
SYMMETRY Symmetry
INVARIANTS
    TypeOK
    RolesCoherent
    FeedbackFromStaff
PROPERTIES
    GameItemsByAdmin
    OwnProgressOnly
