SPECIFICATION SoloSpec
CONSTANTS
    s1 = s1
    s2 = s2
    Sockets <- MCSockets
    Usernames <- MCUsernames
    Passwords <- MCPasswords
    Hashes <- MCHashes
    hashPassword <- MCHash
    GameTypes = {"word_match"}
    Requests <- SoloRequests
    MaxScore = 10
    MaxFeedback = 1
    MaxItems = 1
SYMMETRY Symmetry
INVARIANTS
    SessionsLive
    SessionsComplete
    LevelsCoherent
PROPERTY
    ImplementsPresence
