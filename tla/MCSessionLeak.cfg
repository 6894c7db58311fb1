SPECIFICATION Spec
CONSTANTS
    s1 = s1
    s2 = s2
    Sockets <- MCSockets
    Usernames <- MCUsernames
    Passwords <- MCPasswords
    Hashes <- MCHashes
    hashPassword <- MCHash
    GameTypes = {"word_match"}
    Requests <- SessionRequests
    MaxScore = 0
    MaxFeedback = 1
    MaxItems = 1
INVARIANT
    SessionsLive
