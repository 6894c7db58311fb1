SPECIFICATION Spec
CONSTANTS
    MaxCalls = 3
    MaxLate = 3
    MaxConns = 2
    MaxStrays = 0
    Usernames <- MCUsernames
    Passwords <- MCPasswords
    Hashes <- MCHashes
    hashPassword <- MCHash
    GameTypes = {"word_match"}
    Requests <- MCRequests
    Accounts <- MCAccounts
    NameRead <- MCNameRead
    LoginRead <- MCLoginRead
    RegisterRead <- MCRegisterRead
    Lines = {}
    MaxScore = 60
    MaxFeedback = 4
    MaxItems = 4
INVARIANTS
    TypeOK
    AnswersInOrder
    FromThisConnection
    LabelMatchesServer
PROPERTY
    LoginsAlone
\* the calls are used up, or the window is closed
CHECK_DEADLOCK FALSE
