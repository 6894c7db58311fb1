SPECIFICATION Spec
CONSTANTS
    MaxCalls = 3
    MaxLate = 3
    MaxConns = 1
    MaxStrays = 0
    Usernames <- MCUsernames
    Passwords <- MCPasswords
    Hashes <- MCHashes
    hashPassword <- MCHash
    GameTypes = {"word_match"}
    Requests <- MCRequests
    Accounts <- MCAccounts
    NameRead <- MCNameRead
    LoginRead <- MCLoginRead
    RegisterRead <- MCRegisterRead
    Lines <- MCLines
    MaxScore = 60
    MaxFeedback = 4
    MaxItems = 4
INVARIANT
    ExercisesAnswered
\* the calls are used up, or the console has ended
CHECK_DEADLOCK FALSE
