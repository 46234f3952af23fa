SPECIFICATION Spec
CONSTANTS
    Files <- MCFiles
    MapFields = {"name", "totp"}
CHECK_DEADLOCK FALSE
INVARIANTS ItemsInv ReadBackAsWritten NothingLost OneSignature RecognisedIsReadable
