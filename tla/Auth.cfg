\* Sessions: three requests, two processes, at most two failures; or two logins of
\* one browser.  API keys: two callers, two keys.  Caches: two threads, a provider
\* and another one that replaces it in the settings.
CONSTANTS
    MaxAuditFailures = 1
    Process = {1, 2}
    Request = {1, 2, 3}
    ProcessOf <- MCProcessOf
    Logins = 2
    MaxToken = 3
    MaxFaults = 2
    Caller = {c1, c2}
    Keys = 2
    MaxKeyFaults = 1
    Thread = {1, 2}
    Issuer = {"old", "new"}
    SigningKey = {"a", "b"}
    IssuerOf <- MCIssuerOf
    NoIssuer = NoIssuer
    NoKeys = NoKeys
    NoToken = NoToken
    MaxChanges = 2
SPECIFICATION Spec
INVARIANTS
    AuthTypeOK
    LogoutIsEffective
    RefusalComesFromAnotherProcess
    StoredTokenIsCurrent
    LoginRecordedBeforeUse
    KeyAndRecordTogether
    OneTransactionDeletes
    SecretLostOnlyForCause
    LoneLookupsAreRight
\* Every login and every request can be over.
CHECK_DEADLOCK FALSE
