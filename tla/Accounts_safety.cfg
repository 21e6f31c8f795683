SPECIFICATION FairSpec
CONSTANTS
    Companies = {c1, c2}
    Requests = {r1, r2}
    Sessions = {s1}
    Links = {l1}
    NoCompany = NoCompany
    NoToken = NoToken
    c1 = c1
    c2 = c2
    Bearers = {c2}
    MaxPasswords <- MCMaxPasswords
    MaxFaults = 1
INVARIANTS
    LinksChangeOnce
    SessionsEndWithPassword
    RevocationsHaveReasons
PROPERTIES
    StaleSessionsEnd
