\* Two accounts share a phone and two calls are under way.  Three worlds: answers
\* are lost and passwords changed; the app is stopped between sign-ins; the phone
\* is registered for pushes while answers are lost.  A renewal may hang in each.
SPECIFICATION FairSpec
CONSTANTS
    u1 = u1
    u2 = u2
    c1 = c1
    c2 = c2
    Nobody = Nobody
    Accounts = {u1, u2}
    Calls = {c1, c2}
    MaxTokens = 2
    Worlds = {{"lost", "switch", "password"}, {"restart", "switch"}, {"push", "lost", "switch"}}
INVARIANTS AccountsStayApart
PROPERTIES CallsSettle
CHECK_DEADLOCK FALSE
