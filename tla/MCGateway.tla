----------------------------- MODULE MCGateway -----------------------------
EXTENDS Gateway
CONSTANTS b1, b2
MCBrowsers == {b1, b2}
Asks(b, a, M) == [by : {b}, route : [area : {a}, method : M]]
\* Any request alone; one with renewed tokens; one request that may end a session
\* before a refresh; two resets with one code, a role removed under its update;
\* and one browser with two requests before a refresh.
MCMenu == {<<s>> : s \in [by : {b1}, route : Routes]}
  \cup {<<s, t>> : s \in Asks(b1, "auth", {"login", "refresh"}),
                   t \in Asks(b1, "auth", {"me"}) \cup Asks(b1, "posts", {"create"})}
  \cup {<<s, t>> : s \in Asks(b2, "auth", {"logoutAll"}) \cup Asks(b2, "roles", {"assignRole"})
                         \cup Asks(b1, "auth", {"forgotPasswordReset"}),
                   t \in Asks(b1, "auth", {"refresh"})}
  \cup {<<s, s>> : s \in Asks(b1, "auth", {"forgotPasswordReset"})}
  \cup {<<s, t>> : s \in Asks(b1, "roles", {"update"}), t \in Asks(b2, "roles", {"remove"})}
  \cup {<<s, t, t>> : s \in Asks(b1, "auth", {"login", "refresh", "logoutDevice"})
                            \cup Asks(b1, "roles", {"assignRole"}),
                      t \in Asks(b1, "auth", {"refresh"})}
  \cup {<<t, s, t>> : s \in Asks(b1, "auth", {"login", "logoutDevice"}),
                      t \in Asks(b1, "auth", {"refresh"})}
=============================================================================
