----------------------------- MODULE MCWifiJoin -----------------------------
(* One or two tasks and the calls they make.                               *)
EXTENDS WifiJoin

CONSTANTS t1, t2, none

MCTask == {t1}
MCTasks == {t1, t2}

CallOf(api, s, key, own) == [api |-> api, sec |-> s, key |-> key, own |-> own]

MCConnect == {CallOf("ssid", s, TRUE, TRUE) : s \in Security}
                \cup {CallOf(api, "WPA2", key, TRUE) : api \in {"ssid", "bssid"},
                                                        key \in BOOLEAN}
MCMixed == {CallOf("bssid", "WPA2", key, TRUE) : key \in BOOLEAN}
                \cup {CallOf("ssid", "WPA2", TRUE, FALSE)}
=============================================================================
