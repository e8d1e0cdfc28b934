----------------------------- MODULE MCWifiScan -----------------------------
(* One or two tasks scan up to four access points.                        *)
EXTENDS WifiScan

CONSTANTS t1, t2, none, a, b, c, d

MCTask == {t1}
MCTasks == {t1, t2}
MCBssids == {a, b, c, d}
MCTwoBssids == {a, b}
MCSignals == {-3, -2, -1}
MCTwoSignals == {-2, -1}
=============================================================================
