------------------------------ MODULE ScanList ------------------------------
(***************************************************************************)
(* The list of access points a Wi-Fi scan collects                         *)
(* (wifi_scan_each_report_hdl in component/common/api/wifi/wifi_conf.c).   *)
(*                                                                         *)
(* ap_details holds at most max_ap_size entries; pap_details holds         *)
(* pointers to them, strongest signal first, and only the pointers move.   *)
(* Slots and positions are numbered from 1.                                *)
(***************************************************************************)
EXTENDS Integers, FiniteSets

CONSTANTS
    Bssids,         \* hardware addresses of access points
    NoBssid,        \* the all-zero hardware address of an empty slot
    Signals,        \* signal strengths a report may carry
    Max             \* max_ap_size (64)

ASSUME ScanListAssumption ==
    /\ Max \in Nat \ {0}
    /\ Signals \subseteq Int
    /\ NoBssid \notin Bssids

VARIABLES
    scan_cnt,
    pap_details,    \* position -> slot
    ap_details,     \* slot -> [bssid, signal]
    best            \* history: strongest signal reported for each BSSID heard

listVars == <<scan_cnt, pap_details, ap_details, best>>

Slot == 1 .. Max
Entry == [bssid : Bssids \cup {NoBssid}, signal : Signals \cup {0}]
NoEntry == [bssid |-> NoBssid, signal |-> 0]
Heard == DOMAIN best

At(i) == ap_details[pap_details[i]]
Listed == 1 .. scan_cnt

-----------------------------------------------------------------------------
(* Mutant: the shift stops one place early.                                *)
ShiftIn_short(p, from, to, s) ==
    [k \in DOMAIN p |-> IF k = to THEN s
                        ELSE IF to < k /\ k < from THEN p[k - 1]
                        ELSE p[k]]

(* Shift the pointers of to .. from-1 back by one place and put slot s at  *)
(* place to; the pointer at place from is overwritten.                     *)
ShiftIn(p, from, to, s) ==
    [k \in DOMAIN p |-> IF k = to THEN s
                        ELSE IF to < k /\ k <= from THEN p[k - 1]
                        ELSE p[k]]

(* Mutant: an entry that gets stronger always moves to the front.          *)
UpdatePos_first(i, s, to) == to = 1

(* Where an entry of signal s that stands at place i moves: behind the     *)
(* nearest entry before it that is at least as strong.                     *)
UpdatePos(i, s, to) ==
    /\ \A k \in to .. (i - 1) : At(k).signal < s
    /\ to > 1 => At(to - 1).signal >= s

(* Where a new entry of signal s goes among the first n - 1 places: before *)
(* the first weaker one, or to place n.                                    *)
InsertPos(n, s, to) ==
    /\ \A k \in 1 .. (to - 1) : At(k).signal >= s
    /\ to < n => At(to).signal < s

Best(b, s) ==
    [x \in Heard \cup {b} |->
        IF x # b THEN best[x]
        ELSE IF b \in Heard /\ best[b] >= s THEN best[b] ELSE s]

(* A report of a BSSID that is listed already: only a stronger signal      *)
(* changes the entry, which then moves forward.                            *)
ReportKnown(b, s) ==
    \E i \in Listed :
        /\ At(i).bssid = b
        /\ \A k \in 1 .. (i - 1) : At(k).bssid # b
        /\ \/ /\ s > At(i).signal
              /\ \E to \in 1 .. i :
                    /\ UpdatePos(i, s, to)
                    /\ pap_details' = ShiftIn(pap_details, i, to, pap_details[i])
              /\ ap_details' = [ap_details EXCEPT
                                   ![pap_details[i]] = [bssid |-> b, signal |-> s]]
           \/ /\ s <= At(i).signal
              /\ UNCHANGED <<pap_details, ap_details>>
        /\ UNCHANGED scan_cnt

(* Mutant: the room left is tested too late.                               *)
ReportNew_unbounded(b, s) ==
    /\ \A i \in Listed : i \in Slot => At(i).bssid # b
    /\ scan_cnt <= Max
    /\ scan_cnt' = scan_cnt + 1
    /\ UNCHANGED <<ap_details, pap_details>>

(* A report of a new BSSID while there is room: it takes the next slot.    *)
ReportNew(b, s) ==
    /\ \A i \in Listed : At(i).bssid # b
    /\ scan_cnt < Max
    /\ scan_cnt' = scan_cnt + 1
    /\ ap_details' = [ap_details EXCEPT ![scan_cnt + 1] = [bssid |-> b, signal |-> s]]
    /\ \E to \in 1 .. (scan_cnt + 1) :
        /\ InsertPos(scan_cnt + 1, s, to)
        /\ pap_details' = ShiftIn(pap_details, scan_cnt + 1, to, scan_cnt + 1)

(* Mutant: a report that finds the table full is always dropped.           *)
ReportFull_drop(b, s) ==
    /\ \A i \in Listed : At(i).bssid # b
    /\ scan_cnt = Max
    /\ UNCHANGED <<scan_cnt, pap_details, ap_details>>

(* The table is full: the weakest entry gives up its slot to a stronger    *)
(* one, otherwise the report is dropped.                                   *)
ReportFull(b, s) ==
    /\ \A i \in Listed : At(i).bssid # b
    /\ scan_cnt = Max
    /\ \/ /\ s > At(Max).signal
          /\ ap_details' = [ap_details EXCEPT
                               ![pap_details[Max]] = [bssid |-> b, signal |-> s]]
          /\ \E to \in 1 .. Max :
                /\ InsertPos(Max, s, to)
                /\ pap_details' =
                        ShiftIn(pap_details, Max, to, pap_details[Max])
       \/ /\ s <= At(Max).signal
          /\ UNCHANGED <<pap_details, ap_details>>
    /\ UNCHANGED scan_cnt

(* One scan result reported by the driver.                                 *)
wifi_scan_each_report_hdl(b, s) ==
    /\ best' = Best(b, s)
    /\ ReportKnown(b, s) \/ ReportNew(b, s) \/ ReportFull(b, s)

(* wifi_scan_networks: zeroed buffers and an empty list for a new scan.    *)
EmptyList ==
    /\ scan_cnt = 0
    /\ pap_details = [i \in Slot |-> 0]
    /\ ap_details = [i \in Slot |-> NoEntry]
    /\ best = [x \in {} |-> 0]

ListNext == \E b \in Bssids, s \in Signals : wifi_scan_each_report_hdl(b, s)

ListSpec == EmptyList /\ [][ListNext]_listVars

-----------------------------------------------------------------------------
(* Types of the list.                                                      *)
ListTypeOK ==
    /\ scan_cnt \in 0 .. Max
    /\ pap_details \in [Slot -> Slot \cup {0}]
    /\ ap_details \in [Slot -> Entry]
    /\ \A i \in Listed : /\ pap_details[i] \in 1 .. scan_cnt
                         /\ At(i).bssid \in Bssids /\ At(i).signal \in Signals
    /\ Heard \subseteq Bssids
    /\ best \in [Heard -> Signals]

(* The listed pointers stay in order of decreasing signal although entries *)
(* get stronger in place and the last slot is reused.                      *)
Sorted == \A i, j \in Listed : i < j => At(i).signal >= At(j).signal

(* Every occupied slot is pointed at exactly once: no shift loses or       *)
(* duplicates an entry.                                                    *)
NoAlias == \A i, j \in Listed : i # j => pap_details[i] # pap_details[j]

(* No access point is listed twice.                                        *)
NoDuplicate == \A i, j \in Listed : i # j => At(i).bssid # At(j).bssid

(* The list a caller is given: strongest first, every access point once,   *)
(* although reports come in any order and repeat with other strengths.     *)
ListOrdered == Sorted /\ NoDuplicate

(* The list is the strongest Max of all access points heard: each listed   *)
(* one carries its strongest report, and one that is not listed is no      *)
(* stronger than any listed one and was left out for lack of room only.    *)
Strongest ==
    /\ \A i \in Listed : At(i).bssid \in Heard /\ At(i).signal = best[At(i).bssid]
    /\ \A b \in Heard : (\A i \in Listed : At(i).bssid # b)
            => scan_cnt = Max /\ \A i \in Listed : best[b] <= At(i).signal
=============================================================================
