--------------------------- MODULE WifiScanProofs ---------------------------
(***************************************************************************)
(* Proofs about wifi_scan_networks.  The list of access points is correct  *)
(* for any number of tasks; the handlers keep to live buffers when a       *)
(* single task scans, even one that preempts the driver's thread.          *)
(***************************************************************************)
EXTENDS WifiScan, ScanListProofs

(* A step of a scan reports one result, empties the list or leaves it.     *)
LEMMA ScanStepOnList ==
    ASSUME [ScanNext]_scanVars
    PROVE  \/ \E b \in Bssids, s \in Signals : wifi_scan_each_report_hdl(b, s)
           \/ ResetList
           \/ UNCHANGED listVars
<1>1. CASE \E t \in Tasks : ScanEnter(t) \/ TaskStep(t)
  BY <1>1 DEF ScanEnter, TaskStep, ScanPoll, ScanClaim, ScanNoMemory, ScanStart,
              ScanRefused, ScanError
<1>2. CASE \E b \in Bssids, s \in Signals : DriverReport(b, s)
  BY <1>2 DEF DriverReport
<1>3. CASE DriverDone
  BY <1>3 DEF DriverDone, wifi_scan_done_hdl, ScanDoneUnregister, DriverDoneIgnored
<1>4. CASE UNCHANGED scanVars
  BY <1>4 DEF scanVars
<1> QED BY <1>1, <1>2, <1>3, <1>4 DEF ScanNext

(* A fresh list satisfies the invariant of the list.                       *)
LEMMA ResetListInv == ResetList => ListInv'
<1> SUFFICES ASSUME ResetList PROVE ListInv'
  OBVIOUS
<1>1. EmptyList'
  BY DEF ResetList, EmptyList, Slot, NoEntry
<1> QED BY <1>1, EmptyListInv, PTL

(* However many tasks scan, fail and preempt each other, the list that     *)
(* wifi_scan_each_report_hdl builds is sorted, free of aliases and         *)
(* duplicates, and the strongest of what the scan heard.                   *)
THEOREM ScanListCorrect == ScanSpec => []ListInv
<1>1. ScanInit => ListInv
  BY EmptyListInv DEF ScanInit
<1>2. ListInv /\ [ScanNext]_scanVars => ListInv'
  BY ScanStepOnList, ReportInv, ResetListInv, ListStutterInv
<1> QED BY <1>1, <1>2, PTL DEF ScanSpec

(* The table holds the strongest access points heard.                      *)
THEOREM ScanStrongest == ScanSpec => []Strongest
<1>1. ListInv => Strongest
  BY DEF ListInv
<1> QED BY <1>1, ScanListCorrect, PTL

(* It is handed to the caller strongest first and without duplicates.      *)
THEOREM ScanOrdered == ScanSpec => []ListOrdered
<1>1. ListInv => ListOrdered
  BY DEF ListInv, ListOrdered
<1> QED BY <1>1, ScanListCorrect, PTL

(* No shift of the pointers loses or doubles an entry.                     *)
THEOREM ScanNoAlias == ScanSpec => []NoAlias
<1>1. ListInv => NoAlias
  BY DEF ListInv
<1> QED BY <1>1, ScanListCorrect, PTL

-----------------------------------------------------------------------------
SingleTask == \A t, u \in Tasks : t = u

(* Why the handlers are safe: handlers that can be called belong to a scan *)
(* that is claimed, a claimed scan has its buffers and its caller, and a   *)
(* task about to start finds no handler of an earlier scan in use.         *)
HandlerInv ==
    /\ tpc \in [Tasks -> {"idle", "wait", "claim", "start"}]
    /\ scan_running \in BOOLEAN
    /\ scan_running => buf = "live" /\ gscan_result_handler # NoTask
    /\ (registered /\ ~in_done) => scan_running
    /\ \A t \in Tasks : tpc[t] = "claim" => ~scan_running
    /\ \A t \in Tasks : tpc[t] = "start" => scan_running /\ (~registered \/ in_done)
    /\ ~fault

(* One step keeps it.                                                      *)
LEMMA HandlerStep ==
    ASSUME SingleTask, HandlerInv, [ScanNext]_scanVars
    PROVE  HandlerInv'
<1> USE DEF HandlerInv
<1>1. ASSUME NEW t \in Tasks, ScanEnter(t) PROVE HandlerInv'
  BY <1>1 DEF ScanEnter
<1>2. ASSUME NEW t \in Tasks, ScanPoll(t) PROVE HandlerInv'
  BY <1>2 DEF ScanPoll
<1>3. ASSUME NEW t \in Tasks, ScanClaim(t) PROVE HandlerInv'
  BY <1>3, WifiScanAssumption DEF ScanClaim, SingleTask
<1>4. ASSUME NEW t \in Tasks, ScanNoMemory(t) PROVE HandlerInv'
  BY <1>4 DEF ScanNoMemory, ScanError, SingleTask
<1>5. ASSUME NEW t \in Tasks, ScanStart(t) PROVE HandlerInv'
  BY <1>5 DEF ScanStart, SingleTask
<1>6. ASSUME NEW t \in Tasks, ScanRefused(t) PROVE HandlerInv'
  BY <1>6 DEF ScanRefused, ScanError, SingleTask
<1>7. ASSUME NEW b \in Bssids, NEW s \in Signals, DriverReport(b, s) PROVE HandlerInv'
  BY <1>7 DEF DriverReport
<1>8. ASSUME wifi_scan_done_hdl PROVE HandlerInv'
  BY <1>8 DEF wifi_scan_done_hdl
<1>9. ASSUME ScanDoneUnregister PROVE HandlerInv'
  BY <1>9 DEF ScanDoneUnregister
<1>10. ASSUME DriverDoneIgnored PROVE HandlerInv'
  BY <1>10 DEF DriverDoneIgnored
<1>11. ASSUME UNCHANGED scanVars PROVE HandlerInv'
  BY <1>11 DEF scanVars, controlVars
<1> QED BY <1>1, <1>2, <1>3, <1>4, <1>5, <1>6, <1>7, <1>8, <1>9, <1>10, <1>11
        DEF ScanNext, TaskStep, DriverDone

(* When one task scans, wifi_scan_each_report_hdl and wifi_scan_done_hdl   *)
(* never use a freed or missing buffer or a zeroed callback pointer.       *)
THEOREM HandlersSafe ==
    ASSUME SingleTask
    PROVE  ScanSpec => []NoUseAfterFree
<1>1. ScanInit => HandlerInv
  BY DEF ScanInit, HandlerInv
<1>2. HandlerInv /\ [ScanNext]_scanVars => HandlerInv'
  BY HandlerStep
<1>3. HandlerInv => NoUseAfterFree
  BY DEF HandlerInv, NoUseAfterFree
<1> QED BY <1>1, <1>2, <1>3, PTL DEF ScanSpec

-----------------------------------------------------------------------------
(* Every variable of the scan keeps its type, for any number of tasks that *)
(* scan, fail and preempt the driver's thread: a poll count never goes     *)
(* below zero, and the list's pointers stay inside ap_details.             *)
THEOREM ScanTypeCorrect == ScanSpec => []ScanTypeOK
<1> DEFINE ControlOK ==
        /\ scan_running \in BOOLEAN /\ scan_complete \in BOOLEAN
        /\ gscan_result_handler \in Tasks \cup {NoTask}
        /\ buf \in {"null", "live", "freed"}
        /\ registered \in BOOLEAN
        /\ driver \in {"idle", "scanning"} /\ in_done \in BOOLEAN
        /\ tpc \in [Tasks -> {"idle", "wait", "claim", "start"}]
        /\ count \in [Tasks -> 0 .. Polls]
        /\ pending \subseteq Tasks
        /\ fault \in BOOLEAN
<1>1. ScanInit => ControlOK
  <2> SUFFICES ASSUME ScanInit PROVE ControlOK
    OBVIOUS
  <2>1. 0 \in 0 .. Polls
    BY WifiScanAssumption
  <2>2. count \in [Tasks -> 0 .. Polls]
    BY <2>1 DEF ScanInit
  <2> QED
    BY <2>2 DEF ScanInit
<1>2. ControlOK /\ [ScanNext]_scanVars => ControlOK'
  <2> SUFFICES ASSUME ControlOK, [ScanNext]_scanVars PROVE ControlOK'
    OBVIOUS
  <2>1. ASSUME NEW t \in Tasks, ScanEnter(t) PROVE ControlOK'
    BY <2>1, WifiScanAssumption DEF ScanEnter
  <2>2. ASSUME NEW t \in Tasks, ScanPoll(t) PROVE ControlOK'
    <3>1. CASE count' = [count EXCEPT ![t] = @ - 1] /\ count[t] > 0
               /\ UNCHANGED tpc
      <4>1. count' \in [Tasks -> 0 .. Polls]
        BY <3>1, WifiScanAssumption
      <4> QED
        BY <2>2, <3>1, <4>1 DEF ScanPoll
    <3>2. CASE UNCHANGED count
      BY <2>2, <3>2 DEF ScanPoll
    <3> QED
      BY <2>2, <3>1, <3>2 DEF ScanPoll
  <2>3. ASSUME NEW t \in Tasks, ScanClaim(t) PROVE ControlOK'
    BY <2>3 DEF ScanClaim
  <2>4. ASSUME NEW t \in Tasks, ScanNoMemory(t) PROVE ControlOK'
    BY <2>4 DEF ScanNoMemory, ScanError
  <2>5. ASSUME NEW t \in Tasks, ScanStart(t) PROVE ControlOK'
    BY <2>5 DEF ScanStart
  <2>6. ASSUME NEW t \in Tasks, ScanRefused(t) PROVE ControlOK'
    BY <2>6 DEF ScanRefused, ScanError
  <2>7. ASSUME NEW b \in Bssids, NEW s \in Signals, DriverReport(b, s)
        PROVE  ControlOK'
    BY <2>7 DEF DriverReport
  <2>8. ASSUME wifi_scan_done_hdl PROVE ControlOK'
    BY <2>8 DEF wifi_scan_done_hdl
  <2>9. ASSUME ScanDoneUnregister PROVE ControlOK'
    BY <2>9 DEF ScanDoneUnregister
  <2>10. ASSUME DriverDoneIgnored PROVE ControlOK'
    BY <2>10 DEF DriverDoneIgnored
  <2>11. ASSUME UNCHANGED scanVars PROVE ControlOK'
    BY <2>11 DEF scanVars, controlVars
  <2> QED
    BY <2>1, <2>2, <2>3, <2>4, <2>5, <2>6, <2>7, <2>8, <2>9, <2>10, <2>11
       DEF ScanNext, TaskStep, DriverDone
<1>3. ListInv /\ ControlOK => ScanTypeOK
  BY DEF ListInv, ScanTypeOK
<1> HIDE DEF ControlOK
<1> QED
  BY <1>1, <1>2, <1>3, ScanListCorrect, PTL DEF ScanSpec
=============================================================================
