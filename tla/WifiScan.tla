------------------------------ MODULE WifiScan ------------------------------
(***************************************************************************)
(* wifi_scan_networks and its event handlers                               *)
(* (component/common/api/wifi/wifi_conf.c, wifi_ind.c).                    *)
(*                                                                         *)
(* Application tasks start scans; the Wi-Fi driver's thread (external)     *)
(* delivers result and completion events to the handlers registered in     *)
(* event_callback_list.  Both sides share scan_result_handler_ptr without  *)
(* a lock: scan_running is tested and set in two steps, and the completion *)
(* handler clears it before it unregisters the handlers.                   *)
(***************************************************************************)
EXTENDS ScanList

CONSTANTS
    Tasks,          \* application tasks that scan
    NoTask,
    Polls,          \* polls of 20 ms while another scan runs (100)
    Preemptible     \* application tasks may preempt the driver's thread

ASSUME WifiScanAssumption ==
    /\ NoTask \notin Tasks
    /\ Polls \in Nat \ {0}
    /\ Preemptible \in BOOLEAN

VARIABLES
    scan_running,
    gscan_result_handler,   \* the task whose handler gets the results
    scan_complete,
    buf,            \* ap_details and pap_details: "null", "live" or "freed"
    registered,     \* both scan handlers are in event_callback_list
    driver,         \* the driver: "idle" or "scanning"
    in_done,        \* its thread has not left wifi_scan_done_hdl yet
    tpc,            \* step of each task inside wifi_scan_networks
    count,          \* polls left to each task
    pending,        \* tasks told RTW_SUCCESS whose results are outstanding
    fault           \* a handler used a buffer that is not live

controlVars == <<scan_running, gscan_result_handler, scan_complete, buf,
                 registered, driver, in_done, tpc, count, pending,
                 fault>>
scanVars == <<listVars, controlVars>>

(* The driver's thread is inside a handler: a task runs then only if it    *)
(* can preempt that thread.                                                *)
TaskMayRun == ~in_done \/ Preemptible

ResetList ==
    /\ scan_cnt' = 0
    /\ pap_details' = [i \in Slot |-> 0]
    /\ ap_details' = [i \in Slot |-> NoEntry]
    /\ best' = [x \in {} |-> 0]

-----------------------------------------------------------------------------
(* Mutant: a scan under way is not waited for.                             *)
ScanEnter_nowait(t) ==
    /\ TaskMayRun /\ tpc[t] = "idle"
    /\ tpc' = [tpc EXCEPT ![t] = "claim"]
    /\ count' = [count EXCEPT ![t] = Polls]
    /\ UNCHANGED <<listVars, scan_running, gscan_result_handler, scan_complete,
                   buf, registered, driver, in_done, pending, fault>>

(* wifi_scan_networks, first test of scan_running.                         *)
ScanEnter(t) ==
    /\ TaskMayRun /\ tpc[t] = "idle"
    /\ tpc' = [tpc EXCEPT ![t] = IF scan_running THEN "wait" ELSE "claim"]
    /\ count' = [count EXCEPT ![t] = Polls]
    /\ UNCHANGED <<listVars, scan_running, gscan_result_handler, scan_complete,
                   buf, registered, driver, in_done, pending, fault>>

(* Mutant: polls are not counted.                                          *)
ScanPoll_unbounded(t) ==
    /\ TaskMayRun /\ tpc[t] = "wait" /\ ~scan_running
    /\ tpc' = [tpc EXCEPT ![t] = "claim"]
    /\ UNCHANGED <<listVars, scan_running, gscan_result_handler, scan_complete,
                   buf, registered, driver, in_done, count, pending, fault>>

(* The polling loop.  A caller whose last poll sees the scan finished      *)
(* still gives up: the loop's count is zero.                               *)
ScanPoll(t) ==
    /\ TaskMayRun /\ tpc[t] = "wait"
    /\ \/ /\ scan_running /\ count[t] > 0
          /\ count' = [count EXCEPT ![t] = @ - 1]
          /\ UNCHANGED tpc
       \/ /\ ~scan_running \/ count[t] = 0
          /\ tpc' = [tpc EXCEPT ![t] = IF count[t] = 0 THEN "idle" ELSE "claim"]
          /\ UNCHANGED count
    /\ UNCHANGED <<listVars, scan_running, gscan_result_handler, scan_complete,
                   buf, registered, driver, in_done, pending, fault>>

(* Claim the scan: fresh zeroed buffers and an empty list.                 *)
ScanClaim(t) ==
    /\ TaskMayRun /\ tpc[t] = "claim"
    /\ tpc' = [tpc EXCEPT ![t] = "start"]
    /\ scan_running' = TRUE
    /\ gscan_result_handler' = t
    /\ scan_complete' = FALSE
    /\ buf' = "live"
    /\ ResetList
    /\ UNCHANGED <<registered, driver, in_done, count, pending, fault>>

(* err_exit: an allocation failed, or wext_set_scan did; all of            *)
(* scan_result_handler_ptr is zeroed and RTW_ERROR returned.               *)
ScanError(t) ==
    /\ tpc' = [tpc EXCEPT ![t] = "idle"]
    /\ scan_running' = FALSE
    /\ gscan_result_handler' = NoTask
    /\ scan_complete' = FALSE
    /\ buf' = "null"
    /\ ResetList

ScanNoMemory(t) ==
    /\ TaskMayRun /\ tpc[t] = "claim"
    /\ ScanError(t)
    /\ UNCHANGED <<registered, driver, in_done, count, pending, fault>>

(* wifi_scan: the handlers are registered (each once) and the driver       *)
(* starts.                                                                 *)
ScanStart(t) ==
    /\ TaskMayRun /\ tpc[t] = "start"
    /\ registered' = TRUE
    /\ driver' = "scanning"
    /\ tpc' = [tpc EXCEPT ![t] = "idle"]
    /\ pending' = pending \cup {t}
    /\ UNCHANGED <<listVars, scan_running, gscan_result_handler, scan_complete,
                   buf, in_done, count, fault>>

(* wext_set_scan returns -1: the handlers are unregistered, the buffers    *)
(* freed.                                                                  *)
ScanRefused(t) ==
    /\ TaskMayRun /\ tpc[t] = "start"
    /\ registered' = FALSE
    /\ ScanError(t)
    /\ UNCHANGED <<driver, in_done, count, pending, fault>>

-----------------------------------------------------------------------------
(* A result event: rtw_indicate_event_handle calls the handler, if one is  *)
(* registered, on the driver's thread.                                     *)
DriverReport(b, s) ==
    /\ driver = "scanning" /\ ~in_done /\ registered
    /\ \/ /\ buf = "live"
          /\ wifi_scan_each_report_hdl(b, s)
          /\ UNCHANGED fault
       \/ /\ buf # "live"
          /\ fault' = TRUE
          /\ UNCHANGED listVars
    /\ UNCHANGED <<scan_running, gscan_result_handler, scan_complete, buf,
                   registered, driver, in_done, tpc, count, pending>>

(* Mutant: the completion is not passed on when the list is empty.         *)
wifi_scan_done_hdl_silent ==
    /\ driver = "scanning" /\ ~in_done /\ registered
    /\ fault' = (fault \/ buf # "live")
    /\ scan_complete' = TRUE
    /\ pending' = IF scan_cnt = 0 THEN pending
                  ELSE pending \ {gscan_result_handler}
    /\ buf' = "freed"
    /\ scan_running' = FALSE
    /\ driver' = "idle" /\ in_done' = TRUE
    /\ UNCHANGED <<listVars, gscan_result_handler, registered, tpc, count>>

(* wifi_scan_done_hdl up to scan_running = 0: every entry and then the     *)
(* completion go to the handler, and the buffers are freed.                *)
wifi_scan_done_hdl ==
    /\ driver = "scanning" /\ ~in_done /\ registered
    /\ fault' = (fault \/ buf # "live" \/ gscan_result_handler = NoTask)
    /\ scan_complete' = TRUE
    /\ pending' = pending \ {gscan_result_handler}
    /\ buf' = "freed"
    /\ scan_running' = FALSE
    /\ driver' = "idle" /\ in_done' = TRUE
    /\ UNCHANGED <<listVars, gscan_result_handler, registered, tpc, count>>

(* The rest of wifi_scan_done_hdl: unregister the handlers.                *)
ScanDoneUnregister ==
    /\ in_done
    /\ registered' = FALSE
    /\ in_done' = FALSE
    /\ UNCHANGED <<listVars, scan_running, gscan_result_handler, scan_complete,
                   buf, driver, tpc, count, pending, fault>>

(* A completion event nobody is registered for.                            *)
DriverDoneIgnored ==
    /\ driver = "scanning" /\ ~in_done /\ ~registered
    /\ driver' = "idle"
    /\ UNCHANGED <<listVars, scan_running, gscan_result_handler, scan_complete,
                   buf, registered, in_done, tpc, count, pending, fault>>

-----------------------------------------------------------------------------
ScanInit ==
    /\ EmptyList
    /\ scan_running = FALSE
    /\ gscan_result_handler = NoTask
    /\ scan_complete = FALSE
    /\ buf = "null"
    /\ registered = FALSE
    /\ driver = "idle" /\ in_done = FALSE
    /\ tpc = [t \in Tasks |-> "idle"]
    /\ count = [t \in Tasks |-> 0]
    /\ pending = {}
    /\ fault = FALSE

TaskStep(t) ==
    \/ ScanPoll(t)
    \/ ScanClaim(t)
    \/ ScanNoMemory(t)
    \/ ScanStart(t)
    \/ ScanRefused(t)

DriverDone == wifi_scan_done_hdl \/ ScanDoneUnregister \/ DriverDoneIgnored

ScanNext ==
    \/ \E t \in Tasks : ScanEnter(t) \/ TaskStep(t)
    \/ \E b \in Bssids, s \in Signals : DriverReport(b, s)
    \/ DriverDone

(* A task inside the call goes on (the scheduler is preemptive), and the   *)
(* driver ends every scan with a completion event.                         *)
ScanFairness ==
    /\ \A t \in Tasks : WF_scanVars(TaskStep(t))
    /\ WF_scanVars(DriverDone)

ScanSpec == ScanInit /\ [][ScanNext]_scanVars /\ ScanFairness

-----------------------------------------------------------------------------
(* Types of the control state.                                             *)
ScanTypeOK ==
    /\ ListTypeOK
    /\ scan_running \in BOOLEAN /\ scan_complete \in BOOLEAN
    /\ gscan_result_handler \in Tasks \cup {NoTask}
    /\ buf \in {"null", "live", "freed"}
    /\ registered \in BOOLEAN
    /\ driver \in {"idle", "scanning"} /\ in_done \in BOOLEAN
    /\ tpc \in [Tasks -> {"idle", "wait", "claim", "start"}]
    /\ count \in [Tasks -> 0 .. Polls]
    /\ pending \subseteq Tasks
    /\ fault \in BOOLEAN

(* The handlers, which run on the driver's thread, never touch buffers     *)
(* that were freed or not allocated, nor a zeroed callback pointer,        *)
(* although scans fail, are refused and are restarted as soon as           *)
(* scan_running is clear.                                                  *)
NoUseAfterFree == ~fault

(* Every scan that was accepted (RTW_SUCCESS) reports its completion to    *)
(* the caller's handler.                                                   *)
ScanCompletes == \A t \in Tasks : t \in pending ~> t \notin pending

(* Nobody waits for another scan for ever: a caller that found one running *)
(* gets its turn or RTW_TIMEOUT, even if other tasks keep scanning.        *)
WaitEnds == \A t \in Tasks : tpc[t] = "wait" ~> tpc[t] # "wait"

(* Scans exclude each other: while one caller's scan is claimed or under   *)
(* way, no other caller has claimed one.                                   *)
ExclusiveScan ==
    \A t, u \in Tasks :
        (t # u /\ tpc[t] = "start") => tpc[u] # "start" /\ u \notin pending
=============================================================================
