------------------------------ MODULE WifiJoin ------------------------------
(***************************************************************************)
(* Joining a Wi-Fi network: wifi_connect, wifi_connect_bssid and their     *)
(* event handlers (component/common/api/wifi/wifi_conf.c), followed by     *)
(* LwIP_DHCP (component/common/api/lwip_netconf.c).                        *)
(*                                                                         *)
(* The caller publishes its join_result through join_user_data and waits   *)
(* on a semaphore in it; the handlers, on the driver's thread, record how  *)
(* far the join got in rtw_join_status, derive error_flag from it and give *)
(* the semaphore.  No lock protects these variables.  A handler is one     *)
(* step: the driver's thread has a higher priority than its callers.       *)
(***************************************************************************)
EXTENDS Integers

CONSTANTS
    Tasks,          \* tasks that join: the application, the auto-reconnect thread
    NoTask,
    Calls,          \* the calls they make
    EarlyEvents,    \* events may arrive before join_user_data is set
    MaxTries        \* MAX_DHCP_TRIES (5)

(* "WEP" is RTW_SECURITY_WEP_PSK and "WPA2" RTW_SECURITY_WPA2_AES_PSK;     *)
(* "TKIP" stands for the WPA types the handlers do not know by name.       *)
Security == {"OPEN", "WEP", "WPA2", "TKIP"}

(* A call: the API, the network's security, a key of valid length or not,  *)
(* and whether it waits itself (semaphore = NULL).                         *)
Call == [api : {"ssid", "bssid"}, sec : Security, key : BOOLEAN, own : BOOLEAN]

ASSUME JoinAssumption ==
    /\ NoTask \notin Tasks
    /\ Calls \subseteq Call /\ Calls # {}
    /\ EarlyEvents \in BOOLEAN
    /\ MaxTries \in 0 .. 5

VARIABLES
    error_flag,
    rtw_join_status,    \* set of the flags JOIN_*; READY is the five joined ones
    join_user_data,     \* the task whose join_result it points to
    handlers,           \* event handlers registered
    link,               \* the driver: "down", "joining", "nonet", "assoc", "up"
    sec,                \* security of the network it joins
    cause,              \* history: why the last attempt failed
    tpc, call, result,  \* step, arguments and result of each task's present call
    jr,                 \* the call's join_result: "none", "live" or "freed"
    sema,               \* its semaphore: "none", "empty", "given" or "deleted"
    dhcp, ip,           \* xnetif[0]: DHCP client, address
    fault               \* memory errors met

shared == <<error_flag, rtw_join_status, join_user_data, handlers>>
driver == <<link, sec, cause>>
task == <<tpc, call, result, jr, sema>>
net == <<dhcp, ip>>
joinVars == <<shared, driver, task, net, fault>>

JoinHandlers == {"NO_NETWORK", "CONNECT", "HANDSHAKE"}

Goto(t, s) == tpc' = [tpc EXCEPT ![t] = s]
Return(t, r, s) == Goto(t, s) /\ result' = [result EXCEPT ![t] = r]

Joiner == call[join_user_data]

(* The DHCP client: its state, the messages sent in that state and whether *)
(* request_timeout runs.                                                   *)
Client == [state : {"OFF", "SELECTING", "REQUESTING", "CHECKING", "BACKING_OFF", "BOUND"},
           tries : Nat, timer : BOOLEAN]

Stopped == [state |-> "OFF", tries |-> 0, timer |-> FALSE]

(* Mutant: the tries are counted anew for every message.                   *)
Sent_reset(s) == [state |-> s, tries |-> 1, timer |-> TRUE]

(* A message is sent in state s: dhcp_set_state counts the tries anew when *)
(* the state changes, and the timer is started.                            *)
Sent(s) == [state |-> s, tries |-> (IF dhcp.state = s THEN dhcp.tries ELSE 0) + 1,
            timer |-> TRUE]

-----------------------------------------------------------------------------
(* rtw_up_sema(&join_user_data->join_sema).                                *)
GiveJoinSema ==
    IF join_user_data = NoTask
    THEN UNCHANGED <<sema, fault>>
    ELSE /\ sema' = [sema EXCEPT ![join_user_data] =
                        IF @ = "empty" THEN "given" ELSE @]
         /\ fault' = fault \cup
                {f \in {"freed_result", "deleted_semaphore"} :
                    \/ f = "freed_result" /\ jr[join_user_data] # "live"
                    \/ f = "deleted_semaphore"
                        /\ sema[join_user_data] \in {"none", "deleted"}}

wifi_no_network_hdl ==
    rtw_join_status' = IF "NO_NETWORK" \in handlers /\ join_user_data # NoTask
                       THEN {"NO_NETWORKS"} ELSE rtw_join_status

(* A handler reads the security type of a join_result that was freed.      *)
FreedRead ==
    {f \in {"freed_result"} :
        join_user_data # NoTask /\ jr[join_user_data] # "live"}

(* Mutant: the joiner is woken by the association already.                 *)
wifi_connected_hdl_early ==
    IF "CONNECT" \in handlers /\ join_user_data # NoTask
    THEN rtw_join_status' = {"READY"} /\ GiveJoinSema
    ELSE UNCHANGED <<rtw_join_status, sema, fault>>

(* Open and WEP networks are joined now and wake the joiner; WPA2 still    *)
(* lacks the handshake.                                                    *)
wifi_connected_hdl ==
    IF "CONNECT" \in handlers /\ join_user_data # NoTask
    THEN /\ rtw_join_status' =
                IF Joiner.sec = "TKIP" THEN rtw_join_status ELSE {"READY"}
         /\ IF Joiner.sec \in {"OPEN", "WEP"}
            THEN GiveJoinSema
            ELSE UNCHANGED sema /\ fault' = fault \cup FreedRead
    ELSE UNCHANGED <<rtw_join_status, sema, fault>>

(* Mutant: a handshake is recorded, its joiner not woken.                  *)
wifi_handshake_done_hdl_silent ==
    /\ rtw_join_status' = IF "HANDSHAKE" \in handlers
                          THEN {"READY", "HANDSHAKE_DONE"} ELSE rtw_join_status
    /\ UNCHANGED <<sema, fault>>

wifi_handshake_done_hdl ==
    IF "HANDSHAKE" \in handlers
    THEN rtw_join_status' = {"READY", "HANDSHAKE_DONE"} /\ GiveJoinSema
    ELSE UNCHANGED <<rtw_join_status, sema, fault>>

(* The reason wifi_disconn_hdl derives from how far the join got.          *)
DisconnReason ==
    IF Joiner.sec # "TKIP" /\ rtw_join_status = {"NO_NETWORKS"} THEN "NONE_NETWORK"
    ELSE IF Joiner.sec \in {"WEP", "WPA2"} /\ rtw_join_status = {} THEN "CONNECT_FAIL"
    ELSE IF Joiner.sec = "WPA2" /\ rtw_join_status = {"READY"} THEN "WRONG_PASSWORD"
    ELSE error_flag

(* Mutant: a link lost outside a join leaves error_flag alone.             *)
wifi_disconn_hdl_joining ==
    IF "DISCONNECT" \in handlers
    THEN /\ error_flag' = IF join_user_data # NoTask THEN DisconnReason ELSE error_flag
         /\ dhcp' = Stopped
         /\ GiveJoinSema
    ELSE UNCHANGED <<error_flag, dhcp, sema, fault>>

wifi_disconn_hdl ==
    IF "DISCONNECT" \in handlers
    THEN /\ error_flag' = IF join_user_data # NoTask THEN DisconnReason
                          ELSE IF error_flag = "NO_ERROR" THEN "UNKNOWN"
                          ELSE error_flag
         /\ dhcp' = Stopped
         /\ GiveJoinSema
    ELSE UNCHANGED <<error_flag, dhcp, sema, fault>>

-----------------------------------------------------------------------------
(* The driver.  A join either finds no network, is refused, loses its      *)
(* association before the handshake is done, or comes up; every failure    *)
(* ends with a DISCONNECT, which does not tell why.                        *)
EventsMayCome == EarlyEvents \/ \A t \in Tasks : tpc[t] # "started"

NoNetworkEvent ==
    /\ EventsMayCome /\ link = "joining"
    /\ link' = "nonet"
    /\ wifi_no_network_hdl
    /\ UNCHANGED <<error_flag, join_user_data, handlers, sec, cause, task, net, fault>>

ConnectEvent ==
    /\ EventsMayCome /\ link = "joining"
    /\ link' = IF sec \in {"OPEN", "WEP"} THEN "up" ELSE "assoc"
    /\ wifi_connected_hdl
    /\ UNCHANGED <<error_flag, join_user_data, handlers, sec, cause,
                   tpc, call, result, jr, net>>

HandshakeEvent ==
    /\ EventsMayCome /\ link = "assoc"
    /\ link' = "up"
    /\ wifi_handshake_done_hdl
    /\ UNCHANGED <<error_flag, join_user_data, handlers, sec, cause,
                   tpc, call, result, jr, net>>

(* What may really be wrong: an access point that has no such key refuses  *)
(* a WEP station's authentication, while a WPA handshake fails after the   *)
(* association; there the access point may as well leave or go silent.     *)
LossReasons ==
    CASE link = "nonet" -> {"NONE_NETWORK"}
      [] link = "joining" -> IF sec = "WEP" THEN {"CONNECT_FAIL", "WRONG_PASSWORD"}
                             ELSE {"CONNECT_FAIL"}
      [] link = "assoc" -> {"WRONG_PASSWORD", "LOST"}
      [] link = "up" -> {"LOST"}

DisconnectEvent ==
    /\ EventsMayCome /\ link # "down"
    /\ link' = "down"
    /\ cause' \in LossReasons
    /\ wifi_disconn_hdl
    /\ UNCHANGED <<rtw_join_status, join_user_data, handlers, sec,
                   tpc, call, result, jr, ip>>

(* wifi_disconnect of an idle task: a bogus BSSID takes the link down.     *)
wifi_disconnect(t) ==
    /\ tpc[t] = "idle" /\ link \in {"assoc", "up"}
    /\ DisconnectEvent

-----------------------------------------------------------------------------
(* lwIP's DHCP client, while LwIP_DHCP waits for it.  A server offers an   *)
(* address; an offer that does not name its server only stops the timer.   *)
DhcpOffer ==
    /\ dhcp.state = "SELECTING"
    /\ \/ dhcp' = Sent("REQUESTING")
       \/ dhcp.timer /\ dhcp' = [dhcp EXCEPT !.timer = FALSE]
    /\ UNCHANGED ip

(* An acknowledged address is first looked for with ARP.                   *)
DhcpAck ==
    /\ dhcp.state = "REQUESTING"
    /\ dhcp' = Sent("CHECKING")
    /\ UNCHANGED ip

(* A refused request is followed by another discovery, from the start.     *)
dhcp_handle_nak ==
    /\ dhcp.state = "REQUESTING"
    /\ dhcp' = Sent("SELECTING") /\ ip' = "none"

(* Another host has the address: it is declined.                           *)
dhcp_arp_reply ==
    /\ dhcp.state = "CHECKING"
    /\ dhcp' = Sent("BACKING_OFF")
    /\ UNCHANGED ip

(* dhcp_timeout sends again; when nobody answered the second ARP query the *)
(* client is bound.  Its own limit of six requests is never reached:       *)
(* LwIP_DHCP has stopped the client by then.                               *)
dhcp_timeout ==
    /\ dhcp.timer
    /\ \/ /\ dhcp.state \in {"SELECTING", "BACKING_OFF"}
          /\ dhcp' = Sent("SELECTING") /\ UNCHANGED ip
       \/ /\ dhcp.state = "REQUESTING" \/ (dhcp.state = "CHECKING" /\ dhcp.tries <= 1)
          /\ dhcp' = Sent(dhcp.state) /\ UNCHANGED ip
       \/ /\ dhcp.state = "CHECKING" /\ dhcp.tries > 1
          /\ dhcp' = [state |-> "BOUND", tries |-> 0, timer |-> FALSE]
          /\ ip' = "lease"

(* The server's answers and those of other hosts come on lwIP's thread.    *)
DhcpReply ==
    /\ link = "up"
    /\ DhcpOffer \/ DhcpAck \/ dhcp_handle_nak \/ dhcp_arp_reply
    /\ UNCHANGED <<shared, driver, task, fault>>

-----------------------------------------------------------------------------
(* Mutant: the status of the previous join is kept.                        *)
ConnectEnter_stale(t, c) ==
    /\ tpc[t] = "idle" /\ "SIMPLE_CONFIG" \notin rtw_join_status
    /\ c.key
    /\ call' = [call EXCEPT ![t] = c]
    /\ error_flag' = "UNKNOWN"
    /\ Goto(t, "alloc")
    /\ jr' = [jr EXCEPT ![t] = "live"]
    /\ UNCHANGED <<rtw_join_status, join_user_data, handlers, driver, result, sema,
                   net, fault>>

(* A call is made.  While simple config runs it is refused and changes     *)
(* nothing; an invalid key or no memory for the join_result ends it; only  *)
(* wifi_connect reports the key in error_flag.                             *)
ConnectEnter(t, c) ==
    /\ tpc[t] = "idle" /\ "SIMPLE_CONFIG" \notin rtw_join_status
    /\ rtw_join_status' = {}
    /\ \/ /\ c.key
          /\ error_flag' = "UNKNOWN"
          /\ call' = [call EXCEPT ![t] = c]
          /\ Goto(t, "alloc")
          /\ jr' = [jr EXCEPT ![t] = "live"]
       \/ /\ ~c.key
          /\ error_flag' = IF c.api = "ssid" THEN "WRONG_PASSWORD" ELSE "UNKNOWN"
          /\ UNCHANGED <<tpc, call, jr>>
       \/ /\ c.key \/ c.api = "bssid"
          /\ error_flag' = "UNKNOWN"
          /\ UNCHANGED <<tpc, call, jr>>
    /\ UNCHANGED <<join_user_data, handlers, driver, result, sema, net, fault>>

(* No memory for the password or no semaphore.  wifi_connect goes to its   *)
(* error exit, which frees the local join_semaphore that was never         *)
(* assigned; wifi_connect_bssid returns and keeps the join_result.         *)
ConnectNoResource(t) ==
    /\ tpc[t] = "alloc"
    /\ Goto(t, "idle")
    /\ \/ /\ call[t].api = "ssid"
          /\ \/ call[t].own /\ fault' = fault \cup {"wild_free"}
             \/ UNCHANGED fault
          /\ join_user_data' = NoTask
          /\ handlers' = handlers \ JoinHandlers
       \/ /\ call[t].api = "bssid"
          /\ UNCHANGED <<fault, join_user_data, handlers>>
    /\ jr' = [jr EXCEPT ![t] = "none"]
    /\ UNCHANGED <<error_flag, rtw_join_status, driver, call, result, sema, net>>

(* The semaphore is created or taken over and the handlers registered.     *)
ConnectReady(t) ==
    /\ tpc[t] = "alloc"
    /\ Goto(t, "ready")
    /\ sema' = [sema EXCEPT ![t] = "empty"]
    /\ handlers' = JoinHandlers \cup {"DISCONNECT"}
    /\ UNCHANGED <<error_flag, rtw_join_status, join_user_data, driver, call,
                   result, jr, net, fault>>

(* The driver is asked to join.  A link that is up goes down first, and    *)
(* its DISCONNECT is handled on this task before join_user_data is set.    *)
ConnectStart(t) ==
    /\ tpc[t] = "ready"
    /\ Goto(t, "started")
    /\ link' = "joining" /\ sec' = call[t].sec /\ cause' = "none"
    /\ \/ link \in {"assoc", "up"} /\ wifi_disconn_hdl
       \/ link \notin {"assoc", "up"} /\ UNCHANGED <<error_flag, dhcp, sema, fault>>
    /\ UNCHANGED <<rtw_join_status, join_user_data, handlers, call, result, jr,
                   ip>>

(* The driver, its interface being down, refuses: wifi_connect_local's     *)
(* answer is ignored.                                                      *)
ConnectIgnored(t) ==
    /\ tpc[t] = "ready" /\ link = "down"
    /\ Goto(t, "started")
    /\ cause' = "CONNECT_FAIL"
    /\ UNCHANGED <<shared, link, sec, call, result, jr, sema, net, fault>>

(* join_user_data = join_result.  With a semaphore of the caller's the     *)
(* call does not wait and goes on as if it had joined.                     *)
ConnectPublish(t) ==
    /\ tpc[t] = "started"
    /\ join_user_data' = t
    /\ \/ call[t].own /\ Goto(t, "wait") /\ UNCHANGED result
       \/ ~call[t].own /\ Return(t, "SUCCESS", "clear")
    /\ UNCHANGED <<error_flag, rtw_join_status, handlers, driver, call, jr, sema,
                   net, fault>>

(* Mutant: wifi_connect, too, deletes the semaphore when its wait ends.    *)
FreeAfterWait_sema(t) ==
    /\ sema' = [sema EXCEPT ![t] = "deleted"]
    /\ jr' = [jr EXCEPT ![t] = IF call[t].api = "bssid" THEN "freed" ELSE @]

(* wifi_connect_bssid frees semaphore and join_result as soon as its wait  *)
(* ends, wifi_connect after the result is known.                           *)
FreeAfterWait(t) ==
    \/ /\ call[t].api = "bssid"
       /\ sema' = [sema EXCEPT ![t] = "deleted"]
       /\ jr' = [jr EXCEPT ![t] = "freed"]
    \/ /\ call[t].api = "ssid"
       /\ UNCHANGED <<sema, jr>>

AfterResult(t) == IF call[t].api = "ssid" THEN "free" ELSE "clear"

(* The semaphore was given.                                                *)
ConnectWoken(t) ==
    /\ tpc[t] = "wait" /\ sema[t] = "given"
    /\ Goto(t, "woken")
    /\ FreeAfterWait(t)
    /\ UNCHANGED <<shared, driver, call, result, net, fault>>

(* Mutant: the wait is not limited while the driver joins.                 *)
ConnectTimeout_joining(t) ==
    /\ tpc[t] = "wait" /\ sema[t] # "given" /\ link # "joining"
    /\ Return(t, "TIMEOUT", AfterResult(t))
    /\ FreeAfterWait(t)
    /\ UNCHANGED <<shared, driver, call, net, fault>>

(* RTW_JOIN_TIMEOUT passes without an event.                               *)
ConnectTimeout(t) ==
    /\ tpc[t] = "wait" /\ sema[t] # "given"
    /\ Return(t, "TIMEOUT", AfterResult(t))
    /\ FreeAfterWait(t)
    /\ UNCHANGED <<shared, driver, call, net, fault>>

(* wifi_is_connected_to_ap tells an association from a failure.            *)
ConnectCheck(t) ==
    /\ tpc[t] = "woken"
    /\ Return(t, IF link \in {"assoc", "up"} THEN "SUCCESS" ELSE "ERROR",
              AfterResult(t))
    /\ UNCHANGED <<shared, driver, call, jr, sema, net, fault>>

(* wifi_connect frees its semaphore while join_user_data still points to   *)
(* the join_result that holds it.                                          *)
ConnectFreeSema(t) ==
    /\ tpc[t] = "free"
    /\ Goto(t, "clear")
    /\ sema' = [sema EXCEPT ![t] = "deleted"]
    /\ UNCHANGED <<shared, driver, call, result, jr, net, fault>>

(* join_user_data is reset, the join_result freed (by wifi_connect) and    *)
(* three of the four handlers unregistered; a joined caller that waited    *)
(* starts DHCP.                                                            *)
ConnectClear(t) ==
    /\ tpc[t] = "clear"
    /\ join_user_data' = NoTask
    /\ jr' = [jr EXCEPT ![t] = "none"] /\ sema' = [sema EXCEPT ![t] = "none"]
    /\ handlers' = handlers \ JoinHandlers
    /\ Return(t, "none", IF result[t] = "SUCCESS" /\ call[t].own
                         THEN "dhcp" ELSE "idle")
    /\ UNCHANGED <<error_flag, rtw_join_status, driver, call, net, fault>>

-----------------------------------------------------------------------------
(* LwIP_DHCP(0, DHCP_START): no address, client started, unless it has no  *)
(* memory.                                                                 *)
DhcpStart(t) ==
    /\ tpc[t] = "dhcp"
    /\ Goto(t, "dhcp_wait")
    /\ dhcp' \in {[state |-> "SELECTING", tries |-> 1, timer |-> TRUE], Stopped}
    /\ ip' = "none"
    /\ UNCHANGED <<shared, driver, call, result, jr, sema, fault>>

(* DHCP_WAIT_ADDRESS.  The client was stopped by wifi_disconn_hdl.         *)
DhcpStopped(t) ==
    /\ tpc[t] = "dhcp_wait" /\ dhcp.state = "OFF"
    /\ ip' = "static"
    /\ Goto(t, "idle")
    /\ UNCHANGED <<shared, driver, call, result, jr, sema, dhcp, fault>>

(* There is an address.                                                    *)
DhcpAssigned(t) ==
    /\ tpc[t] = "dhcp_wait" /\ dhcp.state # "OFF" /\ ip # "none"
    /\ Goto(t, "dhcp_bound")
    /\ UNCHANGED <<shared, driver, call, result, jr, sema, net, fault>>

(* Too many tries.                                                         *)
DhcpTimeout(t) ==
    /\ tpc[t] = "dhcp_wait" /\ dhcp.state # "OFF" /\ ip = "none"
    /\ dhcp.tries > MaxTries
    /\ dhcp' = Stopped /\ ip' = "static"
    /\ error_flag' = "DHCP_FAIL"
    /\ Goto(t, "idle")
    /\ UNCHANGED <<rtw_join_status, join_user_data, handlers, driver, call, result,
                   jr, sema, fault>>

(* Mutant: the tries are never compared with their limit.                  *)
DhcpPoll_untried(t) ==
    /\ tpc[t] = "dhcp_wait" /\ dhcp.state # "OFF" /\ ip = "none"
    /\ dhcp_timeout
    /\ UNCHANGED <<shared, driver, task, fault>>

(* Turns of the loop until the client's timer runs out.                    *)
DhcpPoll(t) ==
    /\ tpc[t] = "dhcp_wait" /\ dhcp.state # "OFF" /\ ip = "none"
    /\ dhcp.tries <= MaxTries
    /\ dhcp_timeout
    /\ UNCHANGED <<shared, driver, task, fault>>

(* The address is printed and error_flag set, whatever happened since the  *)
(* address was read.                                                       *)
DhcpBound(t) ==
    /\ tpc[t] = "dhcp_bound"
    /\ error_flag' = "NO_ERROR"
    /\ Goto(t, "idle")
    /\ UNCHANGED <<rtw_join_status, join_user_data, handlers, driver, call, result,
                   jr, sema, net, fault>>

-----------------------------------------------------------------------------
(* Simple config marks itself in rtw_join_status and clears all of it when *)
(* it ends or goes on to join.                                             *)
SimpleConfigBegin(t) ==
    /\ tpc[t] = "idle" /\ "SIMPLE_CONFIG" \notin rtw_join_status
    /\ rtw_join_status' = rtw_join_status \cup {"SIMPLE_CONFIG"}
    /\ Goto(t, "config")
    /\ UNCHANGED <<error_flag, join_user_data, handlers, driver, call, result, jr,
                   sema, net, fault>>

SimpleConfigEnd(t) ==
    /\ tpc[t] = "config"
    /\ rtw_join_status' = {}
    /\ Goto(t, "idle")
    /\ UNCHANGED <<error_flag, join_user_data, handlers, driver, call, result, jr,
                   sema, net, fault>>

-----------------------------------------------------------------------------
JoinInit ==
    /\ error_flag = "UNKNOWN" /\ rtw_join_status = {}
    /\ join_user_data = NoTask /\ handlers = {}
    /\ link = "down" /\ sec = "OPEN" /\ cause = "none"
    /\ tpc = [t \in Tasks |-> "idle"]
    /\ call = [t \in Tasks |-> CHOOSE c \in Calls : TRUE]
    /\ result = [t \in Tasks |-> "none"]
    /\ jr = [t \in Tasks |-> "none"] /\ sema = [t \in Tasks |-> "none"]
    /\ dhcp = Stopped /\ ip = "none"
    /\ fault = {}

ConnectStep(t) ==
    \/ ConnectNoResource(t) \/ ConnectReady(t) \/ ConnectStart(t)
    \/ ConnectIgnored(t) \/ ConnectPublish(t) \/ ConnectWoken(t)
    \/ ConnectTimeout(t) \/ ConnectCheck(t) \/ ConnectFreeSema(t)
    \/ ConnectClear(t)

DhcpStep(t) ==
    \/ DhcpStart(t) \/ DhcpStopped(t) \/ DhcpAssigned(t) \/ DhcpTimeout(t)
    \/ DhcpPoll(t) \/ DhcpBound(t)

DriverStep ==
    NoNetworkEvent \/ ConnectEvent \/ HandshakeEvent \/ DisconnectEvent \/ DhcpReply

JoinNext ==
    \/ \E t \in Tasks :
        \/ \E c \in Calls : ConnectEnter(t, c)
        \/ wifi_disconnect(t)
        \/ SimpleConfigBegin(t) \/ SimpleConfigEnd(t)
        \/ ConnectStep(t) \/ DhcpStep(t)
    \/ DriverStep

(* A task inside a call goes on: its waits are bounded by RTW_JOIN_TIMEOUT *)
(* and by the DHCP timers.  Nothing is assumed of the driver.              *)
JoinFairness == \A t \in Tasks : WF_joinVars(ConnectStep(t) \/ DhcpStep(t))

JoinSpec == JoinInit /\ [][JoinNext]_joinVars /\ JoinFairness

-----------------------------------------------------------------------------
(* Types of the state.                                                     *)
JoinTypeOK ==
    /\ error_flag \in {"NO_ERROR", "NONE_NETWORK", "CONNECT_FAIL",
                       "WRONG_PASSWORD", "DHCP_FAIL", "UNKNOWN"}
    /\ rtw_join_status \subseteq {"NO_NETWORKS", "READY", "HANDSHAKE_DONE",
                                  "SIMPLE_CONFIG"}
    /\ join_user_data \in Tasks \cup {NoTask}
    /\ handlers \in {{}, {"DISCONNECT"}, JoinHandlers \cup {"DISCONNECT"}}
    /\ link \in {"down", "joining", "nonet", "assoc", "up"}
    /\ sec \in Security
    /\ cause \in {"none", "NONE_NETWORK", "CONNECT_FAIL", "WRONG_PASSWORD", "LOST"}
    /\ tpc \in [Tasks -> {"idle", "alloc", "ready", "started", "wait", "woken",
                          "free", "clear", "dhcp", "dhcp_wait", "dhcp_bound",
                          "config"}]
    /\ call \in [Tasks -> Calls]
    /\ result \in [Tasks -> {"none", "SUCCESS", "ERROR", "TIMEOUT"}]
    /\ jr \in [Tasks -> {"none", "live", "freed"}]
    /\ sema \in [Tasks -> {"none", "empty", "given", "deleted"}]
    /\ dhcp \in Client /\ dhcp.tries <= MaxTries + 1
    /\ ip \in {"none", "lease", "static"}
    /\ fault \subseteq {"freed_result", "deleted_semaphore", "wild_free"}

(* The result of t's call is decided in this step: it will return r.       *)
Decides(t, r) == result[t] # r /\ result'[t] = r

(* RTW_SUCCESS is decided only while the link is up, handshake included:   *)
(* neither an association without keys nor the end of an earlier link is   *)
(* mistaken for a join.                                                    *)
SuccessMeansJoined == [][\A t \in Tasks : Decides(t, "SUCCESS") => link = "up"]_joinVars

(* A caller does not time out while the driver has completed its join:     *)
(* the handlers neither miss the events nor wake anybody else.             *)
TimeoutMeansNotJoined ==
    [][\A t \in Tasks : Decides(t, "TIMEOUT") => (link # "up" \/ cause # "none")]_joinVars

(* wifi_disconn_hdl cannot tell these apart: a link lost before the WPA2   *)
(* handshake looks like a wrong password, and a WEP key that is refused    *)
(* like a refused association.                                             *)
Taken(c) ==
    {c, "UNKNOWN"}
        \cup {f \in {"WRONG_PASSWORD"} : c = "LOST" /\ sec = "WPA2"}
        \cup {f \in {"CONNECT_FAIL"} : c = "WRONG_PASSWORD" /\ sec = "WEP"}

(* What it always reports.                                                 *)
Known(c) ==
    \/ c = "NONE_NETWORK" /\ sec # "TKIP"
    \/ c = "WRONG_PASSWORD" /\ sec = "WPA2"

(* What wifi_get_last_error gives for a failed join, pieced together from  *)
(* three events.  Whatever really went wrong, it is taken for another      *)
(* failure in the two cases of Taken only; and a missing network and a     *)
(* wrong WPA2 password are always reported as such.                        *)
FailureReported ==
    \A t \in Tasks :
        (tpc[t] \in {"free", "clear"} /\ result[t] = "ERROR")
            => error_flag \in (IF Known(cause) THEN {cause} ELSE Taken(cause))

(* The example's comment on RTW_WRONG_PASSWORD: the password has the wrong *)
(* length or is not the one the access point uses.  It does not hold: an   *)
(* access point that leaves after a WPA2 association and before the        *)
(* handshake is reported as a wrong password, too.                         *)
WrongPasswordTrue ==
    \A t \in Tasks :
        (tpc[t] \in {"free", "clear"} /\ result[t] = "ERROR"
            /\ error_flag = "WRONG_PASSWORD") => cause = "WRONG_PASSWORD"

InCall(t) == tpc[t] \in {"alloc", "ready", "started", "wait", "woken", "free", "clear"}

(* Every join returns, whatever the driver does and whoever else joins:    *)
(* nobody waits for ever on a semaphore another caller was given.          *)
ConnectReturns == \A t \in Tasks : InCall(t) ~> ~InCall(t)

(* LwIP_DHCP returns, although wifi_disconn_hdl may stop the client under  *)
(* it, with two exceptions.  Its limit counts the tries in one state of    *)
(* the client: servers that offer addresses and refuse them, or that offer *)
(* addresses in use, for ever, keep it waiting; so does an offer that did  *)
(* not name its server and stopped the timer, until another comes.         *)
DhcpReturns ==
    \A t \in Tasks :
        \/ []<>(tpc[t] # "dhcp_wait")
        \/ []<><<dhcp_handle_nak \/ dhcp_arp_reply>>_joinVars
        \/ <>[](dhcp.state = "SELECTING" /\ ~dhcp.timer)

ReadyButDown == error_flag = "NO_ERROR" /\ link # "up"

(* The interface is reported ready (error_flag = RTW_NO_ERROR) only while  *)
(* it is connected, with one exception: the link was lost after LwIP_DHCP  *)
(* read its address and before it set error_flag.  No other order of link  *)
(* losses, new joins and DHCP leaves a stale RTW_NO_ERROR behind.          *)
ReadyMeansConnected ==
    [][~ReadyButDown /\ ReadyButDown' => \E t \in Tasks : tpc[t] = "dhcp_bound"
                                            /\ tpc'[t] # "dhcp_bound"]_joinVars

(* Where a handler may find what the call has freed but not yet let go of. *)
Window(t) == IF call[t].api = "bssid" THEN {"woken", "clear"} ELSE {"clear"}

(* A handler gives a deleted semaphore only from the end of the call's     *)
(* wait (wifi_connect_bssid), or from the statement that deletes it        *)
(* (wifi_connect), until join_user_data is reset; only the former lets it  *)
(* read a freed join_result.  An event that comes during the wait or after *)
(* the call, however late, finds nothing freed.                            *)
FreedOnlyInWindow ==
    [][\A f \in (fault' \ fault) \ {"wild_free"} :
        /\ join_user_data # NoTask
        /\ tpc[join_user_data] \in Window(join_user_data)
        /\ f = "freed_result" => call[join_user_data].api = "bssid"]_joinVars

(* The error exit frees only what was allocated.                           *)
NoWildFree == "wild_free" \notin fault
=============================================================================
