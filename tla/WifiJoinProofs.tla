--------------------------- MODULE WifiJoinProofs ---------------------------
(***************************************************************************)
(* Proofs about wifi_connect, wifi_connect_bssid and LwIP_DHCP.            *)
(*                                                                         *)
(* What the handlers find behind join_user_data is proved for any number   *)
(* of tasks and calls, and whether or not events overtake the caller.      *)
(* What the caller is told rests on variables that no lock protects and    *)
(* is proved for a single task that joins, as the network is joined by one *)
(* task at a time.                                                         *)
(***************************************************************************)
EXTENDS WifiJoin, TLAPS

-----------------------------------------------------------------------------
(* join_user_data points to a call that has published it and has not yet   *)
(* reset it.                                                               *)
Published ==
    join_user_data # NoTask
        => tpc[join_user_data] \in {"wait", "woken", "free", "clear"}

Held == {"alloc", "ready", "started", "wait"}

(* Until its wait ends a call holds its join_result and, from its creation *)
(* on, its semaphore; wifi_connect holds the former until it has reset     *)
(* join_user_data and the latter until its result is known.                *)
Holds(t) ==
    /\ tpc[t] = "free" => call[t].api = "ssid"
    /\ tpc[t] \in Held => jr[t] = "live"
    /\ tpc[t] \in Held \ {"alloc"} => sema[t] \in {"empty", "given"}
    /\ tpc[t] \in {"woken", "free", "clear"} /\ call[t].api = "ssid" => jr[t] = "live"
    /\ tpc[t] \in {"woken", "free"} /\ call[t].api = "ssid"
        => sema[t] \in {"empty", "given"}

(* What holds whoever joins.                                               *)
ResultInv == JoinTypeOK /\ Published /\ \A t \in Tasks : Holds(t)

-----------------------------------------------------------------------------
(* One task joins.                                                         *)
Alone == \A t, u \in Tasks : t = u

AllHandlers == JoinHandlers \cup {"DISCONNECT"}
Handshaken == {"READY", "HANDSHAKE_DONE"}

(* The handlers stay registered while somebody may be waiting for them,    *)
(* wifi_disconn_hdl also while DHCP runs and once the interface is ready,  *)
(* and they know whom to wake.                                             *)
Listens(t) ==
    /\ tpc[t] \in {"ready", "started", "wait", "woken", "free", "clear"}
        => handlers = AllHandlers
    /\ tpc[t] \in {"wait", "woken", "free", "clear"} => join_user_data = t
    /\ tpc[t] \in {"dhcp", "dhcp_wait", "dhcp_bound"} => "DISCONNECT" \in handlers
    /\ InCall(t) => error_flag # "NO_ERROR"

ReadyListens == error_flag = "NO_ERROR" => "DISCONNECT" \in handlers

(* The driver, unless it is down, joins the network of the call.           *)
Attempt(t) ==
    tpc[t] \in {"started", "wait", "woken", "free", "clear"}
        => link = "down" \/ (sec = call[t].sec /\ cause = "none")

(* Nobody gives the semaphore before the call is published, and then it is *)
(* given when the link is complete or gone.                                *)
WokenByEnd(t) ==
    /\ tpc[t] \in {"ready", "started"} => sema[t] = "empty"
    /\ (tpc[t] = "woken" \/ (tpc[t] = "wait" /\ sema[t] = "given"))
        => link \in {"up", "down"}

FailedIsDown(t) == tpc[t] \in {"free", "clear"} /\ result[t] = "ERROR" => link = "down"

AloneInv ==
    /\ ResultInv /\ ReadyListens
    /\ \A t \in Tasks : Listens(t) /\ Attempt(t) /\ WokenByEnd(t) /\ FailedIsDown(t)

-----------------------------------------------------------------------------
(* No event overtakes the caller: what the handlers record matches how far *)
(* the driver got.  A handshake of an earlier attempt may be recorded      *)
(* before the driver is asked to join.                                     *)
Before(t) ==
    /\ tpc[t] \in {"alloc", "ready"}
        => error_flag = "UNKNOWN" /\ rtw_join_status \in {{}, Handshaken}
    /\ tpc[t] = "started" => link \in {"joining", "down"}

Recorded ==
    CASE link = "joining" -> rtw_join_status \in {{}, Handshaken}
      [] link = "nonet" -> rtw_join_status = {"NO_NETWORKS"}
      [] link = "assoc" -> \/ sec = "WPA2" /\ rtw_join_status = {"READY"}
                           \/ sec = "TKIP" /\ rtw_join_status \in {{}, Handshaken}
      [] link = "up" -> \/ sec \in {"OPEN", "WEP"} /\ rtw_join_status = {"READY"}
                        \/ rtw_join_status = Handshaken
      [] link = "down" -> TRUE

(* What may be reported of the attempt that failed.                        *)
Reports == IF Known(cause) THEN {cause} ELSE Taken(cause)

Records(t) ==
    tpc[t] \in {"started", "wait", "woken", "free", "clear"}
        => /\ Recorded
           /\ error_flag \in (IF link = "down" THEN Reports ELSE {"UNKNOWN"})

(* A caller that was not woken has not been joined.                        *)
NotMissed(t) == tpc[t] = "wait" /\ sema[t] # "given" => link # "up"

QuietInv == AloneInv /\ \A t \in Tasks : Before(t) /\ Records(t) /\ NotMissed(t)

-----------------------------------------------------------------------------
Flags == {"NO_ERROR", "NONE_NETWORK", "CONNECT_FAIL", "WRONG_PASSWORD", "DHCP_FAIL",
          "UNKNOWN"}
Semas == {"none", "empty", "given", "deleted"}

(* Giving the semaphore changes that of the published call only, from      *)
(* empty to given.                                                         *)
GivesTo(u) ==
    /\ sema' \in [Tasks -> Semas]
    /\ \A t \in Tasks : \/ sema'[t] = sema[t]
                        \/ t = u /\ sema[t] = "empty" /\ sema'[t] = "given"

(* What a handler does to the semaphores through join_user_data.           *)
LEMMA GiveEffect ==
    ASSUME JoinTypeOK, GiveJoinSema
    PROVE  /\ GivesTo(join_user_data)
           /\ fault' \subseteq {"freed_result", "deleted_semaphore", "wild_free"}
<1>1. CASE join_user_data = NoTask
  BY <1>1 DEF JoinTypeOK, GiveJoinSema, GivesTo, Semas
<1>2. CASE join_user_data # NoTask
  <2>1. join_user_data \in Tasks
    BY <1>2 DEF JoinTypeOK
  <2> QED BY <1>2, <2>1 DEF JoinTypeOK, GiveJoinSema, GivesTo, Semas
<1> QED BY <1>1, <1>2

(* wifi_disconn_hdl stops DHCP, sets a reason and gives the semaphore.     *)
LEMMA DisconnEffect ==
    ASSUME JoinTypeOK, wifi_disconn_hdl
    PROVE  /\ GivesTo(join_user_data)
           /\ fault' \subseteq {"freed_result", "deleted_semaphore", "wild_free"}
           /\ error_flag' \in Flags /\ dhcp' \in {dhcp, Stopped}
<1>1. CASE "DISCONNECT" \in handlers
  <2>1. GiveJoinSema
    BY <1>1 DEF wifi_disconn_hdl
  <2>2. error_flag' \in Flags /\ dhcp' \in {dhcp, Stopped}
    BY <1>1 DEF wifi_disconn_hdl, DisconnReason, JoinTypeOK, Flags
  <2> QED BY <2>1, <2>2, GiveEffect
<1>2. CASE "DISCONNECT" \notin handlers
  BY <1>2 DEF wifi_disconn_hdl, JoinTypeOK, GivesTo, Flags, Semas
<1> QED BY <1>1, <1>2

(* wifi_connected_hdl and wifi_handshake_done_hdl record how far the join  *)
(* got and may give the semaphore.                                         *)
LEMMA ConnectedEffect ==
    ASSUME JoinTypeOK, wifi_connected_hdl
    PROVE  /\ GivesTo(join_user_data)
           /\ fault' \subseteq {"freed_result", "deleted_semaphore", "wild_free"}
           /\ rtw_join_status' \in {rtw_join_status, {"READY"}}
<1>1. CASE GiveJoinSema
  BY <1>1, GiveEffect DEF wifi_connected_hdl
<1>2. CASE ~GiveJoinSema
  BY <1>2 DEF wifi_connected_hdl, JoinTypeOK, GivesTo, Semas, FreedRead
<1> QED BY <1>1, <1>2

(* What wifi_handshake_done_hdl does to semaphores and rtw_join_status.    *)
LEMMA HandshakeEffect ==
    ASSUME JoinTypeOK, wifi_handshake_done_hdl
    PROVE  /\ GivesTo(join_user_data)
           /\ fault' \subseteq {"freed_result", "deleted_semaphore", "wild_free"}
           /\ rtw_join_status' \in {rtw_join_status, Handshaken}
<1>1. CASE GiveJoinSema
  BY <1>1, GiveEffect DEF wifi_handshake_done_hdl, Handshaken
<1>2. CASE ~GiveJoinSema
  BY <1>2 DEF wifi_handshake_done_hdl, JoinTypeOK, GivesTo, Semas
<1> QED BY <1>1, <1>2

-----------------------------------------------------------------------------
ClientOK(d) == d \in Client /\ d.tries <= MaxTries + 1

(* A stopped client, and one that has just sent, keep to the limit.        *)
LEMMA ClientSent ==
    ASSUME JoinTypeOK
    PROVE  /\ ClientOK(Stopped)
           /\ \A s \in {"SELECTING", "REQUESTING", "CHECKING", "BACKING_OFF"} :
                dhcp.state # s \/ dhcp.tries <= MaxTries => ClientOK(Sent(s))
<1>1. /\ MaxTries \in Nat /\ dhcp.tries \in Nat
      /\ dhcp.state \in {"OFF", "SELECTING", "REQUESTING", "CHECKING", "BACKING_OFF", "BOUND"}
  BY JoinAssumption DEF JoinTypeOK, Client
<1>2. ClientOK(Stopped)
  BY <1>1 DEF ClientOK, Stopped, Client
<1>3. ASSUME NEW s \in {"SELECTING", "REQUESTING", "CHECKING", "BACKING_OFF"},
             dhcp.state # s \/ dhcp.tries <= MaxTries
      PROVE  ClientOK(Sent(s))
  <2> DEFINE n == (IF dhcp.state = s THEN dhcp.tries ELSE 0) + 1
  <2>1. n \in Nat /\ n <= MaxTries + 1
    BY <1>1, <1>3
  <2>2. Sent(s) = [state |-> s, tries |-> n, timer |-> TRUE]
    BY DEF Sent
  <2> QED BY <2>1, <2>2 DEF ClientOK, Client
<1> QED BY <1>2, <1>3

(* The timer of the client, as long as LwIP_DHCP does not give up.         *)
LEMMA TimeoutEffect ==
    ASSUME JoinTypeOK, dhcp_timeout, dhcp.tries <= MaxTries
    PROVE  ClientOK(dhcp') /\ ip' \in {ip, "lease"}
<1>1. CASE dhcp' = [state |-> "BOUND", tries |-> 0, timer |-> FALSE]
  <2>1. MaxTries \in Nat
    BY JoinAssumption
  <2>2. ClientOK(dhcp')
    BY <1>1, <2>1 DEF ClientOK, Client
  <2> QED BY <2>2 DEF dhcp_timeout
<1>2. CASE dhcp' = Sent("SELECTING") \/ dhcp' = Sent("REQUESTING") \/ dhcp' = Sent("CHECKING")
  BY <1>2, ClientSent DEF dhcp_timeout
<1> QED BY <1>1, <1>2 DEF dhcp_timeout

(* The answers of servers and hosts.                                       *)
LEMMA ReplyEffect ==
    ASSUME JoinTypeOK, DhcpReply
    PROVE  /\ ClientOK(dhcp') /\ ip' \in {ip, "none"}
           /\ UNCHANGED <<shared, driver, task, fault>>
<1>1. CASE DhcpOffer
  <2>1. CASE dhcp' = Sent("REQUESTING")
    BY <1>1, <2>1, ClientSent DEF DhcpOffer, DhcpReply
  <2>2. CASE dhcp' = [dhcp EXCEPT !.timer = FALSE]
    BY <1>1, <2>2 DEF JoinTypeOK, ClientOK, Client, DhcpOffer, DhcpReply
  <2> QED BY <1>1, <2>1, <2>2 DEF DhcpOffer, DhcpReply
<1>2. CASE DhcpAck \/ dhcp_handle_nak \/ dhcp_arp_reply
  BY <1>2, ClientSent DEF DhcpReply, DhcpAck, dhcp_handle_nak, dhcp_arp_reply
<1> QED BY <1>1, <1>2 DEF DhcpReply

-----------------------------------------------------------------------------
(* The types hold initially.                                               *)
LEMMA JoinTypeInit == JoinInit => JoinTypeOK
<1> SUFFICES ASSUME JoinInit PROVE JoinTypeOK
  OBVIOUS
<1>1. (CHOOSE c \in Calls : TRUE) \in Calls
  BY JoinAssumption
<1>2. dhcp \in Client /\ dhcp.tries <= MaxTries + 1
  BY JoinAssumption DEF JoinInit, Stopped, Client
<1> QED BY <1>1, <1>2 DEF JoinInit, JoinTypeOK, Security

(* Every step keeps the types.                                             *)
LEMMA JoinTypeStep == JoinTypeOK /\ [JoinNext]_joinVars => JoinTypeOK'
<1> SUFFICES ASSUME JoinTypeOK, [JoinNext]_joinVars PROVE JoinTypeOK'
  OBVIOUS
<1> USE DEF Goto, Return, shared, driver, task, net, JoinHandlers, Security
<1>1. ASSUME NEW t \in Tasks, NEW c \in Calls, ConnectEnter(t, c) PROVE JoinTypeOK'
  BY <1>1 DEF ConnectEnter, JoinTypeOK
<1>2. ASSUME NEW t \in Tasks, SimpleConfigBegin(t) \/ SimpleConfigEnd(t) PROVE JoinTypeOK'
  <2>1. CASE SimpleConfigBegin(t)
    BY <2>1 DEF SimpleConfigBegin, JoinTypeOK
  <2>2. CASE SimpleConfigEnd(t)
    BY <2>2 DEF SimpleConfigEnd, JoinTypeOK
  <2> QED BY <1>2, <2>1, <2>2
<1>3. ASSUME NEW t \in Tasks, ConnectNoResource(t) PROVE JoinTypeOK'
  <2>1. fault' \subseteq {"freed_result", "deleted_semaphore", "wild_free"}
    BY <1>3 DEF ConnectNoResource, JoinTypeOK
  <2>2. /\ join_user_data' \in Tasks \cup {NoTask}
        /\ handlers' \in {{}, {"DISCONNECT"}, JoinHandlers \cup {"DISCONNECT"}}
    BY <1>3 DEF ConnectNoResource, JoinTypeOK
  <2> QED BY <1>3, <2>1, <2>2 DEF ConnectNoResource, JoinTypeOK
<1>4. ASSUME NEW t \in Tasks, ConnectReady(t) PROVE JoinTypeOK'
  BY <1>4 DEF ConnectReady, JoinTypeOK
<1>5. ASSUME NEW t \in Tasks, ConnectStart(t) PROVE JoinTypeOK'
  <2>1. call[t].sec \in Security
    BY JoinAssumption DEF JoinTypeOK, Call
  <2>2. CASE wifi_disconn_hdl
    BY <1>5, <2>1, <2>2, DisconnEffect, ClientSent
       DEF ConnectStart, JoinTypeOK, GivesTo, Semas, Flags, ClientOK
  <2>3. CASE UNCHANGED <<error_flag, dhcp, sema, fault>>
    BY <1>5, <2>1, <2>3 DEF ConnectStart, JoinTypeOK
  <2> QED BY <1>5, <2>2, <2>3 DEF ConnectStart
<1>6. ASSUME NEW t \in Tasks, ConnectIgnored(t) PROVE JoinTypeOK'
  BY <1>6 DEF ConnectIgnored, JoinTypeOK
<1>7. ASSUME NEW t \in Tasks, ConnectPublish(t) PROVE JoinTypeOK'
  BY <1>7 DEF ConnectPublish, JoinTypeOK
<1>8. ASSUME NEW t \in Tasks, ConnectWoken(t) PROVE JoinTypeOK'
  BY <1>8 DEF ConnectWoken, FreeAfterWait, JoinTypeOK
<1>9. ASSUME NEW t \in Tasks, ConnectTimeout(t) PROVE JoinTypeOK'
  BY <1>9 DEF ConnectTimeout, FreeAfterWait, AfterResult, JoinTypeOK
<1>10. ASSUME NEW t \in Tasks, ConnectCheck(t) \/ ConnectFreeSema(t) PROVE JoinTypeOK'
  <2>1. CASE ConnectCheck(t)
    BY <2>1 DEF ConnectCheck, AfterResult, JoinTypeOK
  <2>2. CASE ConnectFreeSema(t)
    BY <2>2 DEF ConnectFreeSema, JoinTypeOK
  <2> QED BY <1>10, <2>1, <2>2
<1>11. ASSUME NEW t \in Tasks, ConnectClear(t) PROVE JoinTypeOK'
  BY <1>11 DEF ConnectClear, JoinTypeOK
<1>12. ASSUME NEW t \in Tasks, DhcpStep(t) PROVE JoinTypeOK'
  <2>1. CASE DhcpStart(t)
    <3>1. ClientOK(dhcp')
      <4>1. ClientOK([state |-> "SELECTING", tries |-> 1, timer |-> TRUE])
        BY JoinAssumption DEF ClientOK, Client
      <4> QED BY <2>1, <4>1, ClientSent DEF DhcpStart
    <3> QED BY <2>1, <3>1 DEF DhcpStart, ClientOK, JoinTypeOK
  <2>2. CASE DhcpStopped(t) \/ DhcpAssigned(t) \/ DhcpBound(t)
    <3>1. /\ error_flag' \in {error_flag, "NO_ERROR"} /\ ip' \in {ip, "static"}
          /\ tpc' \in [Tasks -> {"idle", "alloc", "ready", "started", "wait", "woken", "free",
                                 "clear", "dhcp", "dhcp_wait", "dhcp_bound", "config"}]
          /\ UNCHANGED <<rtw_join_status, join_user_data, handlers, link, sec, cause, call,
                         result, jr, sema, dhcp, fault>>
      BY <2>2 DEF DhcpStopped, DhcpAssigned, DhcpBound, JoinTypeOK
    <3> QED BY <3>1 DEF JoinTypeOK
  <2>3. CASE DhcpTimeout(t)
    BY <2>3, ClientSent DEF DhcpTimeout, ClientOK, JoinTypeOK
  <2>4. CASE DhcpPoll(t)
    <3>1. ClientOK(dhcp') /\ ip' \in {ip, "lease"}
      BY <2>4, TimeoutEffect DEF DhcpPoll
    <3> QED BY <2>4, <3>1 DEF DhcpPoll, ClientOK, JoinTypeOK
  <2> QED BY <1>12, <2>1, <2>2, <2>3, <2>4 DEF DhcpStep
<1>13. CASE NoNetworkEvent \/ DhcpReply
  <2>1. CASE NoNetworkEvent
    BY <2>1 DEF NoNetworkEvent, wifi_no_network_hdl, JoinTypeOK
  <2>2. CASE DhcpReply
    <3>1. ClientOK(dhcp') /\ ip' \in {ip, "none"} /\ UNCHANGED <<shared, driver, task, fault>>
      BY <2>2, ReplyEffect
    <3> QED BY <3>1 DEF ClientOK, JoinTypeOK
  <2> QED BY <1>13, <2>1, <2>2
<1>14. CASE ConnectEvent
  <2>1. wifi_connected_hdl
    BY <1>14 DEF ConnectEvent
  <2>2. link' \in {"down", "joining", "nonet", "assoc", "up"}
    BY <1>14 DEF ConnectEvent
  <2>3. rtw_join_status' \subseteq {"NO_NETWORKS", "READY", "HANDSHAKE_DONE",
                                     "SIMPLE_CONFIG"}
    BY <2>1, ConnectedEffect DEF JoinTypeOK
  <2>4. /\ sema' \in [Tasks -> Semas]
        /\ fault' \subseteq {"freed_result", "deleted_semaphore", "wild_free"}
    BY <2>1, ConnectedEffect DEF GivesTo
  <2>5. UNCHANGED <<error_flag, join_user_data, handlers, sec, cause, tpc, call, result, jr,
                    dhcp, ip>>
    BY <1>14 DEF ConnectEvent
  <2> QED BY <2>2, <2>3, <2>4, <2>5 DEF JoinTypeOK, Semas
<1>15. CASE HandshakeEvent
  <2>1. wifi_handshake_done_hdl
    BY <1>15 DEF HandshakeEvent
  <2>2. rtw_join_status' \subseteq {"NO_NETWORKS", "READY", "HANDSHAKE_DONE",
                                     "SIMPLE_CONFIG"}
    BY <2>1, HandshakeEffect DEF Handshaken, JoinTypeOK
  <2> QED BY <1>15, <2>1, <2>2, HandshakeEffect
          DEF HandshakeEvent, JoinTypeOK, GivesTo, Semas
<1>16. CASE DisconnectEvent
  <2>1. cause' \in {"none", "NONE_NETWORK", "CONNECT_FAIL", "WRONG_PASSWORD", "LOST"}
    BY <1>16 DEF DisconnectEvent, LossReasons, JoinTypeOK
  <2> QED BY <1>16, <2>1, DisconnEffect, ClientSent
          DEF DisconnectEvent, JoinTypeOK, GivesTo, Semas, Flags, ClientOK
<1>17. CASE UNCHANGED joinVars
  BY <1>17 DEF joinVars, JoinTypeOK
<1> QED BY <1>1, <1>2, <1>3, <1>4, <1>5, <1>6, <1>7, <1>8, <1>9, <1>10, <1>11, <1>12,
           <1>13, <1>14, <1>15, <1>16, <1>17
        DEF JoinNext, ConnectStep, DriverStep, wifi_disconnect

(* The state has its types, whoever calls what and whatever the driver     *)
(* reports.                                                                *)
THEOREM JoinTypeCorrect == JoinSpec => []JoinTypeOK
<1> QED BY JoinTypeInit, JoinTypeStep, PTL DEF JoinSpec

-----------------------------------------------------------------------------
(* Nothing is published initially.                                         *)
LEMMA ResultInit == JoinInit => ResultInv
<1> SUFFICES ASSUME JoinInit PROVE ResultInv
  OBVIOUS
<1>1. Published /\ \A t \in Tasks : Holds(t)
  BY DEF JoinInit, Published, Holds, Held
<1> QED BY <1>1, JoinTypeInit DEF ResultInv

(* A step of the driver moves no task and gives at most the semaphore of   *)
(* the published call.                                                     *)
LEMMA DriverEffect ==
    ASSUME JoinTypeOK, DriverStep
    PROVE  /\ UNCHANGED <<join_user_data, handlers, sec, tpc, call, result, jr>>
           /\ GivesTo(join_user_data)
<1> USE DEF shared, driver, task, net
<1>1. CASE NoNetworkEvent
  BY <1>1 DEF NoNetworkEvent, GivesTo, JoinTypeOK, Semas
<1>2. CASE ConnectEvent
  BY <1>2, ConnectedEffect DEF ConnectEvent
<1>3. CASE HandshakeEvent
  BY <1>3, HandshakeEffect DEF HandshakeEvent
<1>4. CASE DisconnectEvent
  BY <1>4, DisconnEffect DEF DisconnectEvent
<1>5. CASE DhcpReply
  BY <1>5 DEF DhcpReply, GivesTo, JoinTypeOK, Semas
<1> QED BY <1>1, <1>2, <1>3, <1>4, <1>5 DEF DriverStep

(* Nothing but a semaphore given.                                          *)
LEMMA ResultGiven ==
    ASSUME ResultInv, UNCHANGED <<join_user_data, tpc, call, jr>>, GivesTo(join_user_data)
    PROVE  Published' /\ \A t \in Tasks : Holds(t)'
<1>1. Published'
  BY DEF ResultInv, Published
<1>2. ASSUME NEW t \in Tasks PROVE Holds(t)'
  <2>1. sema'[t] = sema[t] \/ (sema[t] = "empty" /\ sema'[t] = "given")
    BY DEF GivesTo
  <2>2. Holds(t)
    BY DEF ResultInv
  <2> QED BY <2>1, <2>2 DEF Holds, Held
<1> QED BY <1>1, <1>2

(* Every step, of any task, keeps what is behind join_user_data held.      *)
LEMMA ResultStep == ResultInv /\ [JoinNext]_joinVars => ResultInv'
<1> SUFFICES ASSUME ResultInv, [JoinNext]_joinVars
             PROVE  Published' /\ \A t \in Tasks : Holds(t)'
  BY JoinTypeStep DEF ResultInv
<1> USE DEF Goto, Return, shared, driver, task, net
<1>0. JoinTypeOK
  BY DEF ResultInv
<1>1. ASSUME NEW t \in Tasks, NEW c \in Calls, ConnectEnter(t, c)
      PROVE  Published' /\ \A u \in Tasks : Holds(u)'
  BY <1>0, <1>1 DEF ConnectEnter, ResultInv, Published, Holds, Held, JoinTypeOK
<1>2. ASSUME NEW t \in Tasks, SimpleConfigBegin(t) \/ SimpleConfigEnd(t)
      PROVE  Published' /\ \A u \in Tasks : Holds(u)'
  BY <1>0, <1>2 DEF SimpleConfigBegin, SimpleConfigEnd, ResultInv, Published, Holds, Held,
                    JoinTypeOK
<1>3. ASSUME NEW t \in Tasks, ConnectNoResource(t)
      PROVE  Published' /\ \A u \in Tasks : Holds(u)'
  BY <1>0, <1>3 DEF ConnectNoResource, ResultInv, Published, Holds, Held, JoinTypeOK
<1>4. ASSUME NEW t \in Tasks, ConnectReady(t)
      PROVE  Published' /\ \A u \in Tasks : Holds(u)'
  BY <1>0, <1>4 DEF ConnectReady, ResultInv, Published, Holds, Held, JoinTypeOK
<1>5. ASSUME NEW t \in Tasks, ConnectStart(t)
      PROVE  Published' /\ \A u \in Tasks : Holds(u)'
  <2>1. GivesTo(join_user_data)
    <3>1. CASE wifi_disconn_hdl
      BY <1>0, <3>1, DisconnEffect
    <3>2. CASE UNCHANGED sema
      BY <1>0, <3>2 DEF GivesTo, JoinTypeOK, Semas
    <3> QED BY <1>5, <3>1, <3>2 DEF ConnectStart
  <2>2. Published'
    BY <1>0, <1>5 DEF ConnectStart, ResultInv, Published, JoinTypeOK
  <2>3. ASSUME NEW u \in Tasks PROVE Holds(u)'
    <3>1. sema'[u] = sema[u] \/ (sema[u] = "empty" /\ sema'[u] = "given")
      BY <2>1 DEF GivesTo
    <3>2. Holds(u)
      BY DEF ResultInv
    <3> QED BY <1>0, <1>5, <3>1, <3>2 DEF ConnectStart, Holds, Held, JoinTypeOK
  <2> QED BY <2>2, <2>3
<1>6. ASSUME NEW t \in Tasks, ConnectIgnored(t)
      PROVE  Published' /\ \A u \in Tasks : Holds(u)'
  BY <1>0, <1>6 DEF ConnectIgnored, ResultInv, Published, Holds, Held, JoinTypeOK
<1>7. ASSUME NEW t \in Tasks, ConnectPublish(t)
      PROVE  Published' /\ \A u \in Tasks : Holds(u)'
  BY <1>0, <1>7 DEF ConnectPublish, ResultInv, Published, Holds, Held, JoinTypeOK
<1>8. ASSUME NEW t \in Tasks, ConnectWoken(t)
      PROVE  Published' /\ \A u \in Tasks : Holds(u)'
  BY <1>0, <1>8 DEF ConnectWoken, FreeAfterWait, ResultInv, Published, Holds, Held, JoinTypeOK
<1>9. ASSUME NEW t \in Tasks, ConnectTimeout(t)
      PROVE  Published' /\ \A u \in Tasks : Holds(u)'
  BY <1>0, <1>9 DEF ConnectTimeout, FreeAfterWait, AfterResult, ResultInv, Published, Holds,
                    Held, JoinTypeOK
<1>10. ASSUME NEW t \in Tasks, ConnectCheck(t)
       PROVE  Published' /\ \A u \in Tasks : Holds(u)'
  BY <1>0, <1>10 DEF ConnectCheck, AfterResult, ResultInv, Published, Holds, Held, JoinTypeOK
<1>11. ASSUME NEW t \in Tasks, ConnectFreeSema(t)
       PROVE  Published' /\ \A u \in Tasks : Holds(u)'
  BY <1>0, <1>11 DEF ConnectFreeSema, ResultInv, Published, Holds, Held, JoinTypeOK
<1>12. ASSUME NEW t \in Tasks, ConnectClear(t)
       PROVE  Published' /\ \A u \in Tasks : Holds(u)'
  BY <1>0, <1>12 DEF ConnectClear, ResultInv, Published, Holds, Held, JoinTypeOK
<1>13. ASSUME NEW t \in Tasks, DhcpStep(t)
       PROVE  Published' /\ \A u \in Tasks : Holds(u)'
  BY <1>0, <1>13 DEF DhcpStep, DhcpStart, DhcpStopped, DhcpAssigned,
          DhcpTimeout, DhcpPoll, DhcpBound, ResultInv, Published, Holds,
                     Held, JoinTypeOK
<1>14. CASE DriverStep
  BY <1>0, <1>14, DriverEffect, ResultGiven
<1>15. CASE UNCHANGED joinVars
  BY <1>15 DEF joinVars, ResultInv, Published, Holds
<1>16. ASSUME NEW t \in Tasks, wifi_disconnect(t) PROVE DriverStep
  BY <1>16 DEF wifi_disconnect, DriverStep
<1> QED BY <1>1, <1>2, <1>3, <1>4, <1>5, <1>6, <1>7, <1>8, <1>9, <1>10, <1>11, <1>12,
           <1>13, <1>14, <1>15, <1>16
        DEF JoinNext, ConnectStep

(* What is behind join_user_data is held by its call, whoever joins.       *)
THEOREM ResultHeld == JoinSpec => []ResultInv
<1> QED BY ResultInit, ResultStep, PTL DEF JoinSpec

(* The new faults f of a step are met in the window of the published call. *)
MetInWindow ==
    \A f \in (fault' \ fault) \ {"wild_free"} :
        /\ join_user_data # NoTask
        /\ tpc[join_user_data] \in Window(join_user_data)
        /\ f = "freed_result" => call[join_user_data].api = "bssid"

(* A call is one of the two APIs.                                          *)
LEMMA ApiOfCall == JoinTypeOK => \A t \in Tasks : call[t].api \in {"ssid", "bssid"}
  BY JoinAssumption DEF JoinTypeOK, Call

(* A handler that gives through join_user_data meets what is freed in the  *)
(* window only.                                                            *)
LEMMA GiveInWindow ==
    ASSUME ResultInv, GiveJoinSema PROVE MetInWindow
<1>1. CASE join_user_data = NoTask
  BY <1>1 DEF GiveJoinSema, MetInWindow
<1>2. CASE join_user_data # NoTask
  <2> DEFINE u == join_user_data
  <2>1. u \in Tasks
    BY <1>2 DEF ResultInv, JoinTypeOK
  <2>2. Holds(u) /\ tpc[u] \in {"wait", "woken", "free", "clear"}
    BY <1>2, <2>1 DEF ResultInv, Published
  <2>3. call[u].api \in {"ssid", "bssid"}
    BY <2>1, ApiOfCall DEF ResultInv
  <2>4. ASSUME jr[u] # "live" PROVE call[u].api = "bssid" /\ tpc[u] \in {"woken", "clear"}
    BY <2>2, <2>3, <2>4 DEF Holds, Held
  <2>5. ASSUME sema[u] \in {"none", "deleted"} PROVE tpc[u] \in Window(u)
    BY <2>2, <2>3, <2>5 DEF Holds, Held, Window
  <2> QED BY <1>2, <2>4, <2>5 DEF GiveJoinSema, MetInWindow, Window
<1> QED BY <1>1, <1>2

(* An event gives a deleted semaphore, or reads a freed join_result, only  *)
(* in the few statements between the call's free and the reset of          *)
(* join_user_data: for any number of tasks and calls, with or without      *)
(* waiting, and whether or not events overtake the caller.                 *)
THEOREM FreedInWindow == JoinSpec => FreedOnlyInWindow
<1>1. ResultInv /\ [JoinNext]_joinVars
        => [\A f \in (fault' \ fault) \ {"wild_free"} :
                /\ join_user_data # NoTask
                /\ tpc[join_user_data] \in Window(join_user_data)
                /\ f = "freed_result" => call[join_user_data].api = "bssid"]_joinVars
  <2> SUFFICES ASSUME ResultInv, JoinNext PROVE MetInWindow
    BY DEF MetInWindow
  <2> USE DEF Goto, Return, shared, driver, task, net
  <2>1. CASE UNCHANGED fault
    BY <2>1 DEF MetInWindow
  <2>2. CASE GiveJoinSema
    BY <2>2, GiveInWindow
  <2>3. ASSUME wifi_disconn_hdl PROVE MetInWindow
    BY <2>1, <2>2, <2>3 DEF wifi_disconn_hdl
  <2>4. ASSUME NEW t \in Tasks, ConnectNoResource(t) PROVE MetInWindow
    BY <2>4 DEF ConnectNoResource, MetInWindow
  <2>5. ASSUME NEW t \in Tasks, ConnectStart(t) PROVE MetInWindow
    BY <2>1, <2>3, <2>5 DEF ConnectStart
  <2>6. ASSUME ConnectEvent PROVE MetInWindow
    <3>1. CASE fault' = fault \cup FreedRead /\ join_user_data # NoTask
      <4>1. join_user_data \in Tasks
        BY <3>1 DEF ResultInv, JoinTypeOK
      <4>2. /\ Holds(join_user_data)
            /\ tpc[join_user_data] \in {"wait", "woken", "free", "clear"}
        BY <3>1, <4>1 DEF ResultInv, Published
      <4>3. call[join_user_data].api \in {"ssid", "bssid"}
        BY <4>1, ApiOfCall DEF ResultInv
      <4> QED BY <3>1, <4>2, <4>3 DEF FreedRead, Holds, Held, MetInWindow, Window
    <3> QED BY <2>1, <2>2, <2>6, <3>1 DEF ConnectEvent, wifi_connected_hdl
  <2>7. ASSUME HandshakeEvent PROVE MetInWindow
    BY <2>1, <2>2, <2>7 DEF HandshakeEvent, wifi_handshake_done_hdl
  <2>8. ASSUME DisconnectEvent PROVE MetInWindow
    BY <2>3, <2>8 DEF DisconnectEvent
  <2>9. ASSUME NoNetworkEvent \/ DhcpReply PROVE MetInWindow
    BY <2>1, <2>9 DEF NoNetworkEvent, DhcpReply
  <2>10. ASSUME NEW t \in Tasks, ConnectStep(t) PROVE MetInWindow
    BY <2>1, <2>4, <2>5, <2>10
       DEF ConnectStep, ConnectReady, ConnectIgnored, ConnectPublish, ConnectWoken,
           ConnectTimeout, ConnectCheck, ConnectFreeSema, ConnectClear
  <2>11. ASSUME NEW t \in Tasks, DhcpStep(t) PROVE MetInWindow
    BY <2>1, <2>11 DEF DhcpStep, DhcpStart, DhcpStopped, DhcpAssigned,
          DhcpTimeout, DhcpPoll, DhcpBound
  <2>12. ASSUME NEW t \in Tasks, SimpleConfigBegin(t) \/ SimpleConfigEnd(t) PROVE MetInWindow
    BY <2>1, <2>12 DEF SimpleConfigBegin, SimpleConfigEnd
  <2>13. ASSUME NEW t \in Tasks, NEW c \in Calls, ConnectEnter(t, c) PROVE MetInWindow
    BY <2>1, <2>13 DEF ConnectEnter
  <2> QED BY <2>6, <2>7, <2>8, <2>9, <2>10, <2>11, <2>12, <2>13
          DEF JoinNext, DriverStep, wifi_disconnect
<1> QED BY <1>1, ResultHeld, PTL DEF JoinSpec, FreedOnlyInWindow

-----------------------------------------------------------------------------
TaskInv(t) == Listens(t) /\ Attempt(t) /\ WokenByEnd(t) /\ FailedIsDown(t)

(* The invariant of the single task holds initially.                       *)
LEMMA AloneInit == JoinInit => AloneInv
<1> SUFFICES ASSUME JoinInit PROVE AloneInv
  OBVIOUS
<1>1. ReadyListens /\ \A t \in Tasks : TaskInv(t)
  BY DEF JoinInit, ReadyListens, TaskInv, Listens, Attempt, WokenByEnd, FailedIsDown, InCall
<1> QED BY <1>1, ResultInit DEF AloneInv, TaskInv

(* The reason of a lost link is never RTW_NO_ERROR unless it was before.   *)
LEMMA DisconnFlag ==
    ASSUME JoinTypeOK, wifi_disconn_hdl
    PROVE  /\ error_flag # "NO_ERROR" => error_flag' # "NO_ERROR"
           /\ error_flag' = "NO_ERROR" /\ "DISCONNECT" \in handlers => join_user_data # NoTask
           /\ "DISCONNECT" \notin handlers => error_flag' = error_flag
  BY DEF wifi_disconn_hdl, DisconnReason

(* The driver's events and their handlers keep it.                         *)
LEMMA AloneDriver ==
    ASSUME AloneInv, DriverStep
    PROVE  ReadyListens' /\ \A t \in Tasks : TaskInv(t)'
<1> USE DEF shared, driver, task, net, AllHandlers, JoinHandlers
<1>0. /\ JoinTypeOK /\ ReadyListens
      /\ \A t \in Tasks : TaskInv(t) /\ Holds(t)
  BY DEF AloneInv, ResultInv, TaskInv
<1>a. \A t \in Tasks : tpc[t] \in {"ready", "started"} => sema'[t] = sema[t]
  <2>1. Published /\ GivesTo(join_user_data) /\ join_user_data \in Tasks \cup {NoTask}
    BY <1>0, DriverEffect DEF AloneInv, ResultInv, JoinTypeOK
  <2> QED BY <2>1, JoinAssumption DEF Published, GivesTo
<1>1. /\ UNCHANGED <<join_user_data, handlers, sec, tpc, call, result, jr>>
      /\ GivesTo(join_user_data)
  BY <1>0, DriverEffect
<1>2. CASE NoNetworkEvent
  <2>1. UNCHANGED <<error_flag, cause, sema>> /\ link = "joining" /\ link' = "nonet"
    BY <1>2 DEF NoNetworkEvent
  <2>2. ReadyListens'
    BY <1>0, <1>1, <2>1 DEF ReadyListens
  <2>3. ASSUME NEW t \in Tasks PROVE TaskInv(t)'
    <3>1. TaskInv(t)
      BY <1>0
    <3> QED BY <1>a, <1>1, <2>1, <3>1
            DEF TaskInv, Listens, Attempt, WokenByEnd, FailedIsDown, InCall
  <2> QED BY <2>2, <2>3
<1>3. CASE ConnectEvent
  <2>1. /\ UNCHANGED <<error_flag, cause>> /\ link = "joining"
        /\ link' = IF sec \in {"OPEN", "WEP"} THEN "up" ELSE "assoc"
    BY <1>3 DEF ConnectEvent
  <2>2. ReadyListens'
    BY <1>0, <1>1, <2>1 DEF ReadyListens
  <2>3. ASSUME NEW t \in Tasks PROVE TaskInv(t)'
    <3>1. TaskInv(t)
      BY <1>0
    <3>2. Listens(t)' /\ Attempt(t)' /\ FailedIsDown(t)'
      BY <1>1, <2>1, <3>1 DEF TaskInv, Listens, Attempt, FailedIsDown, InCall
    <3>3. sema'[t] # sema[t] => t = join_user_data /\ call[t].sec \in {"OPEN", "WEP"}
      BY <1>0, <1>1, <1>3
         DEF ConnectEvent, wifi_connected_hdl, GiveJoinSema, Joiner, GivesTo
    <3>4. WokenByEnd(t)'
      BY <1>a, <1>1, <2>1, <3>1, <3>3 DEF TaskInv, Attempt, WokenByEnd
    <3> QED BY <3>2, <3>4 DEF TaskInv
  <2> QED BY <2>2, <2>3
<1>4. CASE HandshakeEvent
  <2>1. UNCHANGED <<error_flag, cause>> /\ link = "assoc" /\ link' = "up"
    BY <1>4 DEF HandshakeEvent
  <2>2. ReadyListens'
    BY <1>0, <1>1, <2>1 DEF ReadyListens
  <2>3. ASSUME NEW t \in Tasks PROVE TaskInv(t)'
    <3>1. TaskInv(t)
      BY <1>0
    <3> QED BY <1>a, <1>1, <2>1, <3>1
            DEF TaskInv, Listens, Attempt, WokenByEnd, FailedIsDown, InCall
  <2> QED BY <2>2, <2>3
<1>5. CASE DisconnectEvent
  <2>1. link' = "down" /\ wifi_disconn_hdl
    BY <1>5 DEF DisconnectEvent
  <2>2. ReadyListens'
    BY <1>0, <1>1, <2>1, DisconnFlag DEF ReadyListens
  <2>3. ASSUME NEW t \in Tasks PROVE TaskInv(t)'
    <3>1. TaskInv(t)
      BY <1>0
    <3> QED BY <1>0, <1>a, <1>1, <2>1, <3>1, DisconnFlag
            DEF TaskInv, Listens, Attempt, WokenByEnd, FailedIsDown, InCall
  <2> QED BY <2>2, <2>3
<1>6. CASE DhcpReply
  <2>1. UNCHANGED <<error_flag, link, cause, sema>>
    BY <1>6 DEF DhcpReply
  <2>2. ReadyListens'
    BY <1>0, <1>1, <2>1 DEF ReadyListens
  <2>3. ASSUME NEW t \in Tasks PROVE TaskInv(t)'
    <3>1. TaskInv(t)
      BY <1>0
    <3> QED BY <1>a, <1>1, <2>1, <3>1
            DEF TaskInv, Listens, Attempt, WokenByEnd, FailedIsDown, InCall
  <2> QED BY <2>2, <2>3
<1> QED BY <1>2, <1>3, <1>4, <1>5, <1>6 DEF DriverStep

(* A step of the only task.                                                *)
LEMMA AloneTask ==
    ASSUME Alone, AloneInv, NEW t \in Tasks,
           \/ \E c \in Calls : ConnectEnter(t, c)
           \/ SimpleConfigBegin(t) \/ SimpleConfigEnd(t)
           \/ ConnectStep(t) \/ DhcpStep(t)
    PROVE  ReadyListens' /\ TaskInv(t)'
<1> USE DEF Goto, Return, shared, driver, task, net, AllHandlers, JoinHandlers
<1> DEFINE Goal == ReadyListens' /\ TaskInv(t)'
<1>0. JoinTypeOK /\ ReadyListens /\ TaskInv(t) /\ Holds(t) /\ Published
  BY DEF AloneInv, ResultInv, TaskInv
<1>a. tpc[t] \notin {"wait", "woken", "free", "clear"} => join_user_data = NoTask
  BY <1>0 DEF Alone, Published, JoinTypeOK
<1>1. ASSUME NEW c \in Calls, ConnectEnter(t, c) PROVE Goal
  BY <1>0, <1>1 DEF ConnectEnter, JoinTypeOK, ReadyListens, TaskInv, Listens, Attempt,
                    WokenByEnd, FailedIsDown, InCall
<1>2. CASE SimpleConfigBegin(t) \/ SimpleConfigEnd(t)
  BY <1>0, <1>2 DEF SimpleConfigBegin, SimpleConfigEnd, JoinTypeOK, ReadyListens, TaskInv,
                    Listens, Attempt, WokenByEnd, FailedIsDown, InCall
<1>3. CASE ConnectNoResource(t)
  BY <1>0, <1>3 DEF ConnectNoResource, JoinTypeOK, ReadyListens, TaskInv, Listens, Attempt,
                    WokenByEnd, FailedIsDown, InCall
<1>4. CASE ConnectReady(t)
  BY <1>0, <1>4 DEF ConnectReady, JoinTypeOK, ReadyListens, TaskInv, Listens, Attempt,
                    WokenByEnd, FailedIsDown, InCall
<1>5. CASE ConnectStart(t)
  <2>1. tpc[t] = "ready" /\ tpc'[t] = "started" /\ UNCHANGED <<handlers, call, join_user_data>>
    BY <1>0, <1>5 DEF ConnectStart, JoinTypeOK
  <2>2. error_flag # "NO_ERROR"
    BY <1>0, <2>1 DEF TaskInv, Listens, InCall
  <2>3. error_flag' # "NO_ERROR"
    BY <1>0, <1>5, <2>2, DisconnFlag DEF ConnectStart
  <2>4. sec' = call'[t].sec /\ cause' = "none"
    BY <1>5 DEF ConnectStart
  <2>5. sema' = sema
    BY <1>a, <1>5, <2>1 DEF ConnectStart, wifi_disconn_hdl, GiveJoinSema
  <2> QED BY <1>0, <2>1, <2>3, <2>4, <2>5
          DEF ReadyListens, TaskInv, Listens, Attempt, WokenByEnd, FailedIsDown, InCall
<1>6. CASE ConnectIgnored(t)
  BY <1>0, <1>6 DEF ConnectIgnored, JoinTypeOK, ReadyListens, TaskInv, Listens, Attempt,
                    WokenByEnd, FailedIsDown, InCall
<1>7. CASE ConnectPublish(t)
  <2>1. tpc[t] = "started" /\ tpc'[t] \in {"wait", "clear"} /\ join_user_data' = t
    BY <1>0, <1>7 DEF ConnectPublish, JoinTypeOK
  <2>2. UNCHANGED <<error_flag, handlers, link, sec, cause, call, sema>>
    BY <1>7 DEF ConnectPublish
  <2>3. tpc'[t] = "clear" => result'[t] = "SUCCESS"
    BY <1>0, <1>7 DEF ConnectPublish, JoinTypeOK
  <2>4. sema[t] = "empty"
    BY <1>0, <2>1 DEF TaskInv, WokenByEnd
  <2> QED BY <1>0, <2>1, <2>2, <2>3, <2>4
          DEF ReadyListens, TaskInv, Listens, Attempt, WokenByEnd, FailedIsDown, InCall
<1>8. CASE ConnectWoken(t)
  <2>1. tpc[t] = "wait" /\ sema[t] = "given" /\ tpc'[t] = "woken"
    BY <1>0, <1>8 DEF ConnectWoken, JoinTypeOK
  <2>2. UNCHANGED <<shared, driver, call, result>>
    BY <1>8 DEF ConnectWoken
  <2> QED BY <1>0, <2>1, <2>2
          DEF ReadyListens, TaskInv, Listens, Attempt, WokenByEnd, FailedIsDown, InCall
<1>9. CASE ConnectTimeout(t)
  <2>1. tpc[t] = "wait" /\ tpc'[t] \in {"free", "clear"} /\ result'[t] = "TIMEOUT"
    BY <1>0, <1>9 DEF ConnectTimeout, AfterResult, JoinTypeOK
  <2>2. UNCHANGED <<shared, driver, call>>
    BY <1>9 DEF ConnectTimeout
  <2> QED BY <1>0, <2>1, <2>2
          DEF ReadyListens, TaskInv, Listens, Attempt, WokenByEnd, FailedIsDown, InCall
<1>10. CASE ConnectCheck(t)
  <2>1. /\ tpc[t] = "woken" /\ tpc'[t] \in {"free", "clear"}
        /\ result'[t] = IF link \in {"assoc", "up"} THEN "SUCCESS" ELSE "ERROR"
    BY <1>0, <1>10 DEF ConnectCheck, AfterResult, JoinTypeOK
  <2>2. UNCHANGED <<shared, driver, call>>
    BY <1>10 DEF ConnectCheck
  <2> QED BY <1>0, <2>1, <2>2
          DEF ReadyListens, TaskInv, Listens, Attempt, WokenByEnd, FailedIsDown, InCall
<1>11. CASE ConnectFreeSema(t)
  <2>1. tpc[t] = "free" /\ tpc'[t] = "clear" /\ UNCHANGED <<shared, driver, call, result>>
    BY <1>0, <1>11 DEF ConnectFreeSema, JoinTypeOK
  <2> QED BY <1>0, <2>1
          DEF ReadyListens, TaskInv, Listens, Attempt, WokenByEnd, FailedIsDown, InCall
<1>12. CASE ConnectClear(t)
  <2>1. /\ tpc[t] = "clear" /\ tpc'[t] \in {"dhcp", "idle"} /\ UNCHANGED error_flag
        /\ handlers' = handlers \ JoinHandlers
    BY <1>0, <1>12 DEF ConnectClear, JoinTypeOK
  <2> QED BY <1>0, <2>1
          DEF ReadyListens, TaskInv, Listens, Attempt, WokenByEnd, FailedIsDown, InCall
<1>13. CASE DhcpStep(t)
  BY <1>0, <1>13 DEF DhcpStep, DhcpStart, DhcpStopped, DhcpAssigned,
          DhcpTimeout, DhcpPoll, DhcpBound, JoinTypeOK, ReadyListens,
                     TaskInv, Listens, Attempt, WokenByEnd, FailedIsDown, InCall
<1> QED BY <1>1, <1>2, <1>3, <1>4, <1>5, <1>6, <1>7, <1>8, <1>9, <1>10, <1>11, <1>12,
           <1>13 DEF ConnectStep

(* Every step keeps it.                                                    *)
LEMMA AloneStep == Alone /\ AloneInv /\ [JoinNext]_joinVars => AloneInv'
<1> SUFFICES ASSUME Alone, AloneInv, [JoinNext]_joinVars
             PROVE  ReadyListens' /\ \A t \in Tasks : TaskInv(t)'
  BY ResultStep DEF AloneInv, TaskInv
<1>1. ASSUME NEW t \in Tasks,
             \/ \E c \in Calls : ConnectEnter(t, c)
             \/ SimpleConfigBegin(t) \/ SimpleConfigEnd(t)
             \/ ConnectStep(t) \/ DhcpStep(t)
      PROVE  ReadyListens' /\ \A u \in Tasks : TaskInv(u)'
  <2>1. ReadyListens' /\ TaskInv(t)'
    BY <1>1, AloneTask
  <2>2. \A u \in Tasks : u = t
    BY DEF Alone
  <2> QED BY <2>1, <2>2
<1>2. CASE DriverStep
  BY <1>2, AloneDriver
<1>3. ASSUME NEW t \in Tasks, wifi_disconnect(t) PROVE DriverStep
  BY <1>3 DEF wifi_disconnect, DriverStep
<1>4. CASE UNCHANGED joinVars
  BY <1>4 DEF AloneInv, joinVars, shared, driver, task, net, AllHandlers, JoinHandlers,
              ReadyListens, TaskInv, Listens, Attempt, WokenByEnd, FailedIsDown, InCall
<1> QED BY <1>1, <1>2, <1>3, <1>4 DEF JoinNext

(* With one task that joins, the handlers are registered and know it for   *)
(* as long as it waits.                                                    *)
THEOREM AloneCorrect == Alone => (JoinSpec => []AloneInv)
<1> SUFFICES ASSUME Alone PROVE JoinSpec => []AloneInv
  OBVIOUS
<1>1. AloneInv /\ [JoinNext]_joinVars => AloneInv'
  BY AloneStep
<1> QED BY <1>1, AloneInit, PTL DEF JoinSpec

(* A caller that waits itself is told RTW_SUCCESS only when the link is    *)
(* complete, the handshake included; events that overtake it do not change *)
(* that.                                                                   *)
THEOREM SuccessIsJoined ==
    Alone /\ (\A c \in Calls : c.own) => (JoinSpec => SuccessMeansJoined)
<1> SUFFICES ASSUME Alone, \A c \in Calls : c.own PROVE JoinSpec => SuccessMeansJoined
  OBVIOUS
<1>1. AloneInv /\ [JoinNext]_joinVars
        => [\A t \in Tasks : Decides(t, "SUCCESS") => link = "up"]_joinVars
  <2> SUFFICES ASSUME AloneInv, JoinNext, NEW t \in Tasks, Decides(t, "SUCCESS")
               PROVE  link = "up"
    OBVIOUS
  <2> USE DEF Goto, Return, shared, driver, task, net
  <2>1. JoinTypeOK /\ TaskInv(t)
    BY DEF AloneInv, ResultInv, TaskInv
  <2>2. result'[t] # result[t]
    BY DEF Decides
  <2>3. ~UNCHANGED result
    BY <2>2
  <2>4. ~DriverStep
    BY <2>1, <2>3, DriverEffect
  <2>5. PICK u \in Tasks : ConnectStep(u)
    BY <2>3, <2>4 DEF JoinNext, ConnectEnter, wifi_disconnect, DriverStep, SimpleConfigBegin,
                      SimpleConfigEnd, DhcpStep, DhcpStart, DhcpStopped, DhcpAssigned,
          DhcpTimeout, DhcpPoll, DhcpBound
  <2>6. u = t
    BY DEF Alone
  <2>7. ConnectCheck(t) \/ ConnectPublish(t) \/ ConnectTimeout(t) \/ ConnectClear(t)
    BY <2>3, <2>5, <2>6
       DEF ConnectStep, ConnectNoResource, ConnectReady, ConnectStart, ConnectIgnored,
           ConnectWoken, ConnectFreeSema
  <2>8. CASE ConnectCheck(t)
    BY <2>1, <2>8 DEF ConnectCheck, Decides, JoinTypeOK, TaskInv, WokenByEnd
  <2>9. CASE ConnectPublish(t)
    <3>1. call[t].own
      BY <2>1 DEF JoinTypeOK
    <3> QED BY <2>3, <2>9, <3>1 DEF ConnectPublish
  <2>10. CASE ConnectTimeout(t) \/ ConnectClear(t)
    BY <2>1, <2>10 DEF ConnectTimeout, ConnectClear, Decides, JoinTypeOK
  <2> QED BY <2>7, <2>8, <2>9, <2>10
<1> QED BY <1>1, AloneCorrect, PTL DEF JoinSpec, SuccessMeansJoined

(* RTW_NO_ERROR is left behind on a lost link only when the link is lost   *)
(* between the two statements of LwIP_DHCP that read the address and set   *)
(* error_flag.                                                             *)
THEOREM ReadyIsConnected == Alone => (JoinSpec => ReadyMeansConnected)
<1> SUFFICES ASSUME Alone PROVE JoinSpec => ReadyMeansConnected
  OBVIOUS
<1>1. AloneInv /\ [JoinNext]_joinVars
        => [~ReadyButDown /\ ReadyButDown' => \E t \in Tasks : tpc[t] = "dhcp_bound"
                                                /\ tpc'[t] # "dhcp_bound"]_joinVars
  <2> SUFFICES ASSUME AloneInv, JoinNext, ~ReadyButDown, ReadyButDown'
               PROVE  \E t \in Tasks : tpc[t] = "dhcp_bound" /\ tpc'[t] # "dhcp_bound"
    OBVIOUS
  <2> USE DEF Goto, Return, shared, driver, task, net
  <2>1. /\ JoinTypeOK /\ Published /\ ReadyListens
        /\ \A t \in Tasks : TaskInv(t)
    BY DEF AloneInv, ResultInv, TaskInv
  <2>2. error_flag' = "NO_ERROR" /\ link' # "up" /\ (error_flag # "NO_ERROR" \/ link = "up")
    BY DEF ReadyButDown
  <2>3. CASE DriverStep
    <3>1. ~UNCHANGED <<error_flag, link>>
      BY <2>2
    <3>2. DisconnectEvent
      BY <2>2, <2>3, <3>1 DEF DriverStep, NoNetworkEvent, ConnectEvent, HandshakeEvent,
                              DhcpReply
    <3>3. wifi_disconn_hdl
      BY <3>2 DEF DisconnectEvent
    <3>4. error_flag = "NO_ERROR" /\ "DISCONNECT" \in handlers
      BY <2>1, <2>2, <3>3, DisconnFlag DEF ReadyListens
    <3>5. join_user_data # NoTask
      BY <2>1, <2>2, <3>3, <3>4, DisconnFlag
    <3>6. join_user_data \in Tasks
      BY <2>1, <3>5 DEF JoinTypeOK
    <3> QED BY <2>1, <3>4, <3>5, <3>6 DEF Published, TaskInv, Listens, InCall
  <2>4. ASSUME NEW t \in Tasks, ConnectStart(t) PROVE FALSE
    <3>1. error_flag # "NO_ERROR"
      BY <2>1, <2>4 DEF ConnectStart, TaskInv, Listens, InCall
    <3> QED BY <2>1, <2>2, <2>4, <3>1, DisconnFlag DEF ConnectStart
  <2>5. ASSUME NEW t \in Tasks, ConnectStep(t) PROVE FALSE
    BY <2>2, <2>4, <2>5
       DEF ConnectStep, ConnectNoResource, ConnectReady, ConnectIgnored, ConnectPublish,
           ConnectWoken, ConnectTimeout, ConnectCheck, ConnectFreeSema, ConnectClear
  <2>6. ASSUME NEW t \in Tasks, NEW c \in Calls, ConnectEnter(t, c) PROVE FALSE
    BY <2>2, <2>6 DEF ConnectEnter
  <2>7. ASSUME NEW t \in Tasks, SimpleConfigBegin(t) \/ SimpleConfigEnd(t) PROVE FALSE
    BY <2>2, <2>7 DEF SimpleConfigBegin, SimpleConfigEnd
  <2>8. ASSUME NEW t \in Tasks, DhcpStep(t), ~DhcpBound(t) PROVE FALSE
    BY <2>2, <2>8 DEF DhcpStep, DhcpStart, DhcpStopped, DhcpAssigned, DhcpTimeout, DhcpPoll
  <2>9. ASSUME NEW t \in Tasks, DhcpBound(t)
        PROVE  tpc[t] = "dhcp_bound" /\ tpc'[t] # "dhcp_bound"
    BY <2>1, <2>9 DEF DhcpBound, JoinTypeOK
  <2> QED BY <2>3, <2>5, <2>6, <2>7, <2>8, <2>9 DEF JoinNext, wifi_disconnect,
                                                    DriverStep
<1> QED BY <1>1, AloneCorrect, PTL DEF JoinSpec, ReadyMeansConnected

-----------------------------------------------------------------------------
QuietTask(t) == Before(t) /\ Records(t) /\ NotMissed(t)

(* The record of the join is right initially.                              *)
LEMMA QuietInit == JoinInit => QuietInv
<1> SUFFICES ASSUME JoinInit PROVE QuietInv
  OBVIOUS
<1>1. \A t \in Tasks : QuietTask(t)
  BY DEF JoinInit, QuietTask, Before, Records, NotMissed
<1> QED BY <1>1, AloneInit DEF QuietInv, QuietTask

(* How the driver's events leave a caller that they do not overtake.       *)
LEMMA QuietDriver ==
    ASSUME Alone, ~EarlyEvents, QuietInv, DriverStep, NEW t \in Tasks
    PROVE  QuietTask(t)'
<1> USE DEF shared, driver, task, net, AllHandlers, JoinHandlers, Handshaken
<1>1. JoinTypeOK /\ Published /\ Holds(t) /\ TaskInv(t) /\ QuietTask(t)
  BY DEF QuietInv, AloneInv, ResultInv, TaskInv, QuietTask
<1>2. tpc[t] \in {"alloc", "ready"} => join_user_data = NoTask
  BY <1>1 DEF Alone, Published, JoinTypeOK
<1>3. tpc[t] \in {"wait", "woken", "free", "clear"}
        => join_user_data = t /\ t # NoTask /\ handlers = AllHandlers
  BY <1>1, JoinAssumption DEF TaskInv, Listens
<1>4. UNCHANGED <<join_user_data, handlers, sec, tpc, call, result, jr>>
  BY <1>1, DriverEffect
<1>5. tpc[t] \in {"wait", "woken", "free", "clear"} /\ link # "down"
        => sec = call[t].sec /\ cause = "none"
  BY <1>1 DEF TaskInv, Attempt
<1>6. tpc[t] = "wait" => sema[t] \in {"empty", "given"}
  BY <1>1 DEF Holds, Held
<1>7. CASE DhcpReply
  BY <1>1, <1>4, <1>7 DEF DhcpReply, QuietTask, Before, Records, Recorded, Reports,
                           Known, Taken, NotMissed
<1>8. CASE ~DhcpReply
  <2>1. tpc[t] # "started"
    BY <1>8 DEF DriverStep, NoNetworkEvent, ConnectEvent, HandshakeEvent, DisconnectEvent,
                EventsMayCome
  <2>2. CASE NoNetworkEvent
    <3>1. link = "joining" /\ link' = "nonet" /\ UNCHANGED <<error_flag, cause, sema>>
      BY <2>2 DEF NoNetworkEvent
    <3>2. /\ tpc[t] \in {"alloc", "ready"} => rtw_join_status' = rtw_join_status
          /\ tpc[t] \in {"wait", "woken", "free", "clear"} => rtw_join_status' = {"NO_NETWORKS"}
      BY <1>2, <1>3, <2>2 DEF NoNetworkEvent, wifi_no_network_hdl
    <3> QED BY <1>1, <1>4, <2>1, <3>1, <3>2
            DEF QuietTask, Before, Records, Recorded, Reports, Known, Taken, NotMissed
  <2>3. CASE ConnectEvent
    <3>1. /\ link = "joining" /\ UNCHANGED <<error_flag, cause>>
          /\ link' = IF sec \in {"OPEN", "WEP"} THEN "up" ELSE "assoc"
      BY <2>3 DEF ConnectEvent
    <3>2. tpc[t] \in {"alloc", "ready"} => rtw_join_status' = rtw_join_status
      BY <1>2, <2>3 DEF ConnectEvent, wifi_connected_hdl
    <3>3. tpc[t] \in {"wait", "woken", "free", "clear"}
            => rtw_join_status' = IF sec = "TKIP" THEN rtw_join_status ELSE {"READY"}
      BY <1>3, <1>5, <2>3, <3>1 DEF ConnectEvent, wifi_connected_hdl, Joiner
    <3>4. tpc[t] = "wait" /\ sec \in {"OPEN", "WEP"} => sema'[t] = "given"
      BY <1>1, <1>3, <1>5, <1>6, <2>3, <3>1
         DEF ConnectEvent, wifi_connected_hdl, Joiner, GiveJoinSema, JoinTypeOK
    <3>5. sec \in {"OPEN", "WEP", "WPA2", "TKIP"}
      BY <1>1 DEF JoinTypeOK, Security
    <3>6. Before(t)'
      BY <1>1, <1>4, <2>1, <3>1, <3>2 DEF QuietTask, Before
    <3>7. Records(t)'
      BY <1>1, <1>4, <2>1, <3>1, <3>3, <3>5 DEF QuietTask, Records, Recorded
    <3>8. NotMissed(t)'
      BY <1>4, <3>1, <3>4 DEF NotMissed
    <3> QED BY <3>6, <3>7, <3>8 DEF QuietTask
  <2>4. CASE HandshakeEvent
    <3>1. link = "assoc" /\ link' = "up" /\ UNCHANGED <<error_flag, cause>>
      BY <2>4 DEF HandshakeEvent
    <3>2. rtw_join_status' \in {rtw_join_status, Handshaken}
      BY <1>1, <2>4, HandshakeEffect DEF HandshakeEvent
    <3>3. tpc[t] \in {"wait", "woken", "free", "clear"} => rtw_join_status' = Handshaken
      BY <1>3, <2>4 DEF HandshakeEvent, wifi_handshake_done_hdl
    <3>4. tpc[t] = "wait" => sema'[t] = "given"
      BY <1>1, <1>3, <1>6, <2>4
         DEF HandshakeEvent, wifi_handshake_done_hdl, GiveJoinSema, JoinTypeOK
    <3> QED BY <1>1, <1>4, <2>1, <3>1, <3>2, <3>3, <3>4
            DEF QuietTask, Before, Records, Recorded, Reports, Known, Taken, NotMissed
  <2>5. CASE DisconnectEvent
    <3>1. /\ link # "down" /\ link' = "down" /\ cause' \in LossReasons /\ wifi_disconn_hdl
          /\ UNCHANGED rtw_join_status
      BY <2>5 DEF DisconnectEvent
    <3>2. tpc[t] \in {"alloc", "ready"} => error_flag' = "UNKNOWN"
      BY <1>1, <1>2, <3>1 DEF wifi_disconn_hdl, QuietTask, Before
    <3>3. ASSUME tpc[t] \in {"wait", "woken", "free", "clear"}
          PROVE  error_flag' \in Reports'
      <4>1. error_flag' = DisconnReason /\ Joiner.sec = sec /\ cause = "none"
        BY <1>3, <1>5, <3>1, <3>3 DEF wifi_disconn_hdl, Joiner
      <4>2. error_flag = "UNKNOWN" /\ Recorded
        BY <1>1, <3>1, <3>3 DEF QuietTask, Records
      <4>3. link \in {"joining", "nonet", "assoc", "up"}
        BY <1>1, <3>1 DEF JoinTypeOK
      <4>4. CASE link = "joining"
        BY <1>4, <3>1, <4>1, <4>2, <4>4 DEF DisconnReason, LossReasons, Recorded, Reports,
                                                   Known, Taken
      <4>5. CASE link = "nonet"
        BY <1>4, <3>1, <4>1, <4>2, <4>5 DEF DisconnReason, LossReasons, Recorded, Reports,
                                                   Known, Taken
      <4>6. CASE link = "assoc"
        BY <1>4, <3>1, <4>1, <4>2, <4>6 DEF DisconnReason, LossReasons, Recorded, Reports,
                                                   Known, Taken
      <4>7. CASE link = "up"
        BY <1>4, <3>1, <4>1, <4>2, <4>7 DEF DisconnReason, LossReasons, Recorded, Reports,
                                                   Known, Taken
      <4> QED BY <4>3, <4>4, <4>5, <4>6, <4>7
    <3> QED BY <1>1, <1>4, <2>1, <3>1, <3>2, <3>3
            DEF QuietTask, Before, Records, Recorded, Reports, Known, Taken, NotMissed
  <2> QED BY <1>8, <2>2, <2>3, <2>4, <2>5 DEF DriverStep
<1> QED BY <1>7, <1>8

(* The steps of the joining task keep it right.                            *)
LEMMA QuietTaskStep ==
    ASSUME Alone, ~EarlyEvents, QuietInv, NEW t \in Tasks,
           \/ \E c \in Calls : ConnectEnter(t, c)
           \/ SimpleConfigBegin(t) \/ SimpleConfigEnd(t)
           \/ ConnectStep(t) \/ DhcpStep(t)
    PROVE  QuietTask(t)'
<1> USE DEF Goto, Return, shared, driver, task, net, Handshaken
<1>0. JoinTypeOK /\ Published /\ Holds(t) /\ TaskInv(t) /\ QuietTask(t)
  BY DEF QuietInv, AloneInv, ResultInv, TaskInv, QuietTask
<1>a. tpc[t] \notin {"wait", "woken", "free", "clear"} => join_user_data = NoTask
  BY <1>0 DEF Alone, Published, JoinTypeOK
<1>1. ASSUME NEW c \in Calls, ConnectEnter(t, c) PROVE QuietTask(t)'
  BY <1>0, <1>1 DEF ConnectEnter, JoinTypeOK, QuietTask, Before, Records, NotMissed
<1>2. CASE SimpleConfigBegin(t) \/ SimpleConfigEnd(t)
  BY <1>0, <1>2 DEF SimpleConfigBegin, SimpleConfigEnd, JoinTypeOK, QuietTask, Before,
                    Records, NotMissed
<1>3. CASE ConnectNoResource(t)
  BY <1>0, <1>3 DEF ConnectNoResource, JoinTypeOK, QuietTask, Before, Records, NotMissed
<1>4. CASE ConnectReady(t)
  BY <1>0, <1>4 DEF ConnectReady, JoinTypeOK, QuietTask, Before, Records, NotMissed
<1>5. CASE ConnectStart(t)
  <2>1. tpc[t] = "ready" /\ tpc'[t] = "started" /\ link' = "joining"
    BY <1>0, <1>5 DEF ConnectStart, JoinTypeOK
  <2>2. error_flag' = "UNKNOWN"
    BY <1>0, <1>a, <1>5, <2>1 DEF ConnectStart, wifi_disconn_hdl, QuietTask, Before
  <2>3. rtw_join_status' \in {{}, Handshaken}
    BY <1>0, <1>5, <2>1 DEF ConnectStart, QuietTask, Before
  <2> QED BY <2>1, <2>2, <2>3 DEF QuietTask, Before, Records, Recorded, Reports, Known,
                                  Taken, NotMissed
<1>6. CASE ConnectIgnored(t)
  <2>1. tpc[t] = "ready" /\ tpc'[t] = "started" /\ link' = "down"
    BY <1>0, <1>6 DEF ConnectIgnored, JoinTypeOK
  <2>2. error_flag' = "UNKNOWN"
    BY <1>0, <1>6, <2>1 DEF ConnectIgnored, QuietTask, Before
  <2>3. cause' = "CONNECT_FAIL"
    BY <1>6 DEF ConnectIgnored
  <2> QED BY <2>1, <2>2, <2>3 DEF QuietTask, Before, Records, Recorded, Reports, Known,
                                  Taken, NotMissed
<1>7. CASE ConnectPublish(t)
  <2>1. /\ tpc[t] = "started" /\ tpc'[t] \in {"wait", "clear"}
        /\ UNCHANGED <<error_flag, rtw_join_status, link, sec, cause>>
    BY <1>0, <1>7 DEF ConnectPublish, JoinTypeOK
  <2> QED BY <1>0, <2>1 DEF QuietTask, Before, Records, Recorded, Reports, Known, Taken, NotMissed
<1>8. CASE ConnectWoken(t) \/ ConnectTimeout(t) \/ ConnectCheck(t) \/ ConnectFreeSema(t)
  <2>1. /\ tpc[t] \in {"wait", "woken", "free"} /\ tpc'[t] \in {"woken", "free", "clear"}
        /\ UNCHANGED <<error_flag, rtw_join_status, link, sec, cause>>
    BY <1>0, <1>8 DEF ConnectWoken, ConnectTimeout, ConnectCheck, ConnectFreeSema,
                      AfterResult, JoinTypeOK
  <2> QED BY <1>0, <2>1 DEF QuietTask, Before, Records, Recorded, Reports, Known, Taken, NotMissed
<1>9. CASE ConnectClear(t) \/ DhcpStep(t)
  <2>1. tpc'[t] \in {"idle", "dhcp", "dhcp_wait", "dhcp_bound"}
    BY <1>0, <1>9 DEF ConnectClear, DhcpStep, DhcpStart, DhcpStopped, DhcpAssigned,
          DhcpTimeout, DhcpPoll, DhcpBound, JoinTypeOK
  <2> QED BY <2>1 DEF QuietTask, Before, Records, NotMissed
<1> QED BY <1>1, <1>2, <1>3, <1>4, <1>5, <1>6, <1>7, <1>8, <1>9 DEF ConnectStep

(* Every step keeps it right, when no event overtakes the task.            *)
LEMMA QuietStep ==
    Alone /\ ~EarlyEvents /\ QuietInv /\ [JoinNext]_joinVars => QuietInv'
<1> SUFFICES ASSUME Alone, ~EarlyEvents, QuietInv, [JoinNext]_joinVars
             PROVE  \A t \in Tasks : QuietTask(t)'
  BY AloneStep DEF QuietInv, QuietTask
<1>1. ASSUME NEW t \in Tasks,
             \/ \E c \in Calls : ConnectEnter(t, c)
             \/ SimpleConfigBegin(t) \/ SimpleConfigEnd(t)
             \/ ConnectStep(t) \/ DhcpStep(t)
      PROVE  \A u \in Tasks : QuietTask(u)'
  <2>1. QuietTask(t)'
    BY <1>1, QuietTaskStep
  <2>2. \A u \in Tasks : u = t
    BY DEF Alone
  <2> QED BY <2>1, <2>2
<1>2. CASE DriverStep
  BY <1>2, QuietDriver
<1>3. ASSUME NEW t \in Tasks, wifi_disconnect(t) PROVE DriverStep
  BY <1>3 DEF wifi_disconnect, DriverStep
<1>4. CASE UNCHANGED joinVars
  BY <1>4 DEF QuietInv, joinVars, shared, driver, task, net, Handshaken,
              QuietTask, Before, Records, Recorded, Reports, Known, Taken, NotMissed
<1> QED BY <1>1, <1>2, <1>3, <1>4 DEF JoinNext

(* With one task, and no event before join_user_data is set, the handlers' *)
(* record of the join always matches how far the driver got.               *)
THEOREM QuietCorrect == Alone /\ ~EarlyEvents => (JoinSpec => []QuietInv)
<1> SUFFICES ASSUME Alone, ~EarlyEvents PROVE JoinSpec => []QuietInv
  OBVIOUS
<1>1. QuietInv /\ [JoinNext]_joinVars => QuietInv'
  BY QuietStep
<1> QED BY <1>1, QuietInit, PTL DEF JoinSpec

(* What the caller of a failed join is told, pieced together from three    *)
(* events, is what went wrong or one of the two failures that look alike,  *)
(* whichever of the things that may go wrong at each stage did.            *)
THEOREM FailureIsReported ==
    Alone /\ ~EarlyEvents => (JoinSpec => []FailureReported)
<1> SUFFICES ASSUME Alone, ~EarlyEvents PROVE JoinSpec => []FailureReported
  OBVIOUS
<1>1. QuietInv => FailureReported
  BY DEF QuietInv, AloneInv, FailedIsDown, Records, Reports, FailureReported
<1> QED BY <1>1, QuietCorrect, PTL

(* A caller never times out on a join that the driver has completed.       *)
THEOREM TimeoutIsNotJoined ==
    Alone /\ ~EarlyEvents => (JoinSpec => TimeoutMeansNotJoined)
<1> SUFFICES ASSUME Alone, ~EarlyEvents PROVE JoinSpec => TimeoutMeansNotJoined
  OBVIOUS
<1>1. QuietInv /\ [JoinNext]_joinVars
        => [\A t \in Tasks : Decides(t, "TIMEOUT") => (link # "up" \/ cause # "none")]_joinVars
  <2> SUFFICES ASSUME QuietInv, JoinNext, NEW t \in Tasks, Decides(t, "TIMEOUT")
               PROVE  link # "up"
    OBVIOUS
  <2> USE DEF Goto, Return, shared, driver, task, net
  <2>1. JoinTypeOK /\ NotMissed(t)
    BY DEF QuietInv, AloneInv, ResultInv
  <2>2. ~UNCHANGED result
    BY DEF Decides
  <2>3. ~DriverStep
    BY <2>1, <2>2, DriverEffect
  <2>4. PICK u \in Tasks : ConnectStep(u)
    BY <2>2, <2>3 DEF JoinNext, ConnectEnter, wifi_disconnect, DriverStep, SimpleConfigBegin,
                      SimpleConfigEnd, DhcpStep, DhcpStart, DhcpStopped, DhcpAssigned,
          DhcpTimeout, DhcpPoll, DhcpBound
  <2>5. u = t
    BY DEF Alone
  <2>6. ConnectTimeout(t) \/ ConnectCheck(t) \/ ConnectPublish(t) \/ ConnectClear(t)
    BY <2>2, <2>4, <2>5
       DEF ConnectStep, ConnectNoResource, ConnectReady, ConnectStart, ConnectIgnored,
           ConnectWoken, ConnectFreeSema
  <2>7. CASE ConnectTimeout(t)
    BY <2>1, <2>7 DEF ConnectTimeout, NotMissed
  <2>8. CASE ConnectCheck(t) \/ ConnectPublish(t) \/ ConnectClear(t)
    BY <2>1, <2>8 DEF ConnectCheck, ConnectPublish, ConnectClear, Decides, JoinTypeOK
  <2> QED BY <2>6, <2>7, <2>8
<1> QED BY <1>1, QuietCorrect, PTL DEF JoinSpec, TimeoutMeansNotJoined
=============================================================================
