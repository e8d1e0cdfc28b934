----------------------------- MODULE MqttClient -----------------------------
(***************************************************************************)
(* The MQTT client task (component/common/application/mqtt/MQTTClient/     *)
(* MQTTClient.c and MQTTFreertos.c, driven by prvMQTTTask of               *)
(* example/mqtt/example_mqtt.c), built with MQTT_TASK: nothing waits for   *)
(* an acknowledgement, MQTTDataHandle is a state machine instead.          *)
(*                                                                         *)
(* One turn of the task is select (pc "select"), MQTTDataHandle ("handle") *)
(* and, while it runs, keepalive ("keepalive"); "fault" is the task after  *)
(* lwip_select wrote through a null pointer.  The path to the broker and   *)
(* the broker are external.  Packets are whole; where the code             *)
(* loses the frame of the stream (readPacket ignores that the length did   *)
(* not arrive in time) frame becomes FALSE and the packets read from then  *)
(* on are arbitrary.                                                       *)
(***************************************************************************)
EXTENDS Integers, Sequences, FiniteSets

CONSTANTS
    NumSockets,     \* sockets of lwIP (MEMP_NUM_NETCONN)
    Ids,            \* packet identifiers the broker uses
    MaxQueue,       \* packets TCP takes, and packets under way (bound)
    MaxFaults,      \* failures of network, broker and name server (bound)
    PingSendFails   \* the connection may fail while a PINGREQ is sent

ASSUME MqttAssumption ==
    /\ NumSockets \in Nat \ {0, 1}
    /\ 0 \notin Ids
    /\ MaxQueue \in Nat \ {0} /\ MaxFaults \in Nat
    /\ PingSendFails \in BOOLEAN

Fds == 0 .. (NumSockets - 1)

VARIABLES
    pc,
    status,             \* mqttstatus
    isconnected,
    my_socket,          \* descriptor or -1
    rxevent,            \* mqtt_rxevent: select found the socket readable
    ping_outstanding,
    cmd_timer,          \* cmd_timer is expired
    ping_timer,         \* ping_timer is expired
    handler,            \* messageHandlers holds the topic
    delivered,          \* messages of this connection given to the handler
    owner,              \* socket table: "free", "mqtt" or "other" task
    link,               \* the connection: none, up, lost, closed or reset
    rx, tx,             \* packets from and to the broker
    frame,              \* the next byte of rx starts a packet
    session,            \* broker: none, connected or refused
    subscribed,         \* broker: the subscription is granted
    unacked,            \* broker: messages sent and not yet acknowledged
    faults

clientVars == <<status, isconnected, my_socket, rxevent, ping_outstanding, cmd_timer,
                ping_timer, handler, delivered>>
netVars == <<owner, link, rx, tx, frame>>
brokerVars == <<session, subscribed, unacked>>
mqttVars == <<pc, clientVars, netVars, brokerVars, faults>>

Types == {"CONNACK", "SUBACK", "PUBLISH", "PUBACK", "PUBREC", "PUBREL", "PUBCOMP",
          "PINGRESP", "UNSUBACK"}
Packet(t) == [type |-> t, id |-> 0, qos |-> 0]
Ack(t, i) == [type |-> t, id |-> i, qos |-> 0]
Publish(i, q) == [type |-> "PUBLISH", id |-> i, qos |-> q]
NoPacket == Packet("NONE")
Refused == 128      \* 0x80, the granted QoS of a refused subscription

Fault == faults < MaxFaults /\ faults' = faults + 1

-----------------------------------------------------------------------------
(* FreeRTOS_disconnect; lwIP frees the descriptor, whoever's it is.        *)
Freed == IF my_socket = -1 THEN owner ELSE [owner EXCEPT ![my_socket] = "free"]

FreeRTOS_disconnect ==
    /\ owner' = Freed
    /\ my_socket' = -1
    /\ link' = "none" /\ tx' = <<>>

(* Mutant: the window is not respected.                                    *)
WindowOpen_always == TRUE

(* TCP takes the bytes of one more packet.                                 *)
WindowOpen == Len(tx) < MaxQueue

(* sendPacket: "ok", also if the bytes will never arrive, or "error" with  *)
(* the disconnect of FreeRTOS_write.  There is no send timeout in this     *)
(* build (LWIP_SO_SNDTIMEO is 0): while TCP takes no more bytes, send      *)
(* blocks and the step waits.                                              *)
sendPacket(p, rc) ==
    \/ /\ rc = "ok" /\ link \in {"up", "lost", "closed"} /\ WindowOpen
       /\ tx' = IF link = "up" THEN Append(tx, p) ELSE tx
       /\ ping_timer' = FALSE
       /\ UNCHANGED <<my_socket, owner, link, isconnected>>
    \/ /\ rc = "error" /\ link \in {"none", "lost", "closed", "reset"}
       /\ FreeRTOS_disconnect
       /\ isconnected' = FALSE
       /\ UNCHANGED ping_timer

NoSend == UNCHANGED <<tx, ping_timer, my_socket, owner, link, isconnected>>

SendResults == {"ok", "error"}

(* What readPacket can return, with the stream it leaves.  A length byte   *)
(* that is late leaves an empty packet of the right type, which the        *)
(* MQTTDeserialize functions accept without setting their results.         *)
Reads ==
    IF rx = <<>> \/ link = "reset" THEN {}
    ELSE IF frame
    THEN {[pkt |-> Head(rx), rx |-> Tail(rx), frame |-> TRUE, cost |-> 0]}
         \cup {[pkt |-> [Head(rx) EXCEPT !.id = i], rx |-> Tail(rx), frame |-> FALSE,
                cost |-> 1] : i \in Ids}
    ELSE {[pkt |-> [type |-> t, id |-> i, qos |-> q], rx |-> Tail(rx), frame |-> FALSE,
           cost |-> 0] : t \in Types, i \in Ids, q \in 0 .. 2}

Incoming ==
    IF rxevent THEN {r \in Reads : faults + r.cost <= MaxFaults}
    ELSE {[pkt |-> NoPacket, rx |-> rx, frame |-> frame, cost |-> 0]}

(* Out of frame the packets of the stream are just bytes.                  *)
Bytes(s) == [k \in DOMAIN s |-> NoPacket]

Received(r) ==
    /\ rx' = IF link' = "none" THEN <<>> ELSE IF r.frame THEN r.rx ELSE Bytes(r.rx)
    /\ frame' = r.frame
    /\ faults' = faults + r.cost

-----------------------------------------------------------------------------
(* prvMQTTTask: select on the socket, if there is one.                     *)
NoSocket ==
    /\ pc = "select" /\ my_socket = -1
    /\ rxevent' = FALSE
    /\ pc' = "handle"
    /\ UNCHANGED <<status, isconnected, my_socket, ping_outstanding, cmd_timer, ping_timer,
                   handler, delivered, netVars, brokerVars, faults>>

Own == my_socket # -1 /\ owner[my_socket] = "mqtt"

(* The descriptor of a connection that failed, closed already.  If another *)
(* task was given it, select reports that task's events; if not, it finds  *)
(* no socket (the assertion that there is one is compiled out), counts     *)
(* itself in through the null pointer and waits for the timeout: the write *)
(* is undefined, harmless or fatal.                                        *)
SelectStale ==
    /\ pc = "select" /\ my_socket # -1 /\ ~Own
    /\ \/ /\ owner[my_socket] = "other"
          /\ rxevent' \in BOOLEAN /\ pc' = "handle"
       \/ /\ owner[my_socket] = "free"
          /\ rxevent' = FALSE /\ pc' \in {"handle", "fault"}
    /\ UNCHANGED <<status, isconnected, my_socket, ping_outstanding, cmd_timer, ping_timer,
                   handler, delivered, netVars, brokerVars, faults>>

SelectRead ==
    /\ pc = "select" /\ Own
    /\ link # "reset" /\ (rx # <<>> \/ link = "closed")
    /\ rxevent' = TRUE
    /\ pc' = "handle"
    /\ UNCHANGED <<status, isconnected, my_socket, ping_outstanding, cmd_timer, ping_timer,
                   handler, delivered, netVars, brokerVars, faults>>

SelectExcept ==
    /\ pc = "select" /\ Own /\ link = "reset"
    /\ rxevent' = TRUE
    /\ status' = "START"
    /\ pc' = "handle"
    /\ UNCHANGED <<isconnected, my_socket, ping_outstanding, cmd_timer, ping_timer,
                   handler, delivered, netVars, brokerVars, faults>>

(* Nothing for a second; every fifth time MQTTPublishMessage.              *)
SelectTimeout ==
    /\ pc = "select" /\ Own /\ rx = <<>> /\ link \in {"up", "lost"}
    /\ \/ /\ UNCHANGED <<status, rx>> /\ NoSend
       \/ /\ status = "RUNNING" /\ isconnected
          /\ sendPacket(Publish(0, 1), "ok")
          /\ UNCHANGED <<status, rx>>
       \/ /\ status = "RUNNING" /\ isconnected /\ link = "lost"
          /\ isconnected' = FALSE
          /\ FreeRTOS_disconnect
          /\ status' = "START" /\ rx' = <<>>
          /\ UNCHANGED ping_timer
    /\ rxevent' = FALSE
    /\ pc' = "handle"
    /\ UNCHANGED <<ping_outstanding, cmd_timer, handler, delivered, frame, brokerVars, faults>>

-----------------------------------------------------------------------------
(* MQTTDataHandle, MQTT_START: NetworkConnect finds no address or gets no  *)
(* socket, ...                                                             *)
NewConnection ==
    /\ rx' = <<>> /\ frame' = TRUE
    /\ session' = "none" /\ subscribed' = FALSE /\ unacked' = {} /\ delivered' = {}

Start ==
    /\ pc = "handle" /\ status = "START"
    /\ pc' = "select"
    /\ NewConnection
    /\ rxevent' = FALSE
    /\ UNCHANGED <<ping_outstanding, handler>>

StartUnresolved ==
    /\ Start /\ Fault
    /\ FreeRTOS_disconnect
    /\ isconnected' = FALSE
    /\ UNCHANGED <<status, cmd_timer, ping_timer>>

LowestFree == CHOOSE f \in Fds :
    Freed[f] = "free" /\ \A g \in Fds : Freed[g] = "free" => f <= g

(* ... connect fails: the socket is closed and my_socket keeps its number, *)
StartRefused ==
    /\ Start /\ Fault
    /\ owner' = Freed
    /\ my_socket' = LowestFree
    /\ link' = "none" /\ tx' = <<>>
    /\ isconnected' = FALSE
    /\ UNCHANGED <<status, cmd_timer, ping_timer>>

(* ... or it connects, and MQTTConnect sends CONNECT, which may fail.      *)
StartConnected ==
    /\ Start
    /\ owner' = [Freed EXCEPT ![LowestFree] = "mqtt"]
    /\ my_socket' = LowestFree
    /\ link' = "up"
    /\ cmd_timer' = FALSE /\ ping_timer' = FALSE
    /\ \/ /\ status' = "CONNECT" /\ isconnected' = TRUE
          /\ tx' = <<Packet("CONNECT")>>
          /\ UNCHANGED faults
       \/ /\ Fault
          /\ isconnected' = FALSE
          /\ tx' = <<>>
          /\ UNCHANGED status

(* Mutant: the connection is closed but the state machine does not start   *)
(* again.                                                                  *)
AfterFailedRead_same == status

AfterFailedRead == "START"

(* readPacket fails: the stream ended, failed, stalled inside a packet or  *)
(* is out of frame.                                                        *)
ReadFails ==
    /\ pc = "handle" /\ status # "START" /\ rxevent
    /\ \/ /\ link = "reset" \/ (rx = <<>> /\ link # "up")
          /\ UNCHANGED faults
       \/ rx # <<>> /\ frame /\ Fault
       \/ rx # <<>> /\ ~frame /\ UNCHANGED faults
    /\ status' = AfterFailedRead
    /\ FreeRTOS_disconnect
    /\ isconnected' = (isconnected /\ link # "reset")
    /\ rx' = <<>>
    /\ pc' = "select"
    /\ rxevent' = FALSE
    /\ UNCHANGED <<ping_outstanding, cmd_timer, ping_timer, handler, delivered,
                   frame, brokerVars>>

(* MQTT_CONNECT: a CONNACK, whatever its return code, is answered by       *)
(* SUBSCRIBE.                                                              *)
HandleConnect ==
    /\ pc = "handle" /\ status = "CONNECT"
    /\ \E r \in Incoming :
        /\ \/ /\ r.pkt.type = "CONNACK"
              /\ cmd_timer' = FALSE
              /\ \E rc \in SendResults :
                    /\ isconnected /\ sendPacket(Packet("SUBSCRIBE"), rc)
                    /\ status' = IF rc = "ok" THEN "SUBTOPIC" ELSE "START"
           \/ /\ r.pkt.type # "CONNACK"
              /\ status' = IF cmd_timer THEN "START" ELSE status
              /\ NoSend /\ UNCHANGED cmd_timer
        /\ Received(r)
    /\ pc' = "select"
    /\ rxevent' = FALSE
    /\ UNCHANGED <<ping_outstanding, handler, delivered, brokerVars>>

(* Mutants: the granted QoS is not looked at; the handler is not           *)
(* registered; the command timer is not looked at.                         *)
Granted_any(p) == TRUE
Registered_not == handler
SubackTimeout_never == FALSE

Granted(p) == p.qos # Refused
Registered == TRUE
SubackTimeout == cmd_timer

(* MQTT_SUBTOPIC: a SUBACK that does not refuse registers the handler.     *)
HandleSubtopic ==
    /\ pc = "handle" /\ status = "SUBTOPIC"
    /\ \E r \in Incoming :
        /\ \/ /\ r.pkt.type = "SUBACK" /\ Granted(r.pkt)
              /\ handler' = Registered
              /\ status' = "RUNNING"
           \/ /\ r.pkt.type = "SUBACK" /\ ~Granted(r.pkt)
              /\ UNCHANGED <<status, handler>>
           \/ /\ r.pkt.type # "SUBACK"
              /\ status' = IF SubackTimeout THEN "START" ELSE status
              /\ UNCHANGED handler
        /\ NoSend
        /\ Received(r)
    /\ pc' = "select"
    /\ rxevent' = FALSE
    /\ UNCHANGED <<ping_outstanding, cmd_timer, delivered, brokerVars>>

(* MQTT_RUNNING: a message is given to the handler (out of frame it is     *)
(* none the broker sent) and then acknowledged.                            *)
HandlePublish ==
    /\ pc = "handle" /\ status = "RUNNING"
    /\ \E r \in Incoming :
        /\ r.pkt.type = "PUBLISH"
        /\ delivered' = delivered \cup (IF handler /\ r.frame THEN {r.pkt.id} \cap Ids ELSE {})
        /\ \/ /\ r.pkt.qos = 0
              /\ NoSend
              /\ pc' = "keepalive"
              /\ UNCHANGED status
           \/ /\ r.pkt.qos # 0
              /\ \E rc \in SendResults :
                    /\ sendPacket(Ack(IF r.pkt.qos = 1 THEN "PUBACK" ELSE "PUBREC",
                                      r.pkt.id), rc)
                    /\ pc' = IF rc = "ok" THEN "keepalive" ELSE "select"
                    /\ status' = IF rc = "ok" THEN status ELSE "START"
           \/ /\ ~r.frame                       \* MQTTDeserialize_publish fails
              /\ NoSend
              /\ pc' = "select"
              /\ UNCHANGED status
        /\ Received(r)
    /\ rxevent' = FALSE
    /\ UNCHANGED <<ping_outstanding, cmd_timer, handler, brokerVars>>

(* Mutant: PUBREL is answered by PUBREL.                                   *)
NextOf_rel(t) == "PUBREL"

NextOf(t) == IF t = "PUBREC" THEN "PUBREL" ELSE "PUBCOMP"

(* PUBREC and PUBREL are answered by PUBREL and PUBCOMP.                   *)
HandlePubrecPubrel ==
    /\ pc = "handle" /\ status = "RUNNING"
    /\ \E r \in Incoming, rc \in SendResults :
        /\ r.pkt.type \in {"PUBREC", "PUBREL"}
        /\ sendPacket(Ack(NextOf(r.pkt.type), r.pkt.id), rc)
        /\ status' = IF rc = "ok" THEN status ELSE "START"
        /\ Received(r)
    /\ pc' = "keepalive"
    /\ rxevent' = FALSE
    /\ UNCHANGED <<ping_outstanding, cmd_timer, handler, delivered, brokerVars>>

(* Every other packet, or none.                                            *)
HandleOther ==
    /\ pc = "handle" /\ status = "RUNNING"
    /\ \E r \in Incoming :
        /\ r.pkt.type \notin {"PUBLISH", "PUBREC", "PUBREL"}
        /\ ping_outstanding' = (ping_outstanding /\ r.pkt.type # "PINGRESP")
        /\ NoSend
        /\ Received(r)
    /\ pc' = "keepalive"
    /\ rxevent' = FALSE
    /\ UNCHANGED <<status, cmd_timer, handler, delivered, brokerVars>>

(* keepalive: a PINGREQ that cannot be sent is not reported.               *)
Keepalive ==
    /\ pc = "keepalive"
    /\ \/ /\ ping_timer /\ ~ping_outstanding
          /\ \E rc \in SendResults :
                /\ rc = "error" => PingSendFails \/ status = "START"
                /\ sendPacket(Packet("PINGREQ"), rc)
                /\ ping_outstanding' = (rc = "ok")
                /\ rx' = IF rc = "error" THEN <<>> ELSE rx
       \/ /\ ~ping_timer \/ ping_outstanding \/ (link = "reset" /\ ~PingSendFails)
          /\ NoSend
          /\ UNCHANGED <<ping_outstanding, rx>>
    /\ pc' = "select"
    /\ UNCHANGED <<status, rxevent, cmd_timer, handler, delivered, frame, brokerVars, faults>>

-----------------------------------------------------------------------------
(* Time passes.  A command times out because the answer is late or because *)
(* none is on its way.                                                     *)
NoAnswer == (rx = <<>> /\ (tx = <<>> \/ link # "up")) \/ ~frame

CmdTimerExpires ==
    /\ status \in {"CONNECT", "SUBTOPIC"} /\ ~cmd_timer
    /\ cmd_timer' = TRUE
    /\ \/ NoAnswer /\ UNCHANGED faults
       \/ ~NoAnswer /\ Fault
    /\ UNCHANGED <<pc, status, isconnected, my_socket, rxevent, ping_outstanding, ping_timer,
                   handler, delivered, netVars, brokerVars>>

PingTimerExpires ==
    /\ status = "RUNNING" /\ ~ping_timer
    /\ ping_timer' = TRUE
    /\ UNCHANGED <<pc, status, isconnected, my_socket, rxevent, ping_outstanding, cmd_timer,
                   handler, delivered, netVars, brokerVars, faults>>

(* The path to the broker breaks silently; TCP's keep-alive or its         *)
(* retransmissions notice; the broker resets or closes the connection.     *)
LinkLost ==
    /\ link = "up" /\ Fault
    /\ link' = "lost" /\ tx' = <<>> /\ rx' \in {rx, <<>>}
    /\ UNCHANGED <<pc, clientVars, owner, frame, brokerVars>>

TcpGivesUp ==
    /\ link = "lost"
    /\ link' = "reset"
    /\ UNCHANGED <<pc, clientVars, owner, rx, tx, frame, brokerVars, faults>>

PeerEnds ==
    /\ link = "up" /\ Fault
    /\ link' \in {"closed", "reset"} /\ tx' = <<>>
    /\ UNCHANGED <<pc, clientVars, owner, rx, frame, brokerVars>>

(* Another task opens and closes a socket of its own (past MQTT_START this *)
(* cannot concern the client: OwnSocket).                                  *)
OtherOpens ==
    /\ status = "START"
    /\ \A f \in Fds : owner[f] # "other"
    /\ \E f \in Fds :
        /\ owner[f] = "free" /\ \A g \in Fds : owner[g] = "free" => f <= g
        /\ owner' = [owner EXCEPT ![f] = "other"]
    /\ UNCHANGED <<pc, clientVars, link, rx, tx, frame, brokerVars, faults>>

OtherCloses ==
    /\ status = "START"
    /\ \E f \in Fds : owner[f] = "other" /\ owner' = [owner EXCEPT ![f] = "free"]
    /\ UNCHANGED <<pc, clientVars, link, rx, tx, frame, brokerVars, faults>>

(* The broker reads a packet and answers.                                  *)
Answer(p) == rx' = Append(rx, IF frame THEN p ELSE NoPacket)

BrokerReceives ==
    /\ link = "up" /\ tx # <<>>
    /\ tx' = Tail(tx)
    /\ LET p == Head(tx) IN
       \/ /\ p.type = "CONNECT"
          /\ Answer(Packet("CONNACK"))
          /\ \/ session' = "connected" /\ UNCHANGED <<link, faults>>
             \/ session' = "refused" /\ link' = "closed" /\ Fault
          /\ UNCHANGED <<subscribed, unacked, delivered>>
       \/ /\ p.type = "SUBSCRIBE"
          /\ \/ subscribed' = TRUE /\ Answer(Packet("SUBACK")) /\ UNCHANGED faults
             \/ Answer([Packet("SUBACK") EXCEPT !.qos = Refused]) /\ Fault
                /\ UNCHANGED subscribed
          /\ UNCHANGED <<link, session, unacked, delivered>>
       \/ /\ p.type \in {"PUBLISH", "PINGREQ", "PUBREC", "PUBREL"}
          /\ Answer(CASE p.type = "PUBLISH" -> Packet("PUBACK")
                      [] p.type = "PINGREQ" -> Packet("PINGRESP")
                      [] p.type = "PUBREC" -> Ack("PUBREL", p.id)
                      [] p.type = "PUBREL" -> Ack("PUBCOMP", p.id))
          /\ UNCHANGED <<link, session, subscribed, unacked, delivered, faults>>
       \/ /\ p.type \in {"PUBACK", "PUBCOMP"}
          /\ unacked' = unacked \ {p.id} /\ delivered' = delivered \ {p.id}
          /\ UNCHANGED <<link, rx, session, subscribed, faults>>
    /\ UNCHANGED <<pc, status, isconnected, my_socket, rxevent, ping_outstanding, cmd_timer,
                   ping_timer, handler, owner, frame>>

(* It sends a message, a retained one perhaps before the SUBACK; that one  *)
(* the client drops, and it is not counted in unacked.                     *)
BrokerPublishes ==
    /\ link = "up" /\ session = "connected" /\ Len(rx) + Len(tx) < MaxQueue
    /\ \E i \in Ids \cup {0}, q \in 0 .. 2 :
        /\ i = 0 <=> q = 0             \* QoS 0 has no identifier
        /\ i \notin unacked
        /\ Answer(Publish(i, q))
        /\ \/ subscribed /\ unacked' = unacked \cup ({i} \cap Ids)
           \/ ~subscribed /\ tx # <<>> /\ Head(tx).type = "SUBSCRIBE" /\ UNCHANGED unacked
    /\ UNCHANGED <<pc, clientVars, owner, link, tx, frame, session, subscribed, faults>>

-----------------------------------------------------------------------------
(* NetworkInit, MQTTClientInit.                                            *)
MqttInit ==
    /\ pc = "select" /\ status = "START" /\ isconnected = FALSE /\ my_socket = -1
    /\ rxevent = FALSE /\ ping_outstanding = FALSE /\ cmd_timer = TRUE /\ ping_timer = TRUE
    /\ handler = FALSE /\ delivered = {}
    /\ owner = [f \in Fds |-> "free"] /\ link = "none" /\ rx = <<>> /\ tx = <<>>
    /\ frame = TRUE /\ session = "none" /\ subscribed = FALSE /\ unacked = {}
    /\ faults = 0

Select == NoSocket \/ SelectStale \/ SelectRead \/ SelectExcept \/ SelectTimeout

MQTTDataHandle ==
    \/ StartUnresolved \/ StartRefused \/ StartConnected \/ ReadFails
    \/ HandleConnect \/ HandleSubtopic
    \/ HandlePublish \/ HandlePubrecPubrel \/ HandleOther

prvMQTTTask == Select \/ MQTTDataHandle \/ Keepalive

MqttNext ==
    \/ prvMQTTTask
    \/ CmdTimerExpires \/ PingTimerExpires
    \/ LinkLost \/ TcpGivesUp \/ PeerEnds \/ OtherOpens \/ OtherCloses
    \/ BrokerReceives \/ BrokerPublishes

(* The task runs, timers expire when nothing more can come, TCP notices a  *)
(* lost path, and the broker reads what it gets.                           *)
MqttSpec ==
    /\ MqttInit /\ [][MqttNext]_mqttVars
    /\ WF_mqttVars(prvMQTTTask)
    /\ WF_mqttVars(CmdTimerExpires /\ NoAnswer)
    /\ WF_mqttVars(TcpGivesUp)
    /\ WF_mqttVars(BrokerReceives)

-----------------------------------------------------------------------------
(* Types, and TCP holds no more packets than it takes.                     *)
MqttTypeOK ==
    /\ pc \in {"select", "handle", "keepalive", "fault"}
    /\ status \in {"START", "CONNECT", "SUBTOPIC", "RUNNING"}
    /\ {isconnected, rxevent, ping_outstanding, cmd_timer, ping_timer, handler, frame,
        subscribed} \subseteq BOOLEAN
    /\ my_socket \in Fds \cup {-1}
    /\ owner \in [Fds -> {"free", "mqtt", "other"}]
    /\ link \in {"none", "up", "lost", "closed", "reset"}
    /\ Len(tx) <= MaxQueue
    /\ session \in {"none", "connected", "refused"}
    /\ unacked \subseteq Ids /\ delivered \subseteq Ids /\ faults \in 0 .. MaxFaults

(* Past MQTT_START the client is connected and reads and writes a socket   *)
(* of its own; the number of a socket that was closed, which may belong to *)
(* another task by now, is kept in MQTT_START only.  And no socket is left *)
(* behind: the one in my_socket is the only one the client has open.       *)
OwnSocket ==
    /\ status # "START" => Own /\ isconnected /\ link # "none"
    /\ \A f \in Fds : owner[f] = "mqtt" => f = my_socket

(* While the frame is kept, the client runs only on a connection whose     *)
(* broker has accepted it and granted the subscription, although the       *)
(* return code of CONNACK and all packet identifiers are ignored.          *)
RunningIsSubscribed ==
    (status = "RUNNING" /\ frame) => session = "connected" /\ subscribed

(* While the frame is kept, the broker is told only of messages that the   *)
(* application's handler was given: what is acknowledged is not lost.      *)
AckedIsDelivered ==
    frame => \A k \in DOMAIN tx :
        tx[k].type \in {"PUBACK", "PUBREC", "PUBCOMP"} => tx[k].id \in delivered

InService == status = "RUNNING" /\ link = "up"

(* Whatever fails, the client is in service again later: it restarts by    *)
(* itself, as the example says of this build.  There is one exception, the *)
(* select on a closed descriptor, if its undefined write is fatal.         *)
Recovers == ~InService ~> (InService \/ pc = "fault")

(* The descriptor given to select is open, as lwip_select asserts of every *)
(* descriptor it waits for (LWIP_ASSERT("sock != NULL")).                  *)
SelectedIsOpen ==
    (pc = "select" /\ my_socket # -1) => owner[my_socket] # "free"

(* Every message sent to the running client with QoS 1 or 2 is             *)
(* acknowledged to the end, unless the connection or the frame is lost.    *)
MessageCompletes ==
    \A i \in Ids : (i \in unacked /\ frame) ~> (i \notin unacked \/ ~frame)
=============================================================================
