----------------------------- MODULE DhcpServer -----------------------------
(***************************************************************************)
(* The soft-AP's DHCP server (component/common/network/dhcp/dhcps.c).      *)
(*                                                                         *)
(* The server is one global state machine shared by all clients: the state *)
(* dhcp_server_state_machine, the one address under negotiation            *)
(* (dhcps_allocated_client_address), the last requested address            *)
(* (client_request_ip, not cleared when a packet has no option 50) and the *)
(* table of latched addresses.  The receive callback runs on the tcpip     *)
(* thread; dhcps_init and dhcps_deinit are called from other tasks and may *)
(* run while the callback is inside udp_sendto_if.                         *)
(*                                                                         *)
(* Addresses of the server's own subnet are their last octet; the bitmap   *)
(* ip_table.ip_range is the set of octets whose bit is one.  W is the      *)
(* number of bits of one ip_range word (32 in the code).                   *)
(***************************************************************************)
EXTENDS Naturals, FiniteSets

CONSTANTS
    Clients,        \* hardware addresses of the stations
    NoMac,          \* the all-zero hardware address of an empty table entry
    W,              \* bits per ip_range word
    PoolStart,      \* DHCP_POOL_START
    PoolEnd,        \* DHCP_POOL_END
    NetConfigs,     \* <<local, gateway>> octets an interface may be given
    AddrPools,      \* <<start, end>> octets dhcps_set_addr_pool may be given,
                    \* or NoPool: addr_pool_set is 0
    ReqAddrs,       \* values of option 50 that clients send
    MsgTypes        \* DHCP message types that clients send

(* Last octets; ip_range has eight words, and octet 8W is out of reach.    *)
Addr == 1 .. (8 * W - 1)

(* An address of another subnet: it differs from every address of ours.    *)
Foreign == 8 * W

(* The packet carries no option 50.                                        *)
NoOption == 8 * W + 1

(* MARK_RANGE5_IP_BIT is given d, not d - 128: the shift exceeds the word. *)
Range5 == (4 * W + 1) .. (5 * W)

AllMsgTypes == {"DISCOVER", "REQUEST", "DECLINE", "RELEASE", "OTHER"}

NoPool == <<0, 0>>

ASSUME DhcpAssumption ==
    /\ W \in Nat \ {0}
    /\ PoolStart \in Addr /\ PoolEnd \in Addr /\ PoolStart <= PoolEnd
    /\ NoMac \notin Clients
    /\ NetConfigs \subseteq Addr \X (Addr \cup {0})
    /\ AddrPools \subseteq (Addr \X Addr) \cup {NoPool}
    /\ ReqAddrs \subseteq Addr \cup {Foreign, NoOption}
    /\ MsgTypes \subseteq AllMsgTypes

VARIABLES
    pcb,            \* dhcps_pcb is not NULL: the callback is registered
    sema,           \* dhcps_ip_table_semaphore is not NULL
    fsm,            \* dhcp_server_state_machine
    ip_range,       \* octets latched in ip_table.ip_range
    client_mac,     \* ip_table.client_mac
    allocated,      \* dhcps_allocated_client_address
    client_request_ip,
    client_addr,    \* hardware address of the packet being handled
    pool,           \* dhcps_addr_pool_start / _end
    pool_set,       \* dhcps_addr_pool_set
    net,            \* dhcps_local_address, dhcps_local_gateway
    pc,             \* tcpip thread: "idle", "acked" (sent, not latched), "fault"
    reply,          \* the last datagram sent
    holds           \* address each client was granted since dhcps_init, or 0

vars == <<pcb, sema, fsm, ip_range, client_mac, allocated, client_request_ip,
          client_addr, pool, pool_set, net, pc, reply, holds>>

(***************************************************************************)
(* The address table                                                       *)
(***************************************************************************)

(* mark_ip_in_table: the possible tables after latching d.  In the fifth   *)
(* range the shift count is at least the width of int, which is undefined; *)
(* the ARM shifter yields zero, a shifter that wraps yields the right bit. *)
mark_ip_in_table(t, d) ==
    IF d = 0 THEN {t}
    ELSE IF d \in Range5 THEN {t, t \cup {d}}
    ELSE {t \cup {d}}

(* check_client_request_ip: the first entry of the fixed range             *)
(* DHCP_POOL_START..DHCP_POOL_END that carries the client's address and is *)
(* latched, or 0.  For multiples of W the test shifts by -1: undefined, so *)
(* such an entry may or may not be seen.                                   *)
Recognised(mac) ==
    {i \in PoolStart .. PoolEnd :
        client_mac[i] = mac /\ i % W # 0 /\ i \in ip_range}

MaybeRecognised(mac) ==
    {i \in PoolStart .. PoolEnd : client_mac[i] = mac /\ i % W = 0}

check_client_request_ip(mac) ==
    {i \in Recognised(mac) \cup MaybeRecognised(mac) :
        \A j \in Recognised(mac) : i <= j}
    \cup (IF Recognised(mac) = {} THEN {0} ELSE {})

(* search_next_ip: the lowest address of the pool, or of the whole subnet  *)
(* if the pool is switched off, that is not latched.                       *)
InPool(d) == pool_set => pool[1] <= d /\ d <= pool[2]

FreeAddrs == {d \in Addr : d \notin ip_range /\ InPool(d)}

(* Mutant: the bitmap is not consulted.                                    *)
search_next_ip_any == {pool[1]}

search_next_ip ==
    IF FreeAddrs = {} THEN {0}
    ELSE {d \in FreeAddrs : \A e \in FreeAddrs : d <= e}

-----------------------------------------------------------------------------
(***************************************************************************)
(* The receive callback                                                    *)
(***************************************************************************)

(* dhcps_send_offer, sent to c: the address the client already has in the  *)
(* table, or the next free one, or none.  Nothing is latched yet.          *)
dhcps_send_offer(c) ==
    \E t \in check_client_request_ip(c) :
    \E n \in search_next_ip :
        LET temp_ip == IF t # 0 THEN t ELSE n IN
        /\ allocated' = temp_ip
        /\ reply' = [type |-> "OFFER", to |-> c, ip |-> temp_ip]

(* dhcps_send_ack: the thread is now inside udp_sendto_if and the address  *)
(* is not latched yet.  The datagram may be lost on its way to the client. *)
dhcps_send_ack(c, ip) ==
    /\ reply' = [type |-> "ACK", to |-> c, ip |-> ip]
    /\ pc' = "acked"
    /\ fsm' = "ACK"
    /\ \/ holds' = [holds EXCEPT ![c] = ip]
       \/ holds' = holds

(* dhcps_send_nak; the callback then resets the state machine.             *)
dhcps_send_nak(c) ==
    /\ reply' = [type |-> "NAK", to |-> c, ip |-> allocated]
    /\ fsm' = "IDLE"
    /\ \/ holds' = [holds EXCEPT ![c] = 0]
       \/ holds' = holds
    /\ UNCHANGED <<pc, allocated>>

(* Mutant: a missing option 50 is read as an address all the same.         *)
dhcps_handle_msg_options_unchecked(c, req) ==
    /\ client_addr' = c
    /\ client_request_ip' = req

(* Option 50 overwrites client_request_ip; without it the address that an  *)
(* earlier packet, perhaps of another client, requested stays.             *)
dhcps_handle_msg_options(c, req) ==
    /\ client_addr' = c
    /\ client_request_ip' = IF req = NoOption THEN client_request_ip ELSE req

(* A packet reaches the callback only while the pcb is bound and the tcpip *)
(* thread is not inside an earlier call.                                   *)
Receive(c, type, req) ==
    /\ pcb /\ pc = "idle"
    /\ type \in MsgTypes
    /\ dhcps_handle_msg_options(c, req)
    /\ UNCHANGED <<pcb, sema, ip_range, client_mac, pool, pool_set, net>>

(* A client that sends DISCOVER is in INIT: it uses no address.            *)
RecvDiscover(c, req) ==
    /\ Receive(c, "DISCOVER", req)
    /\ fsm' = IF fsm = "IDLE" THEN "OFFER" ELSE fsm
    /\ dhcps_send_offer(c)
    /\ holds' = [holds EXCEPT ![c] = 0]
    /\ UNCHANGED pc

(* REQUEST while an offer is open: granted iff the requested address is    *)
(* the one under negotiation, whoever asks.                                *)
RecvRequestOffered(c, req) ==
    /\ Receive(c, "REQUEST", req)
    /\ fsm = "OFFER"
    /\ \/ /\ allocated # 0 /\ allocated = client_request_ip'
          /\ dhcps_send_ack(c, allocated)
          /\ UNCHANGED allocated
       \/ /\ allocated = 0 \/ allocated # client_request_ip'
          /\ dhcps_send_nak(c)

(* REQUEST without an open offer: renewal or reboot, granted by the table. *)
RecvRequestIdle(c, req) ==
    /\ Receive(c, "REQUEST", req)
    /\ fsm = "IDLE"
    /\ \E ip \in check_client_request_ip(c) :
        \/ /\ ip # 0
           /\ allocated' = ip
           /\ dhcps_send_ack(c, ip)
        \/ /\ ip = 0
           /\ dhcps_send_nak(c)

(* DECLINE and RELEASE close the open offer; the table keeps the lease.    *)
CloseOffer(c, type, req) ==
    /\ Receive(c, type, req)
    /\ fsm' = "IDLE"
    /\ holds' = [holds EXCEPT ![c] = 0]
    /\ UNCHANGED <<allocated, pc, reply>>

RecvDecline(c, req) == CloseOffer(c, "DECLINE", req)

RecvRelease(c, req) == CloseOffer(c, "RELEASE", req)

(* Any other message type leaves the state; the callback then acts on the  *)
(* unchanged state, so an open offer makes it send another offer.          *)
RecvOther(c, req) ==
    /\ Receive(c, "OTHER", req)
    /\ \/ /\ fsm = "OFFER"
          /\ dhcps_send_offer(c)
       \/ /\ fsm # "OFFER"
          /\ UNCHANGED <<allocated, reply>>
    /\ UNCHANGED <<fsm, pc, holds>>

(* A datagram of port 68 without the DHCP magic cookie: the callback has   *)
(* copied its hardware address before it looks at the cookie.              *)
RecvNotDhcp(c) ==
    /\ pcb /\ pc = "idle"
    /\ client_addr' = c
    /\ UNCHANGED <<pcb, sema, fsm, ip_range, client_mac, allocated,
                   client_request_ip, pool, pool_set, net, pc, reply, holds>>

(* Mutant: the owner is saved but the address is not latched.              *)
AckTail_unlatched ==
    /\ pc = "acked" /\ sema
    /\ client_mac' = [client_mac EXCEPT ![allocated] = client_addr]
    /\ client_request_ip' = 0
    /\ client_addr' = NoMac
    /\ allocated' = 0
    /\ fsm' = "IDLE"
    /\ pc' = "idle"
    /\ UNCHANGED <<pcb, sema, ip_range, pool, pool_set, net, reply, holds>>

(* The rest of the callback once dhcps_send_ack has returned: latch the    *)
(* address, remember its owner, clear the negotiation.  Both table updates *)
(* take the semaphore, which another task may have deleted meanwhile.      *)
AckTail ==
    /\ pc = "acked" /\ sema
    /\ ip_range' \in mark_ip_in_table(ip_range, allocated)
    /\ client_mac' = [client_mac EXCEPT ![allocated] = client_addr]
    /\ client_request_ip' = 0
    /\ client_addr' = NoMac
    /\ allocated' = 0
    /\ fsm' = "IDLE"
    /\ pc' = "idle"
    /\ UNCHANGED <<pcb, sema, pool, pool_set, net, reply, holds>>

(* xSemaphoreTake of the deleted (NULL) semaphore.                         *)
AckTailFault ==
    /\ pc = "acked" /\ ~sema
    /\ pc' = "fault"
    /\ UNCHANGED <<pcb, sema, fsm, ip_range, client_mac, allocated,
                   client_request_ip, client_addr, pool, pool_set, net, reply, holds>>

-----------------------------------------------------------------------------
(***************************************************************************)
(* Control operations, called by other tasks                               *)
(***************************************************************************)

(* The default pool, unless one was ever given: a pool that was switched   *)
(* off stays off.                                                          *)
DefaultPool ==
    IF pool = NoPool
    THEN pool' = <<PoolStart, PoolEnd>> /\ pool_set' = TRUE
    ELSE UNCHANGED <<pool, pool_set>>

(* dhcps_init: a new table in which the interface's own addresses are      *)
(* latched.  The state machine and the open negotiation are NOT reset.     *)
(* Grants of an earlier session are forgotten by the server, so the model  *)
(* counts grants from here.                                                *)
dhcps_init(cfg) ==
    /\ pc # "fault"
    /\ pcb' = TRUE /\ sema' = TRUE
    /\ net' = cfg
    /\ \E t \in mark_ip_in_table({}, cfg[1]) :
        ip_range' \in mark_ip_in_table(t, cfg[2])
    /\ client_mac' = [i \in Addr \cup {0} |-> NoMac]
    /\ DefaultPool
    /\ holds' = [c \in Clients |-> 0]
    /\ UNCHANGED <<fsm, allocated, client_request_ip, client_addr, pc, reply>>

(* udp_new fails: the table is gone, the callback unregistered, and the    *)
(* semaphore of the earlier session, if any, stays.                        *)
dhcps_init_nopcb ==
    /\ pc # "fault"
    /\ pcb' = FALSE
    /\ ip_range' = {}
    /\ client_mac' = [i \in Addr \cup {0} |-> NoMac]
    /\ holds' = [c \in Clients |-> 0]
    /\ UNCHANGED <<sema, fsm, allocated, client_request_ip, client_addr, pool,
                   pool_set, net, pc, reply>>

dhcps_deinit ==
    /\ pc # "fault"
    /\ pcb' = FALSE /\ sema' = FALSE
    /\ UNCHANGED <<fsm, ip_range, client_mac, allocated, client_request_ip,
                   client_addr, pool, pool_set, net, pc, reply, holds>>

dhcps_set_addr_pool(p) ==
    /\ pc # "fault"
    /\ pool_set' = (p # NoPool)
    /\ pool' = IF p = NoPool THEN pool ELSE p
    /\ UNCHANGED <<pcb, sema, fsm, ip_range, client_mac, allocated,
                   client_request_ip, client_addr, net, pc, reply, holds>>

(* A station reboots, leaves the cell or lets its lease expire.            *)
ClientDrop(c) ==
    /\ pc # "fault"
    /\ holds[c] # 0
    /\ holds' = [holds EXCEPT ![c] = 0]
    /\ UNCHANGED <<pcb, sema, fsm, ip_range, client_mac, allocated,
                   client_request_ip, client_addr, pool, pool_set, net, pc, reply>>

-----------------------------------------------------------------------------
Init ==
    /\ pcb = FALSE /\ sema = FALSE
    /\ fsm = "IDLE"
    /\ ip_range = {}
    /\ client_mac = [i \in Addr \cup {0} |-> NoMac]
    /\ allocated = 0
    /\ client_request_ip = 0
    /\ client_addr = NoMac
    /\ pool = NoPool /\ pool_set = FALSE
    /\ net = <<0, 0>>
    /\ pc = "idle"
    /\ reply = [type |-> "NONE", to |-> NoMac, ip |-> 0]
    /\ holds = [c \in Clients |-> 0]

Known ==
    \/ \E c \in Clients, req \in ReqAddrs :
        \/ RecvDiscover(c, req)
        \/ RecvRequestOffered(c, req)
        \/ RecvRequestIdle(c, req)
        \/ RecvDecline(c, req)
        \/ RecvRelease(c, req)
    \/ \E c \in Clients : RecvNotDhcp(c)
    \/ AckTail
    \/ AckTailFault

Control ==
    \/ \E cfg \in NetConfigs : dhcps_init(cfg)
    \/ dhcps_init_nopcb
    \/ dhcps_deinit
    \/ \E p \in AddrPools : dhcps_set_addr_pool(p)

Others == Known \/ Control \/ \E c \in Clients : ClientDrop(c)

Next == Others \/ \E c \in Clients, req \in ReqAddrs : RecvOther(c, req)

Spec == Init /\ [][Next]_vars

(* The behaviours in which no station that uses a lease sends an unknown   *)
(* message while an offer is open: the server would then offer that lease, *)
(* and the next station to request it would share it.                      *)
QuietNext ==
    \/ Others
    \/ \E c \in Clients, req \in ReqAddrs :
        /\ fsm = "OFFER" => holds[c] = 0
        /\ RecvOther(c, req)

QuietSpec == Init /\ [][QuietNext]_vars

-----------------------------------------------------------------------------
(* Types of all variables.                                                 *)
TypeOK ==
    /\ pcb \in BOOLEAN /\ sema \in BOOLEAN
    /\ fsm \in {"IDLE", "OFFER", "ACK"}
    /\ ip_range \subseteq Addr
    /\ client_mac \in [Addr \cup {0} -> Clients \cup {NoMac}]
    /\ allocated \in Addr \cup {0}
    /\ client_request_ip \in Addr \cup {0, Foreign}
    /\ client_addr \in Clients \cup {NoMac}
    /\ pool \in (Addr \cup {0}) \X (Addr \cup {0}) /\ pool_set \in BOOLEAN
    /\ net \in (Addr \cup {0}) \X (Addr \cup {0})
    /\ pc \in {"idle", "acked", "fault"}
    /\ reply \in [type : {"NONE", "OFFER", "ACK", "NAK"},
                  to : Clients \cup {NoMac}, ip : Addr \cup {0}]
    /\ holds \in [Clients -> Addr \cup {0}]

(* No address is in use by two clients, although offers are not reserved,  *)
(* any client may answer an offer made to another one, and answers get     *)
(* lost.  The addresses of the fifth bitmap range are excluded: their bit  *)
(* may never be set (mark_ip_in_table).                                    *)
UniqueLease ==
    \A c1, c2 \in Clients :
        (c1 # c2 /\ holds[c1] = holds[c2] /\ holds[c1] # 0)
            => holds[c1] \in Range5

(* A lease in use is latched and carries its owner in the table (unless    *)
(* the callback is just about to record it), so search_next_ip cannot give *)
(* it away and a renewal can be recognised.                                *)
HeldIsLatched ==
    \A c \in Clients :
        (holds[c] # 0 /\ holds[c] \notin Range5)
            => \/ holds[c] \in ip_range /\ client_mac[holds[c]] = c
               \/ pc # "idle" /\ allocated = holds[c] /\ client_addr = c

(* The address under negotiation is in use by nobody: the first client     *)
(* that requests it may have it.                                           *)
OfferNotInUse ==
    (fsm = "OFFER" /\ allocated \notin Range5 /\ allocated # 0)
        => \A c \in Clients : holds[c] # allocated

(* Between the transmission of an ACK and the latching of its address, no  *)
(* other client uses that address: recording the new owner overwrites      *)
(* nobody's lease.                                                         *)
PendingAckNotInUse ==
    (pc # "idle" /\ allocated \notin Range5 /\ allocated # 0)
        => \A c \in Clients : holds[c] = allocated => c = client_addr

(* The server never grants its own address or the gateway's.               *)
OwnAddressNotGranted ==
    \A c \in Clients : holds[c] # 0 => holds[c] # net[1] /\ holds[c] # net[2]

(* After the callback has handled a granted REQUEST, the granted address   *)
(* is latched: the documented effect of mark_ip_in_table.                  *)
AckedIsLatched ==
    (pc = "idle" /\ pcb /\ reply.type = "ACK" /\ holds[reply.to] = reply.ip)
        => reply.ip = 0 \/ reply.ip \in ip_range

(* The semaphore the callback is about to take exists.                     *)
SemaphoreExists == pc # "fault"

(* A lease is granted out of an open offer only to the client the offer    *)
(* was sent to, as the transaction id is there to ensure.                  *)
AckAnswersOffer ==
    [][(fsm = "OFFER" /\ fsm' = "ACK") => reply'.to = reply.to]_vars
=============================================================================
