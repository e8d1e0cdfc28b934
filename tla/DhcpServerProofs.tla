-------------------------- MODULE DhcpServerProofs --------------------------
(***************************************************************************)
(* Proofs about the DHCP server, for any number of clients, any pool and   *)
(* any word width.  Unique leases need an inductive invariant of three     *)
(* parts besides the types: every lease in use is latched under its        *)
(* owner's hardware address, the address under negotiation is in use by    *)
(* nobody, and the address of a sent but not yet recorded ACK is in use by *)
(* no client but the one it was sent to.                                   *)
(***************************************************************************)
EXTENDS DhcpServer, TLAPS

(* The inductive invariant of the lease table.                             *)
LeaseInv ==
    /\ TypeOK
    /\ HeldIsLatched
    /\ OfferNotInUse
    /\ PendingAckNotInUse

(* What the table lookup may return: no address, or an address of the      *)
(* fixed pool that the table records under the client's hardware address.  *)
LEMMA CheckClientRequestIp ==
    ASSUME TypeOK, NEW mac \in Clients, NEW ip \in check_client_request_ip(mac)
    PROVE  /\ ip \in Addr \cup {0}
           /\ ip # 0 => client_mac[ip] = mac
  BY DhcpAssumption
     DEF TypeOK, check_client_request_ip, Recognised, MaybeRecognised, Addr

(* What the search may return: no address, or one that is not latched.     *)
LEMMA SearchNextIp ==
    ASSUME TypeOK, NEW ip \in search_next_ip
    PROVE  /\ ip \in Addr \cup {0}
           /\ ip # 0 => ip \notin ip_range
  BY DhcpAssumption DEF TypeOK, search_next_ip, FreeAddrs, Addr

(* Latching keeps every latched address, and latches d unless d is 0 or in *)
(* the fifth bitmap range.                                                 *)
LEMMA MarkIpInTable ==
    ASSUME NEW t \in SUBSET Addr, NEW d \in Addr \cup {0},
           NEW u \in mark_ip_in_table(t, d)
    PROVE  /\ u \in SUBSET Addr
           /\ t \subseteq u
           /\ d = 0 \/ d \in Range5 \/ d \in u
  BY DEF mark_ip_in_table

(* Options of a packet keep the types of what they set.                    *)
LEMMA ReceiveType ==
    ASSUME TypeOK, NEW c \in Clients, NEW req \in ReqAddrs,
           NEW type, Receive(c, type, req)
    PROVE  /\ client_addr' \in Clients \cup {NoMac}
           /\ client_request_ip' \in Addr \cup {0, Foreign}
           /\ pcb' = pcb /\ sema' = sema /\ ip_range' = ip_range
           /\ client_mac' = client_mac /\ pool' = pool /\ net' = net
           /\ pool_set' = pool_set
           /\ pc = "idle" /\ client_addr' = c
  BY DhcpAssumption DEF TypeOK, Receive, dhcps_handle_msg_options

(* An ACK changes at most the holding of the client it is sent to.         *)
LEMMA SendAckHolds ==
    ASSUME TypeOK, NEW c \in Clients, NEW ip \in Addr \cup {0},
           dhcps_send_ack(c, ip), NEW d \in Clients
    PROVE  holds'[d] = holds[d] \/ (d = c /\ holds'[d] = ip)
<1>1. CASE holds' = holds
  BY <1>1
<1>2. CASE holds' = [holds EXCEPT ![c] = ip]
  BY <1>2 DEF TypeOK
<1> QED
  BY <1>1, <1>2 DEF dhcps_send_ack

(* Every variable of the server keeps its type: in particular the table    *)
(* index and the address under negotiation stay octets of the subnet, for  *)
(* any sequence of packets, restarts and pool changes.                     *)
THEOREM TypeCorrect == Spec => []TypeOK
<1>1. Init => TypeOK
  <2> SUFFICES ASSUME Init PROVE TypeOK
    OBVIOUS
  <2>1. pool \in (Addr \cup {0}) \X (Addr \cup {0}) /\ pool_set \in BOOLEAN
        /\ net \in (Addr \cup {0}) \X (Addr \cup {0})
    BY DEF Init, NoPool
  <2>2. client_mac \in [Addr \cup {0} -> Clients \cup {NoMac}]
        /\ holds \in [Clients -> Addr \cup {0}]
    BY DEF Init
  <2>3. reply \in [type : {"NONE", "OFFER", "ACK", "NAK"},
                  to : Clients \cup {NoMac}, ip : Addr \cup {0}]
    BY DEF Init
  <2> QED
    BY <2>1, <2>2, <2>3 DEF Init, TypeOK
<1>2. TypeOK /\ [Next]_vars => TypeOK'
  <2> SUFFICES ASSUME TypeOK, [Next]_vars PROVE TypeOK'
    OBVIOUS
  <2>1. ASSUME NEW c \in Clients, NEW req \in ReqAddrs, RecvDiscover(c, req)
        PROVE  TypeOK'
    BY <2>1, ReceiveType, CheckClientRequestIp, SearchNextIp
       DEF TypeOK, RecvDiscover, dhcps_send_offer
  <2>2. ASSUME NEW c \in Clients, NEW req \in ReqAddrs,
               RecvRequestOffered(c, req)
        PROVE  TypeOK'
    BY <2>2, ReceiveType
       DEF TypeOK, RecvRequestOffered, dhcps_send_ack, dhcps_send_nak
  <2>3. ASSUME NEW c \in Clients, NEW req \in ReqAddrs,
               RecvRequestIdle(c, req)
        PROVE  TypeOK'
    BY <2>3, ReceiveType, CheckClientRequestIp
       DEF TypeOK, RecvRequestIdle, dhcps_send_ack, dhcps_send_nak
  <2>4. ASSUME NEW c \in Clients, NEW req \in ReqAddrs, NEW type,
               CloseOffer(c, type, req)
        PROVE  TypeOK'
    BY <2>4, ReceiveType DEF TypeOK, CloseOffer
  <2>5. ASSUME NEW c \in Clients, NEW req \in ReqAddrs, RecvOther(c, req)
        PROVE  TypeOK'
    BY <2>5, ReceiveType, CheckClientRequestIp, SearchNextIp
       DEF TypeOK, RecvOther, dhcps_send_offer
  <2>6. ASSUME NEW c \in Clients, RecvNotDhcp(c) PROVE TypeOK'
    BY <2>6 DEF TypeOK, RecvNotDhcp
  <2>7. CASE AckTail
    BY <2>7, MarkIpInTable DEF TypeOK, AckTail
  <2>8. CASE AckTailFault
    BY <2>8 DEF TypeOK, AckTailFault
  <2>9. ASSUME NEW cfg \in NetConfigs, dhcps_init(cfg) PROVE TypeOK'
    <3>1. cfg[1] \in Addr \cup {0} /\ cfg[2] \in Addr \cup {0}
          /\ cfg \in (Addr \cup {0}) \X (Addr \cup {0})
      BY DhcpAssumption
    <3>2. ip_range' \subseteq Addr
      BY <2>9, <3>1, MarkIpInTable DEF dhcps_init
    <3>3. <<PoolStart, PoolEnd>> \in (Addr \cup {0}) \X (Addr \cup {0})
      BY DhcpAssumption
    <3> QED
      BY <2>9, <3>1, <3>2, <3>3 DEF TypeOK, dhcps_init, DefaultPool
  <2>10. CASE dhcps_init_nopcb
    <3>1. /\ client_mac' \in [Addr \cup {0} -> Clients \cup {NoMac}]
          /\ holds' \in [Clients -> Addr \cup {0}]
      BY <2>10 DEF dhcps_init_nopcb
    <3>2. pcb' \in BOOLEAN /\ sema' \in BOOLEAN /\ pool_set' \in BOOLEAN
      BY <2>10 DEF TypeOK, dhcps_init_nopcb
    <3>3. /\ ip_range' = {} /\ fsm' = fsm /\ allocated' = allocated
          /\ client_request_ip' = client_request_ip /\ client_addr' = client_addr
          /\ pool' = pool /\ net' = net /\ pc' = pc /\ reply' = reply
      BY <2>10 DEF dhcps_init_nopcb
    <3> QED
      BY <3>1, <3>2, <3>3 DEF TypeOK
  <2>11. CASE dhcps_deinit
    BY <2>11 DEF TypeOK, dhcps_deinit
  <2>12. ASSUME NEW p \in AddrPools, dhcps_set_addr_pool(p) PROVE TypeOK'
    BY <2>12, DhcpAssumption DEF TypeOK, dhcps_set_addr_pool
  <2>13. ASSUME NEW c \in Clients, ClientDrop(c) PROVE TypeOK'
    BY <2>13 DEF TypeOK, ClientDrop
  <2>14. CASE UNCHANGED vars
    BY <2>14 DEF TypeOK, vars
  <2> QED
    BY <2>1, <2>2, <2>3, <2>4, <2>5, <2>6, <2>7, <2>8, <2>9, <2>10, <2>11,
       <2>12, <2>13, <2>14
       DEF Next, Others, Known, RecvDecline, RecvRelease, Control
<1> QED
  BY <1>1, <1>2, PTL DEF Spec

(* The lease invariant is inductive as long as no station that uses a      *)
(* lease sends an unknown message (DHCPINFORM) while an offer is open: the *)
(* server would offer the sender's own lease to everybody.                 *)
LEMMA LeaseStep ==
    ASSUME LeaseInv, TypeOK', [QuietNext]_vars
    PROVE  HeldIsLatched' /\ OfferNotInUse' /\ PendingAckNotInUse'
<1> USE DEF LeaseInv
<1>0. ASSUME NEW c \in Clients, NEW req \in ReqAddrs, NEW type,
             Receive(c, type, req), dhcps_send_offer(c),
             holds' = [holds EXCEPT ![c] = 0], pc' = pc
      PROVE  HeldIsLatched' /\ OfferNotInUse' /\ PendingAckNotInUse'
  <2>0. PICK t \in check_client_request_ip(c), n \in search_next_ip :
            allocated' = IF t # 0 THEN t ELSE n
    BY <1>0 DEF dhcps_send_offer
  <2>1. /\ pc = "idle" /\ pc' = "idle"
        /\ ip_range' = ip_range /\ client_mac' = client_mac
        /\ holds' = [holds EXCEPT ![c] = 0]
    BY <1>0, ReceiveType
  <2>2. HeldIsLatched'
    BY <2>1 DEF HeldIsLatched, TypeOK
  <2>3. ASSUME NEW d \in Clients, allocated' \notin Range5, allocated' # 0,
               holds'[d] = allocated'
        PROVE  FALSE
    <3>1. d # c /\ holds[d] = allocated'
      BY <2>1, <2>3 DEF TypeOK
    <3>2. allocated' \in ip_range /\ client_mac[allocated'] = d
      BY <2>1, <2>3, <3>1 DEF HeldIsLatched
    <3>3. CASE t # 0
      BY <2>0, <3>1, <3>2, <3>3, CheckClientRequestIp
    <3>4. CASE t = 0
      BY <2>0, <2>3, <3>2, <3>4, SearchNextIp
    <3> QED
      BY <3>3, <3>4
  <2> QED
    BY <2>1, <2>2, <2>3 DEF OfferNotInUse, PendingAckNotInUse
<1>1. ASSUME NEW c \in Clients, NEW req \in ReqAddrs, RecvDiscover(c, req)
      PROVE  HeldIsLatched' /\ OfferNotInUse' /\ PendingAckNotInUse'
  BY <1>0, <1>1 DEF RecvDiscover
<1>2. ASSUME NEW c \in Clients, NEW req \in ReqAddrs,
             RecvRequestOffered(c, req)
      PROVE  HeldIsLatched' /\ OfferNotInUse' /\ PendingAckNotInUse'
  <2>1. /\ pc = "idle" /\ fsm = "OFFER"
        /\ ip_range' = ip_range /\ client_mac' = client_mac
        /\ client_addr' = c /\ allocated' = allocated
    BY <1>2, ReceiveType DEF RecvRequestOffered, dhcps_send_nak
  <2>2. CASE dhcps_send_ack(c, allocated)
    <3>1. /\ pc' = "acked" /\ fsm' = "ACK"
          /\ \A d \in Clients : holds'[d] = holds[d]
                                \/ (d = c /\ holds'[d] = allocated)
      BY <2>2, SendAckHolds DEF dhcps_send_ack, TypeOK
    <3> QED
      BY <2>1, <3>1
         DEF HeldIsLatched, OfferNotInUse, PendingAckNotInUse
  <2>3. CASE dhcps_send_nak(c)
    <3>1. /\ pc' = "idle" /\ fsm' = "IDLE"
          /\ \A d \in Clients : holds'[d] = holds[d] \/ holds'[d] = 0
      BY <2>1, <2>3 DEF dhcps_send_nak, TypeOK
    <3> QED
      BY <2>1, <3>1
         DEF HeldIsLatched, OfferNotInUse, PendingAckNotInUse
  <2> QED
    BY <1>2, <2>2, <2>3 DEF RecvRequestOffered
<1>3. ASSUME NEW c \in Clients, NEW req \in ReqAddrs,
             RecvRequestIdle(c, req)
      PROVE  HeldIsLatched' /\ OfferNotInUse' /\ PendingAckNotInUse'
  <2>1. /\ pc = "idle" /\ client_addr' = c
        /\ ip_range' = ip_range /\ client_mac' = client_mac
    BY <1>3, ReceiveType DEF RecvRequestIdle
  <2>2. ASSUME NEW ip \in check_client_request_ip(c), ip # 0,
               allocated' = ip, dhcps_send_ack(c, ip)
        PROVE  HeldIsLatched' /\ OfferNotInUse' /\ PendingAckNotInUse'
    <3>1. /\ pc' = "acked" /\ fsm' = "ACK"
          /\ \A d \in Clients : holds'[d] = holds[d] \/ (d = c /\ holds'[d] = ip)
      BY <2>2, SendAckHolds, CheckClientRequestIp DEF dhcps_send_ack
    <3>2. client_mac[ip] = c
      BY <2>2, CheckClientRequestIp
    <3> QED
      BY <2>1, <2>2, <3>1, <3>2
         DEF HeldIsLatched, OfferNotInUse, PendingAckNotInUse
  <2>3. ASSUME dhcps_send_nak(c)
        PROVE  HeldIsLatched' /\ OfferNotInUse' /\ PendingAckNotInUse'
    <3>1. /\ pc' = "idle" /\ fsm' = "IDLE"
          /\ \A d \in Clients : holds'[d] = holds[d] \/ holds'[d] = 0
      BY <2>1, <2>3 DEF dhcps_send_nak, TypeOK
    <3> QED
      BY <2>1, <3>1
         DEF HeldIsLatched, OfferNotInUse, PendingAckNotInUse
  <2> QED
    BY <1>3, <2>2, <2>3 DEF RecvRequestIdle
<1>4. ASSUME NEW c \in Clients, NEW req \in ReqAddrs, NEW type,
             CloseOffer(c, type, req)
      PROVE  HeldIsLatched' /\ OfferNotInUse' /\ PendingAckNotInUse'
  BY <1>4, ReceiveType
     DEF CloseOffer, HeldIsLatched, OfferNotInUse, PendingAckNotInUse,
         TypeOK
<1>5. ASSUME NEW c \in Clients, NEW req \in ReqAddrs, RecvOther(c, req),
             fsm = "OFFER" => holds[c] = 0
      PROVE  HeldIsLatched' /\ OfferNotInUse' /\ PendingAckNotInUse'
  <2>1. CASE fsm = "OFFER"
    <3>1. holds' = [holds EXCEPT ![c] = 0]
      BY <1>5, <2>1 DEF RecvOther, TypeOK
    <3> QED
      BY <1>0, <1>5, <2>1, <3>1 DEF RecvOther
  <2>2. CASE fsm # "OFFER"
    <3>1. /\ pc = "idle" /\ pc' = pc /\ fsm' = fsm /\ holds' = holds
          /\ ip_range' = ip_range /\ client_mac' = client_mac
      BY <1>5, ReceiveType DEF RecvOther
    <3> QED
      BY <2>2, <3>1 DEF HeldIsLatched, OfferNotInUse, PendingAckNotInUse
  <2> QED
    BY <2>1, <2>2
<1>6. ASSUME NEW c \in Clients, RecvNotDhcp(c)
      PROVE  HeldIsLatched' /\ OfferNotInUse' /\ PendingAckNotInUse'
  BY <1>6 DEF RecvNotDhcp, HeldIsLatched, OfferNotInUse, PendingAckNotInUse
<1>7. CASE AckTail
  <2>1. /\ pc = "acked" /\ pc' = "idle" /\ fsm' = "IDLE"
        /\ holds' = holds
        /\ client_mac' = [client_mac EXCEPT ![allocated] = client_addr]
    BY <1>7 DEF AckTail
  <2>2. ip_range \subseteq ip_range'
        /\ (allocated = 0 \/ allocated \in Range5 \/ allocated \in ip_range')
    BY <1>7, MarkIpInTable DEF AckTail, TypeOK
  <2>3. HeldIsLatched'
    <3> SUFFICES ASSUME NEW c \in Clients,
                        holds[c] # 0, holds[c] \notin Range5
                 PROVE  holds[c] \in ip_range' /\ client_mac'[holds[c]] = c
      BY <2>1 DEF HeldIsLatched
    <3>1. CASE holds[c] = allocated
      BY <2>1, <2>2, <3>1 DEF PendingAckNotInUse, TypeOK
    <3>2. CASE holds[c] # allocated
      BY <2>1, <2>2, <3>2 DEF HeldIsLatched, TypeOK
    <3> QED
      BY <3>1, <3>2
  <2> QED
    BY <2>1, <2>3 DEF OfferNotInUse, PendingAckNotInUse
<1>8. CASE AckTailFault
  BY <1>8 DEF AckTailFault, HeldIsLatched, OfferNotInUse, PendingAckNotInUse
<1>9. ASSUME holds' = [c \in Clients |-> 0]
      PROVE  HeldIsLatched' /\ OfferNotInUse' /\ PendingAckNotInUse'
  BY <1>9 DEF HeldIsLatched, OfferNotInUse, PendingAckNotInUse
<1>10. CASE dhcps_deinit
  BY <1>10 DEF dhcps_deinit, HeldIsLatched, OfferNotInUse, PendingAckNotInUse
<1>11. ASSUME NEW p \in AddrPools, dhcps_set_addr_pool(p)
       PROVE  HeldIsLatched' /\ OfferNotInUse' /\ PendingAckNotInUse'
  BY <1>11 DEF dhcps_set_addr_pool, HeldIsLatched, OfferNotInUse,
               PendingAckNotInUse
<1>12. ASSUME NEW c \in Clients, ClientDrop(c)
       PROVE  HeldIsLatched' /\ OfferNotInUse' /\ PendingAckNotInUse'
  BY <1>12 DEF ClientDrop, HeldIsLatched, OfferNotInUse, PendingAckNotInUse,
               TypeOK
<1>13. CASE UNCHANGED vars
  BY <1>13 DEF vars, HeldIsLatched, OfferNotInUse, PendingAckNotInUse
<1>14. ASSUME NEW cfg \in NetConfigs, dhcps_init(cfg)
       PROVE  HeldIsLatched' /\ OfferNotInUse' /\ PendingAckNotInUse'
  BY <1>9, <1>14 DEF dhcps_init
<1>15. CASE dhcps_init_nopcb
  BY <1>9, <1>15 DEF dhcps_init_nopcb
<1> QED
  BY <1>1, <1>2, <1>3, <1>4, <1>5, <1>6, <1>7, <1>8, <1>10, <1>11, <1>12,
     <1>13, <1>14, <1>15
     DEF QuietNext, Others, Known, RecvDecline, RecvRelease, Control

(* Two different owners of one latched address, or an owner and a pending  *)
(* ACK, contradict the invariant.                                          *)
LEMMA LeaseInvImpliesUnique == LeaseInv => UniqueLease
  BY DEF LeaseInv, HeldIsLatched, PendingAckNotInUse, UniqueLease

(* The invariant holds in every state of a quiet behaviour.                *)
THEOREM LeasesLatched == QuietSpec => []LeaseInv
<1>1. Init => HeldIsLatched /\ OfferNotInUse /\ PendingAckNotInUse
  BY DEF Init, HeldIsLatched, OfferNotInUse, PendingAckNotInUse
<1>2. TypeOK /\ TypeOK' /\ HeldIsLatched /\ OfferNotInUse
        /\ PendingAckNotInUse /\ [QuietNext]_vars
      => HeldIsLatched' /\ OfferNotInUse' /\ PendingAckNotInUse'
  BY LeaseStep DEF LeaseInv
<1>3. [QuietNext]_vars => [Next]_vars
  BY DEF QuietNext, Next
<1> QED
  BY <1>1, <1>2, <1>3, TypeCorrect, PTL DEF Spec, QuietSpec, LeaseInv

(* Every lease in use outside the fifth bitmap range is latched under its  *)
(* owner's hardware address, unless the callback is just recording it, so  *)
(* that search_next_ip cannot give it away; as long as no station that     *)
(* uses a lease sends an unknown message while an offer is open.           *)
THEOREM LeasesHeld == QuietSpec => []HeldIsLatched
<1>1. LeaseInv => HeldIsLatched
  BY DEF LeaseInv
<1> QED BY <1>1, LeasesLatched, PTL

(* No two clients use one address outside the fifth bitmap range, whatever *)
(* they request, however many answers are lost, and however often the      *)
(* server is restarted or its pool changed or switched off; with the same  *)
(* exception, which is needed (unknown messages in all other cases are     *)
(* included).                                                              *)
THEOREM LeasesUnique == QuietSpec => []UniqueLease
  BY LeasesLatched, LeaseInvImpliesUnique, PTL

-----------------------------------------------------------------------------
(* What an offer may name: no address, the one recorded for the client, or *)
(* one that is not latched.                                                *)
LEMMA OfferedAddress ==
    ASSUME TypeOK, NEW c \in Clients, dhcps_send_offer(c)
    PROVE  /\ allocated' \in Addr \cup {0}
           /\ \/ allocated' = 0
              \/ client_mac[allocated'] = c
              \/ allocated' \notin ip_range
           /\ reply'.type = "OFFER"
<1>1. PICK t \in check_client_request_ip(c), n \in search_next_ip :
          /\ allocated' = IF t # 0 THEN t ELSE n
          /\ reply' = [type |-> "OFFER", to |-> c,
                       ip |-> IF t # 0 THEN t ELSE n]
  BY DEF dhcps_send_offer
<1>2. CASE t # 0
  BY <1>1, <1>2, CheckClientRequestIp
<1>3. CASE t = 0
  BY <1>1, <1>3, SearchNextIp
<1> QED
  BY <1>2, <1>3

(* The interface keeps one configuration, whose addresses are outside the  *)
(* fifth bitmap range.  With two configurations an offer that dhcps_init   *)
(* did not withdraw may name the new interface's own address.              *)
OneNetwork ==
    /\ \A n1, n2 \in NetConfigs : n1 = n2
    /\ \A n \in NetConfigs : n[1] \notin Range5 /\ n[2] \notin Range5

(* An address of the interface.                                            *)
Own(a) == a # 0 /\ \E n \in NetConfigs : a = n[1] \/ a = n[2]

(* Why own addresses are not granted: they are latched while packets are   *)
(* received and nobody's, so neither lookup can return one; and the        *)
(* negotiation that survives a restart never named one.                    *)
OwnInv ==
    /\ net = <<0, 0>> \/ net \in NetConfigs
    /\ pcb => \A a \in Addr : Own(a) => a \in ip_range
    /\ \A a \in Addr : Own(a) => client_mac[a] = NoMac
    /\ ~Own(allocated)
    /\ \A c \in Clients : ~Own(holds[c])

(* Every step keeps it, packets of unknown types included.                 *)
LEMMA OwnStep ==
    ASSUME OneNetwork, TypeOK, TypeOK', OwnInv, [Next]_vars
    PROVE  OwnInv'
<1>1. ASSUME NEW c \in Clients, NEW req \in ReqAddrs, NEW type,
             Receive(c, type, req), dhcps_send_offer(c),
             \A d \in Clients : holds'[d] = holds[d] \/ holds'[d] = 0
      PROVE  OwnInv'
  <2>1. ~Own(allocated')
    BY <1>1, OfferedAddress, DhcpAssumption
       DEF OwnInv, Own, Receive
  <2>2. \A d \in Clients : ~Own(holds'[d])
    BY <1>1 DEF OwnInv, Own
  <2> QED
    BY <1>1, <2>1, <2>2, ReceiveType DEF OwnInv, Own
<1>2. ASSUME NEW c \in Clients, NEW req \in ReqAddrs, NEW type,
             Receive(c, type, req), ~Own(allocated'),
             \A d \in Clients : \/ holds'[d] = holds[d]
                                \/ holds'[d] = 0
                                \/ holds'[d] = allocated'
      PROVE  OwnInv'
  <2>1. \A d \in Clients : ~Own(holds'[d])
    BY <1>2 DEF OwnInv, Own
  <2> QED
    BY <1>2, <2>1, ReceiveType DEF OwnInv, Own
<1>3. ASSUME NEW c \in Clients, NEW req \in ReqAddrs, RecvDiscover(c, req)
      PROVE  OwnInv'
  <2>1. \A d \in Clients : holds'[d] = holds[d] \/ holds'[d] = 0
    BY <1>3 DEF RecvDiscover, TypeOK
  <2> QED
    BY <1>1, <1>3, <2>1 DEF RecvDiscover
<1>4. ASSUME NEW c \in Clients, NEW req \in ReqAddrs,
             RecvRequestOffered(c, req)
      PROVE  OwnInv'
  <2>1. allocated' = allocated
    BY <1>4 DEF RecvRequestOffered, dhcps_send_nak
  <2>2. \A d \in Clients : \/ holds'[d] = holds[d]
                           \/ holds'[d] = 0
                           \/ holds'[d] = allocated'
    BY <1>4, <2>1 DEF RecvRequestOffered, dhcps_send_ack, dhcps_send_nak, TypeOK
  <2>3. ~Own(allocated')
    BY <2>1 DEF OwnInv, Own
  <2> QED
    BY <1>2, <1>4, <2>2, <2>3 DEF RecvRequestOffered
<1>5. ASSUME NEW c \in Clients, NEW req \in ReqAddrs,
             RecvRequestIdle(c, req)
      PROVE  OwnInv'
  <2>1. PICK ip \in check_client_request_ip(c) :
            \/ ip # 0 /\ allocated' = ip /\ dhcps_send_ack(c, ip)
            \/ ip = 0 /\ dhcps_send_nak(c)
    BY <1>5 DEF RecvRequestIdle
  <2>2. CASE ip # 0 /\ allocated' = ip /\ dhcps_send_ack(c, ip)
    <3>1. ip \in Addr /\ client_mac[ip] = c /\ c # NoMac
      BY <2>2, CheckClientRequestIp, DhcpAssumption
    <3>2. ~Own(allocated')
      BY <2>2, <3>1 DEF OwnInv
    <3>3. \A d \in Clients : \/ holds'[d] = holds[d]
                             \/ holds'[d] = 0
                             \/ holds'[d] = allocated'
      BY <2>2 DEF dhcps_send_ack, TypeOK
    <3> QED
      BY <1>2, <1>5, <3>2, <3>3 DEF RecvRequestIdle
  <2>3. CASE ip = 0 /\ dhcps_send_nak(c)
    <3>1. allocated' = allocated
          /\ \A d \in Clients : holds'[d] = holds[d] \/ holds'[d] = 0
      BY <2>3 DEF dhcps_send_nak, TypeOK
    <3>2. ~Own(allocated')
      BY <3>1 DEF OwnInv, Own
    <3> QED
      BY <1>2, <1>5, <3>1, <3>2 DEF RecvRequestIdle
  <2> QED
    BY <2>1, <2>2, <2>3
<1>6. ASSUME NEW c \in Clients, NEW req \in ReqAddrs, NEW type,
             CloseOffer(c, type, req)
      PROVE  OwnInv'
  <2>1. allocated' = allocated
        /\ \A d \in Clients : holds'[d] = holds[d] \/ holds'[d] = 0
    BY <1>6 DEF CloseOffer, TypeOK
  <2>2. ~Own(allocated')
    BY <2>1 DEF OwnInv, Own
  <2> QED
    BY <1>2, <1>6, <2>1, <2>2 DEF CloseOffer
<1>7. ASSUME NEW c \in Clients, NEW req \in ReqAddrs, RecvOther(c, req)
      PROVE  OwnInv'
  <2>1. CASE dhcps_send_offer(c)
    BY <1>1, <1>7, <2>1 DEF RecvOther
  <2>2. CASE UNCHANGED allocated
    <3>1. ~Own(allocated')
      BY <2>2 DEF OwnInv, Own
    <3> QED
      BY <1>2, <1>7, <3>1 DEF RecvOther
  <2> QED
    BY <1>7, <2>1, <2>2 DEF RecvOther
<1>8. ASSUME NEW c \in Clients, RecvNotDhcp(c) PROVE OwnInv'
  BY <1>8 DEF RecvNotDhcp, OwnInv, Own
<1>9. CASE AckTail
  <2>1. /\ allocated' = 0 /\ net' = net /\ pcb' = pcb /\ holds' = holds
        /\ client_mac' = [client_mac EXCEPT ![allocated] = client_addr]
        /\ ip_range \subseteq ip_range'
    BY <1>9, MarkIpInTable DEF AckTail, TypeOK
  <2>2. \A a \in Addr : Own(a) => client_mac'[a] = NoMac
    BY <2>1 DEF OwnInv, Own, TypeOK
  <2> QED
    BY <2>1, <2>2 DEF OwnInv, Own
<1>10. CASE AckTailFault
  BY <1>10 DEF AckTailFault, OwnInv, Own
<1>11. ASSUME NEW cfg \in NetConfigs, dhcps_init(cfg) PROVE OwnInv'
  <2>1. /\ cfg[1] \in Addr \cup {0} /\ cfg[2] \in Addr \cup {0}
        /\ cfg[1] \notin Range5 /\ cfg[2] \notin Range5
    BY DhcpAssumption DEF OneNetwork
  <2>2. PICK t \in mark_ip_in_table({}, cfg[1]) :
            ip_range' \in mark_ip_in_table(t, cfg[2])
    BY <1>11 DEF dhcps_init
  <2>3. (cfg[1] = 0 \/ cfg[1] \in ip_range')
        /\ (cfg[2] = 0 \/ cfg[2] \in ip_range')
    BY <2>1, <2>2, MarkIpInTable
  <2>4. \A a \in Addr : Own(a) => a \in ip_range'
    BY <2>3 DEF OneNetwork, Own
  <2>5. /\ net' = cfg /\ allocated' = allocated
        /\ holds' = [c \in Clients |-> 0]
        /\ client_mac' = [i \in Addr \cup {0} |-> NoMac]
    BY <1>11 DEF dhcps_init
  <2> QED
    BY <2>4, <2>5 DEF OwnInv, Own
<1>12. CASE dhcps_init_nopcb
  BY <1>12 DEF dhcps_init_nopcb, OwnInv, Own
<1>13. CASE dhcps_deinit
  BY <1>13 DEF dhcps_deinit, OwnInv, Own
<1>14. ASSUME NEW p \in AddrPools, dhcps_set_addr_pool(p) PROVE OwnInv'
  BY <1>14 DEF dhcps_set_addr_pool, OwnInv, Own
<1>15. ASSUME NEW c \in Clients, ClientDrop(c) PROVE OwnInv'
  BY <1>15 DEF ClientDrop, OwnInv, Own, TypeOK
<1>16. CASE UNCHANGED vars
  BY <1>16 DEF vars, OwnInv, Own
<1> QED
  BY <1>3, <1>4, <1>5, <1>6, <1>7, <1>8, <1>9, <1>10, <1>11, <1>12, <1>13,
     <1>14, <1>15, <1>16
     DEF Next, Others, Known, RecvDecline, RecvRelease, Control

(* While the interface keeps its configuration, the server never grants    *)
(* its own address or the gateway's: not out of the pool that contains     *)
(* them, not to a station that asks for them, and not through a            *)
(* negotiation left open by a restart; unknown message types included.     *)
THEOREM OwnNotGranted ==
    ASSUME OneNetwork
    PROVE  Spec => []OwnAddressNotGranted
<1>1. Init => OwnInv
  <2> SUFFICES ASSUME Init PROVE OwnInv
    OBVIOUS
  <2> QED
    BY DEF Init, OwnInv, Own
<1>2. TypeOK /\ TypeOK' /\ OwnInv /\ [Next]_vars => OwnInv'
  BY OwnStep
<1>3. TypeOK /\ OwnInv => OwnAddressNotGranted
  BY DEF OwnInv, Own, OwnAddressNotGranted, TypeOK
<1> QED
  BY <1>1, <1>2, <1>3, TypeCorrect, PTL DEF Spec

-----------------------------------------------------------------------------
(* Why a granted address is latched: the last ACK's address, as long as    *)
(* its client uses it, is in the table or about to be put there.           *)
AckInv ==
    reply.type = "ACK" =>
        /\ reply.to \in Clients
        /\ (reply.ip \notin Range5 \cup {0} /\ holds[reply.to] = reply.ip) =>
                \/ reply.ip \in ip_range
                \/ pc # "idle" /\ allocated = reply.ip

(* Every step keeps it, packets of unknown types included.                 *)
LEMMA AckStep ==
    ASSUME TypeOK, TypeOK', AckInv, [Next]_vars
    PROVE  AckInv'
<1>1. ASSUME NEW c \in Clients, NEW req \in ReqAddrs, NEW type,
             Receive(c, type, req), dhcps_send_offer(c)
      PROVE  AckInv'
  BY <1>1, ReceiveType DEF AckInv, dhcps_send_offer
<1>2. ASSUME NEW c \in Clients, NEW req \in ReqAddrs, NEW type,
             NEW ip \in Addr, Receive(c, type, req),
             allocated' = ip, dhcps_send_ack(c, ip)
      PROVE  AckInv'
  <2>1. /\ reply' = [type |-> "ACK", to |-> c, ip |-> ip]
        /\ pc' = "acked"
    BY <1>2 DEF dhcps_send_ack
  <2> QED
    BY <1>2, <2>1, ReceiveType DEF AckInv
<1>3. ASSUME NEW c \in Clients, NEW req \in ReqAddrs, NEW type,
             Receive(c, type, req), dhcps_send_nak(c)
      PROVE  AckInv'
  BY <1>3, ReceiveType DEF AckInv, dhcps_send_nak
<1>4. ASSUME reply' = reply, allocated' = allocated, pc' = pc,
             ip_range' = ip_range,
             \A d \in Clients : holds'[d] = holds[d] \/ holds'[d] = 0
      PROVE  AckInv'
  BY <1>4 DEF AckInv
<1>5. ASSUME NEW c \in Clients, NEW req \in ReqAddrs, RecvDiscover(c, req)
      PROVE  AckInv'
  BY <1>1, <1>5 DEF RecvDiscover
<1>6. ASSUME NEW c \in Clients, NEW req \in ReqAddrs,
             RecvRequestOffered(c, req)
      PROVE  AckInv'
  <2>1. CASE allocated # 0 /\ dhcps_send_ack(c, allocated)
             /\ UNCHANGED allocated
    BY <1>2, <1>6, <2>1 DEF RecvRequestOffered, AckInv, TypeOK
  <2> QED
    BY <1>3, <1>6, <2>1 DEF RecvRequestOffered
<1>7. ASSUME NEW c \in Clients, NEW req \in ReqAddrs,
             RecvRequestIdle(c, req)
      PROVE  AckInv'
  <2>1. PICK ip \in check_client_request_ip(c) :
            \/ ip # 0 /\ allocated' = ip /\ dhcps_send_ack(c, ip)
            \/ ip = 0 /\ dhcps_send_nak(c)
    BY <1>7 DEF RecvRequestIdle
  <2>2. ip # 0 => ip \in Addr
    BY CheckClientRequestIp
  <2> QED
    BY <1>2, <1>3, <1>7, <2>1, <2>2 DEF RecvRequestIdle
<1>8. ASSUME NEW c \in Clients, NEW req \in ReqAddrs, NEW type,
             CloseOffer(c, type, req)
      PROVE  AckInv'
  BY <1>4, <1>8 DEF CloseOffer, Receive, TypeOK
<1>9. ASSUME NEW c \in Clients, NEW req \in ReqAddrs, RecvOther(c, req)
      PROVE  AckInv'
  <2>1. CASE dhcps_send_offer(c)
    BY <1>1, <1>9, <2>1 DEF RecvOther
  <2>2. CASE UNCHANGED <<allocated, reply>>
    BY <1>4, <1>9, <2>2 DEF RecvOther, Receive
  <2> QED
    BY <1>9, <2>1, <2>2 DEF RecvOther
<1>10. ASSUME NEW c \in Clients, RecvNotDhcp(c) PROVE AckInv'
  BY <1>4, <1>10 DEF RecvNotDhcp
<1>11. CASE AckTail
  <2>1. holds' = holds /\ reply' = reply
    BY <1>11 DEF AckTail
  <2>2. /\ ip_range \subseteq ip_range'
        /\ allocated \in Range5 \cup {0} \/ allocated \in ip_range'
    BY <1>11, MarkIpInTable DEF AckTail, TypeOK
  <2> QED
    BY <2>1, <2>2 DEF AckInv
<1>12. CASE AckTailFault
  BY <1>12 DEF AckTailFault, AckInv
<1>13. ASSUME NEW cfg \in NetConfigs, dhcps_init(cfg) PROVE AckInv'
  <2>1. /\ reply' = reply /\ holds' = [d \in Clients |-> 0]
    BY <1>13 DEF dhcps_init
  <2> QED
    BY <2>1 DEF AckInv
<1>14. CASE dhcps_init_nopcb
  BY <1>14 DEF dhcps_init_nopcb, AckInv
<1>15. CASE dhcps_deinit
  BY <1>15 DEF dhcps_deinit, AckInv
<1>16. ASSUME NEW p \in AddrPools, dhcps_set_addr_pool(p) PROVE AckInv'
  BY <1>4, <1>16 DEF dhcps_set_addr_pool
<1>17. ASSUME NEW c \in Clients, ClientDrop(c) PROVE AckInv'
  BY <1>4, <1>17 DEF ClientDrop, TypeOK
<1>18. CASE UNCHANGED vars
  BY <1>4, <1>18 DEF vars
<1> QED
  BY <1>5, <1>6, <1>7, <1>8, <1>9, <1>10, <1>11, <1>12, <1>13, <1>14, <1>15,
     <1>16, <1>17, <1>18
     DEF Next, Others, Known, RecvDecline, RecvRelease, Control

(* An address whose ACK the callback has finished handling is latched as   *)
(* long as its client uses it, whatever the pool and whatever is sent,     *)
(* lost or restarted, unless it is in the fifth bitmap range: that is the  *)
(* only reason why mark_ip_in_table can fail to latch a granted address.   *)
THEOREM AckedLatched == Spec => [](AckedIsLatched \/ reply.ip \in Range5)
<1>1. Init => AckInv
  BY DEF Init, AckInv
<1>2. TypeOK /\ TypeOK' /\ AckInv /\ [Next]_vars => AckInv'
  BY AckStep
<1>3. AckInv => AckedIsLatched \/ reply.ip \in Range5
  BY DEF AckInv, AckedIsLatched
<1> QED
  BY <1>1, <1>2, <1>3, TypeCorrect, PTL DEF Spec
=============================================================================
