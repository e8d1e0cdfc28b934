-------------------------- MODULE MqttClientProofs --------------------------
(***************************************************************************)
(* Proofs about the MQTT client task, for any number of sockets, packet    *)
(* identifiers, packets under way and failures.                            *)
(***************************************************************************)
EXTENDS MqttClient, SequenceTheorems, TLAPS

-----------------------------------------------------------------------------
(* The packets that can be under way.                                      *)
Pkt == [type : Types \cup {"NONE", "CONNECT", "SUBSCRIBE", "PINGREQ"},
        id : Ids \cup {0}, qos : {0, 1, 2, Refused}]

Streams ==
    /\ rx \in Seq(Pkt)
    /\ tx \in Seq(Pkt) /\ Len(tx) <= MaxQueue
    /\ faults \in 0 .. MaxFaults

Flags ==
    /\ isconnected \in BOOLEAN /\ rxevent \in BOOLEAN /\ ping_outstanding \in BOOLEAN
    /\ cmd_timer \in BOOLEAN /\ ping_timer \in BOOLEAN /\ handler \in BOOLEAN
    /\ frame \in BOOLEAN /\ subscribed \in BOOLEAN

States ==
    /\ pc \in {"select", "handle", "keepalive", "fault"}
    /\ status \in {"START", "CONNECT", "SUBTOPIC", "RUNNING"}
    /\ link \in {"none", "up", "lost", "closed", "reset"}
    /\ session \in {"none", "connected", "refused"}
    /\ unacked \subseteq Ids /\ delivered \subseteq Ids

(* The client has no socket but my_socket, and the other task has one at   *)
(* most: there is always a descriptor for a new connection.                *)
Sockets ==
    /\ my_socket \in Fds \cup {-1}
    /\ owner \in [Fds -> {"free", "mqtt", "other"}]
    /\ \A f \in Fds : owner[f] = "mqtt" => f = my_socket
    /\ \A f, g \in Fds : owner[f] = "other" /\ owner[g] = "other" => f = g

TypeInv == Streams /\ Flags /\ States /\ Sockets

Connected == status # "START" => Own /\ isconnected /\ link # "none"

-----------------------------------------------------------------------------
Has(s, t) == \E k \in DOMAIN s : s[k].type = t

(* CONNECT is the first packet of a connection; a broker that refused it   *)
(* has closed the connection.                                              *)
Opening ==
    /\ \A k \in DOMAIN tx : tx[k].type = "CONNECT" => k = 1 /\ session = "none"
    /\ session = "refused" => link # "up"
    /\ status = "RUNNING" => handler

(* The rest is about the streams r to the client and t to the broker, the  *)
(* broker's session ses and subscription sub, and the messages una that it *)
(* counts as unacknowledged and del that the client was given.             *)

(* Each step of the client is an answer to one of the broker.              *)
Answers(r, t, ses, sub) ==
    /\ Has(r, "CONNACK") \/ Has(t, "SUBSCRIBE") => ses # "none"
    /\ sub => ses = "connected"
    /\ \A k \in DOMAIN r : r[k].type = "SUBACK" /\ r[k].qos # Refused => sub

(* There is one SUBSCRIBE or one SUBACK.                                   *)
OneSuback(r, t, sub) ==
    /\ Has(t, "SUBSCRIBE") => ~Has(r, "SUBACK") /\ ~sub
    /\ \A k, l \in DOMAIN t : t[k].type = "SUBSCRIBE" /\ t[l].type = "SUBSCRIBE" => k = l
    /\ \A k, l \in DOMAIN r : r[k].type = "SUBACK" /\ r[l].type = "SUBACK" => k = l

Acks == {"PUBACK", "PUBREC", "PUBCOMP"}

(* A message at k in the stream will reach the running client: it does not *)
(* come before the SUBACK.                                                 *)
Live(r, sub, k) == sub /\ \A j \in DOMAIN r : r[j].type = "SUBACK" => j < k

(* Where the exchange about message i is: in a packet to the client or in  *)
(* one to the broker.                                                      *)
InAt(r, sub, i, k) ==
    /\ r[k].id = i
    /\ r[k].type = "PUBREL" \/ (r[k].type = "PUBLISH" /\ Live(r, sub, k))
OutAt(t, i, k) == t[k].id = i /\ t[k].type \in Acks

(* It is in one place at a time, so that an identifier is not forgotten    *)
(* while an acknowledgement that names it is still under way.              *)
OnePlace(r, t, sub, una, i) ==
    /\ \A k, l \in DOMAIN r : InAt(r, sub, i, k) /\ InAt(r, sub, i, l) => k = l
    /\ \A k, l \in DOMAIN t : OutAt(t, i, k) /\ OutAt(t, i, l) => k = l
    /\ \A k \in DOMAIN r, l \in DOMAIN t : ~(InAt(r, sub, i, k) /\ OutAt(t, i, l))
    /\ \A k \in DOMAIN r : InAt(r, sub, i, k) => i \in una
    /\ \A k \in DOMAIN t : OutAt(t, i, k) => i \in una

(* Past the PUBLISH the message has been delivered.                        *)
PastDelivery(r, t, del) ==
    /\ \A k \in DOMAIN r : r[k].type = "PUBREL" => r[k].id \in del
    /\ \A k \in DOMAIN r : r[k].type = "PUBLISH" /\ r[k].qos # 0 => r[k].id \in Ids
    /\ \A k \in DOMAIN t : t[k].type \in Acks => t[k].id \in del

Exchange(r, t, ses, sub, una, del) ==
    /\ Answers(r, t, ses, sub) /\ OneSuback(r, t, sub)
    /\ PastDelivery(r, t, del)
    /\ \A i \in Ids : OnePlace(r, t, sub, una, i)

(* The state of the client against that of the subscription.               *)
Phase ==
    /\ status = "CONNECT" => ~Has(tx, "SUBSCRIBE") /\ ~Has(rx, "SUBACK") /\ ~subscribed
    /\ status = "RUNNING" => subscribed /\ ~Has(rx, "SUBACK")

Framed == Exchange(rx, tx, session, subscribed, unacked, delivered) /\ Phase

(* All of it, while the frame of the stream is kept.                       *)
MqttInv == TypeInv /\ Opening /\ (frame => Framed)

-----------------------------------------------------------------------------
(* Sequences of packets.                                                   *)
LEMMA TailOf ==
    ASSUME NEW s \in Seq(Pkt), s # <<>>
    PROVE  /\ Tail(s) \in Seq(Pkt) /\ Len(Tail(s)) = Len(s) - 1
           /\ DOMAIN s = 1 .. Len(s) /\ DOMAIN Tail(s) = 1 .. (Len(s) - 1)
           /\ Head(s) = s[1] /\ s[1] \in Pkt /\ 1 \in DOMAIN s
           /\ Len(s) \in Nat /\ Len(s) > 0
           /\ \A k \in DOMAIN Tail(s) : Tail(s)[k] = s[k + 1] /\ k + 1 \in DOMAIN s
<1>1. Len(s) \in Nat /\ Len(s) > 0 /\ DOMAIN s = 1 .. Len(s)
  BY EmptySeq, LenProperties
<1>2. Tail(s) \in Seq(Pkt) /\ Len(Tail(s)) = Len(s) - 1 /\ Head(s) \in Pkt
  BY HeadTailProperties
<1>3. DOMAIN Tail(s) = 1 .. (Len(s) - 1)
  BY <1>2, LenProperties
<1>4. \A k \in 1 .. Len(Tail(s)) : Tail(s)[k] = s[k + 1]
  BY HeadTailProperties
<1>5. Head(s) = s[1]
  OBVIOUS
<1> QED BY <1>1, <1>2, <1>3, <1>4, <1>5

(* A packet put at the end of a stream.                                    *)
LEMMA AppendTo ==
    ASSUME NEW s \in Seq(Pkt), NEW p \in Pkt
    PROVE  /\ Append(s, p) \in Seq(Pkt) /\ Len(Append(s, p)) = Len(s) + 1
           /\ Len(s) \in Nat /\ DOMAIN s = 1 .. Len(s)
           /\ DOMAIN Append(s, p) = 1 .. (Len(s) + 1)
           /\ \A k \in DOMAIN s : Append(s, p)[k] = s[k]
           /\ Append(s, p)[Len(s) + 1] = p
<1>1. Len(s) \in Nat /\ DOMAIN s = 1 .. Len(s)
  BY LenProperties
<1>2. Append(s, p) \in Seq(Pkt) /\ Len(Append(s, p)) = Len(s) + 1
  BY AppendProperties
<1>3. DOMAIN Append(s, p) = 1 .. (Len(s) + 1)
  BY <1>2, LenProperties
<1> QED BY <1>1, <1>2, <1>3, AppendProperties

(* The stream without packets.                                             *)
LEMMA EmptyStream == <<>> \in Seq(Pkt) /\ Len(<<>>) = 0 /\ DOMAIN <<>> = {}
<1>1. <<>> \in Seq(Pkt) /\ Len(<<>>) = 0
  BY EmptySeq
<1>2. DOMAIN <<>> = 1 .. 0
  BY <1>1, LenProperties
<1> QED BY <1>1, <1>2

(* Every packet that client or broker makes is one of Pkt.                 *)
LEMMA PacketTypes ==
    /\ \A t \in Types \cup {"NONE", "CONNECT", "SUBSCRIBE", "PINGREQ"} : Packet(t) \in Pkt
    /\ \A t \in Types, i \in Ids \cup {0} : Ack(t, i) \in Pkt
    /\ \A i \in Ids \cup {0}, q \in 0 .. 2 : Publish(i, q) \in Pkt
    /\ [Packet("SUBACK") EXCEPT !.qos = Refused] \in Pkt
    /\ NoPacket \in Pkt
  BY DEF Packet, Ack, Publish, Pkt, Types, Refused, NoPacket

(* A stream that is out of frame has as many packets as before, none of    *)
(* them known.                                                             *)
LEMMA BytesOf ==
    ASSUME NEW s \in Seq(Pkt)
    PROVE  Bytes(s) \in Seq(Pkt) /\ Len(Bytes(s)) = Len(s)
<1>1. Len(s) \in Nat /\ DOMAIN s = 1 .. Len(s)
  BY LenProperties
<1>2. Bytes(s) = [k \in 1 .. Len(s) |-> NoPacket]
  BY <1>1 DEF Bytes
<1>3. Bytes(s) \in [1 .. Len(s) -> Pkt]
  BY <1>2, PacketTypes
<1>4. Bytes(s) \in Seq(Pkt)
  BY <1>1, <1>3, SeqDef
<1> QED BY <1>1, <1>2, <1>4, LenProperties

-----------------------------------------------------------------------------
(* What a turn of MQTTDataHandle may read, and what it leaves.  While the  *)
(* frame is kept it takes the first packet of the stream, or none.         *)
LEMMA IncomingFacts ==
    ASSUME Streams, Flags, NEW r \in Incoming
    PROVE  /\ r.pkt \in Pkt /\ r.frame \in BOOLEAN
           /\ r.rx \in Seq(Pkt)
           /\ faults + r.cost \in 0 .. MaxFaults
           /\ r.frame => frame
           /\ r.frame => \/ r.pkt = NoPacket /\ r.rx = rx
                         \/ rx # <<>> /\ r.pkt = rx[1] /\ r.rx = Tail(rx)
<1>1. CASE ~rxevent
  <2>1. r = [pkt |-> NoPacket, rx |-> rx, frame |-> frame, cost |-> 0]
    BY <1>1 DEF Incoming
  <2> QED BY <2>1, PacketTypes DEF Streams, Flags
<1>2. CASE rxevent
  <2>1. r \in Reads /\ faults + r.cost <= MaxFaults
    BY <1>2 DEF Incoming
  <2>2. rx # <<>>
    BY <2>1 DEF Reads
  <2>3. /\ Tail(rx) \in Seq(Pkt) /\ rx[1] \in Pkt
        /\ Head(rx) = rx[1]
    BY <2>2, TailOf, MqttAssumption DEF Streams
  <2>4. CASE r = [pkt |-> Head(rx), rx |-> Tail(rx), frame |-> TRUE, cost |-> 0] /\ frame
    BY <2>1, <2>2, <2>3, <2>4 DEF Streams
  <2>5. ASSUME NEW i \in Ids,
               r = [pkt |-> [Head(rx) EXCEPT !.id = i], rx |-> Tail(rx), frame |-> FALSE,
                    cost |-> 1]
        PROVE  /\ r.pkt \in Pkt /\ r.frame = FALSE /\ r.rx = Tail(rx) /\ r.cost = 1
    BY <2>3, <2>5 DEF Pkt
  <2>6. ASSUME NEW t \in Types, NEW i \in Ids, NEW q \in 0 .. 2,
               r = [pkt |-> [type |-> t, id |-> i, qos |-> q], rx |-> Tail(rx),
                    frame |-> FALSE, cost |-> 0]
        PROVE  /\ r.pkt \in Pkt /\ r.frame = FALSE /\ r.rx = Tail(rx) /\ r.cost = 0
    BY <2>6 DEF Pkt
  <2>7. \/ r = [pkt |-> Head(rx), rx |-> Tail(rx), frame |-> TRUE, cost |-> 0] /\ frame
        \/ /\ r.pkt \in Pkt /\ r.frame = FALSE /\ r.rx = Tail(rx) /\ r.cost \in {0, 1}
    <3>1. link # "reset"
      BY <2>1 DEF Reads
    <3>2. CASE frame
      <4>1. \/ r = [pkt |-> Head(rx), rx |-> Tail(rx), frame |-> TRUE, cost |-> 0]
            \/ \E i \in Ids :
                 r = [pkt |-> [Head(rx) EXCEPT !.id = i], rx |-> Tail(rx), frame |-> FALSE,
                      cost |-> 1]
        BY <2>1, <2>2, <3>1, <3>2 DEF Reads
      <4> QED BY <2>5, <3>2, <4>1
    <3>3. CASE ~frame
      <4>1. \E t \in Types, i \in Ids, q \in 0 .. 2 :
              r = [pkt |-> [type |-> t, id |-> i, qos |-> q], rx |-> Tail(rx),
                   frame |-> FALSE, cost |-> 0]
        BY <2>1, <2>2, <3>1, <3>3 DEF Reads
      <4> QED BY <2>6, <4>1
    <3> QED BY <3>2, <3>3
  <2>8. CASE r.pkt \in Pkt /\ r.frame = FALSE /\ r.rx = Tail(rx) /\ r.cost \in {0, 1}
    <3>1. faults + r.cost \in 0 .. MaxFaults
      BY <2>1, <2>8, MqttAssumption DEF Streams
    <3> QED BY <2>3, <2>8, <3>1
  <2> QED BY <2>4, <2>7, <2>8
<1> QED BY <1>1, <1>2

(* What readPacket takes from the stream: nothing, its first packet, or,   *)
(* when the connection is lost with it, all.                               *)
LEMMA ReceivedFacts ==
    ASSUME Streams, Flags, NEW r \in Incoming, Received(r)
    PROVE  /\ rx' \in Seq(Pkt)
           /\ faults' \in 0 .. MaxFaults /\ frame' \in BOOLEAN /\ r.pkt \in Pkt
           /\ r.frame = frame'
           /\ frame' => frame
           /\ frame' => \/ r.pkt = NoPacket /\ rx' \in {rx, <<>>}
                        \/ rx # <<>> /\ r.pkt = rx[1] /\ rx' \in {Tail(rx), <<>>}
<1>1. /\ r.pkt \in Pkt /\ r.frame \in BOOLEAN
      /\ r.rx \in Seq(Pkt)
      /\ faults + r.cost \in 0 .. MaxFaults
      /\ r.frame => frame
      /\ r.frame => \/ r.pkt = NoPacket /\ r.rx = rx
                    \/ rx # <<>> /\ r.pkt = rx[1] /\ r.rx = Tail(rx)
  BY IncomingFacts
<1>2. frame' = r.frame /\ faults' = faults + r.cost
  BY DEF Received
<1>3. CASE link' = "none"
  <2>1. rx' = <<>>
    BY <1>3 DEF Received
  <2> QED BY <1>1, <1>2, <1>3, <2>1, EmptyStream, MqttAssumption
<1>4. CASE link' # "none" /\ r.frame
  <2>1. rx' = r.rx
    BY <1>4 DEF Received
  <2> QED BY <1>1, <1>2, <1>4, <2>1
<1>5. CASE link' # "none" /\ ~r.frame
  <2>1. rx' = Bytes(r.rx)
    BY <1>5 DEF Received
  <2> QED BY <1>1, <1>2, <1>5, <2>1, BytesOf
<1> QED BY <1>3, <1>4, <1>5

-----------------------------------------------------------------------------
(* The exchange between client and broker, packet by packet.               *)
LEMMA ReadAny ==
    ASSUME NEW r \in Seq(Pkt), NEW t \in Seq(Pkt), NEW ses, NEW sub, NEW una, NEW del,
           Exchange(r, t, ses, sub, una, del), r # <<>>
    PROVE  Exchange(Tail(r), t, ses, sub, una, del)
<1> DEFINE q == Tail(r)
<1>1. /\ DOMAIN r = 1 .. Len(r) /\ DOMAIN q = 1 .. (Len(r) - 1) /\ Len(r) \in Nat
      /\ \A k \in DOMAIN q : q[k] = r[k + 1] /\ k + 1 \in DOMAIN r
  BY TailOf
<1> HIDE DEF q
<1>2. \A x : Has(q, x) => Has(r, x)
  BY <1>1 DEF Has
<1>3. Answers(q, t, ses, sub)
  BY <1>1, <1>2 DEF Exchange, Answers
<1>4. OneSuback(q, t, sub)
  <2>1. ASSUME NEW k \in DOMAIN q, NEW l \in DOMAIN q, q[k].type = "SUBACK", q[l].type = "SUBACK"
        PROVE  k = l
    <3>1. k + 1 = l + 1
      BY <1>1, <2>1 DEF Exchange, OneSuback
    <3> QED BY <1>1, <3>1
  <2> QED BY <1>2, <2>1 DEF Exchange, OneSuback
<1>5. PastDelivery(q, t, del)
  BY <1>1 DEF Exchange, PastDelivery
<1>6. ASSUME NEW i \in Ids PROVE OnePlace(q, t, sub, una, i)
  <2>1. ASSUME NEW k \in DOMAIN q, Live(q, sub, k) PROVE Live(r, sub, k + 1)
    <3>1. ASSUME NEW j \in DOMAIN r, r[j].type = "SUBACK" PROVE j < k + 1
      <4>1. CASE j = 1
        BY <1>1, <4>1
      <4>2. CASE j # 1
        <5>1. j - 1 \in DOMAIN q /\ q[j - 1] = r[j]
          BY <1>1, <4>2
        <5>2. j - 1 < k
          BY <2>1, <3>1, <5>1 DEF Live
        <5> QED BY <1>1, <5>2
      <4> QED BY <4>1, <4>2
    <3> QED BY <2>1, <3>1 DEF Live
  <2>2. ASSUME NEW k \in DOMAIN q, InAt(q, sub, i, k) PROVE InAt(r, sub, i, k + 1)
    BY <1>1, <2>1, <2>2 DEF InAt
  <2>3. OnePlace(r, t, sub, una, i)
    BY DEF Exchange
  <2>4. ASSUME NEW k \in DOMAIN q, NEW l \in DOMAIN q, InAt(q, sub, i, k), InAt(q, sub, i, l)
        PROVE  k = l
    <3>1. k + 1 = l + 1
      BY <1>1, <2>2, <2>3, <2>4 DEF OnePlace
    <3> QED BY <1>1, <3>1
  <2> QED BY <1>1, <2>2, <2>3, <2>4 DEF OnePlace
<1> QED BY <1>3, <1>4, <1>5, <1>6 DEF Exchange, q

(* Losing what is on its way to the client leaves the exchange right.      *)
LEMMA LoseIncoming ==
    ASSUME NEW r, NEW t, NEW ses, NEW sub, NEW una, NEW del,
           Exchange(r, t, ses, sub, una, del)
    PROVE  Exchange(<<>>, t, ses, sub, una, del)
  BY EmptyStream DEF Exchange, Answers, OneSuback, PastDelivery, OnePlace, Has

(* So does losing what is on its way to the broker.                        *)
LEMMA LoseOutgoing ==
    ASSUME NEW r, NEW t, NEW ses, NEW sub, NEW una, NEW del,
           Exchange(r, t, ses, sub, una, del)
    PROVE  Exchange(r, <<>>, ses, sub, una, del)
  BY EmptyStream DEF Exchange, Answers, OneSuback, PastDelivery, OnePlace, Has

(* So does a delivery.                                                     *)
LEMMA DeliverMore ==
    ASSUME NEW r, NEW t, NEW ses, NEW sub, NEW una, NEW del, NEW more,
           Exchange(r, t, ses, sub, una, del), del \subseteq more
    PROVE  Exchange(r, t, ses, sub, una, more)
  BY DEF Exchange, PastDelivery

(* The client sends a packet p.                                            *)
LEMMA SendAny ==
    ASSUME NEW r \in Seq(Pkt), NEW t \in Seq(Pkt), NEW ses, NEW sub, NEW una, NEW del,
           Exchange(r, t, ses, sub, una, del), NEW p \in Pkt,
           p.type = "SUBSCRIBE" => /\ ses # "none" /\ ~sub
                                   /\ ~Has(t, "SUBSCRIBE") /\ ~Has(r, "SUBACK"),
           p.type \in Acks => p.id \in del /\ p.id \in una,
           p.type \in Acks => \A k \in DOMAIN r : ~InAt(r, sub, p.id, k),
           p.type \in Acks => \A k \in DOMAIN t : ~OutAt(t, p.id, k)
    PROVE  Exchange(r, Append(t, p), ses, sub, una, del)
<1> DEFINE u == Append(t, p)
<1> DEFINE n == Len(t) + 1
<1>1. /\ DOMAIN t = 1 .. Len(t) /\ DOMAIN u = 1 .. n /\ Len(t) \in Nat
      /\ \A k \in DOMAIN t : u[k] = t[k]
      /\ u[n] = p
  BY AppendTo
<1>2. \A k \in DOMAIN u : k = n \/ (k \in DOMAIN t /\ u[k] = t[k])
  BY <1>1
<1> HIDE DEF u, n
<1>3. ASSUME NEW x PROVE Has(u, x) => Has(t, x) \/ p.type = x
  BY <1>1, <1>2 DEF Has
<1>4. Answers(r, u, ses, sub)
  BY <1>3 DEF Exchange, Answers
<1>5. OneSuback(r, u, sub)
  <2>1. ASSUME NEW k \in DOMAIN u, NEW l \in DOMAIN u,
               u[k].type = "SUBSCRIBE", u[l].type = "SUBSCRIBE"
        PROVE  k = l
    BY <1>1, <1>2, <2>1 DEF Exchange, OneSuback, Has
  <2> QED BY <1>3, <2>1 DEF Exchange, OneSuback
<1>6. PastDelivery(r, u, del)
  BY <1>1, <1>2 DEF Exchange, PastDelivery
<1>7. ASSUME NEW i \in Ids PROVE OnePlace(r, u, sub, una, i)
  <2>1. ASSUME NEW k \in DOMAIN u, OutAt(u, i, k)
        PROVE  \/ k \in DOMAIN t /\ OutAt(t, i, k)
               \/ k = n /\ p.type \in Acks /\ p.id = i
    BY <1>1, <1>2, <2>1 DEF OutAt
  <2>2. OnePlace(r, t, sub, una, i)
    BY DEF Exchange
  <2> QED BY <2>1, <2>2 DEF OnePlace
<1> QED BY <1>4, <1>5, <1>6, <1>7 DEF Exchange, u

(* The broker takes the first packet.                                      *)
LEMMA TakeAny ==
    ASSUME NEW r \in Seq(Pkt), NEW t \in Seq(Pkt), NEW ses, NEW sub, NEW una, NEW del,
           Exchange(r, t, ses, sub, una, del), t # <<>>
    PROVE  Exchange(r, Tail(t), ses, sub, una, del)
<1> DEFINE u == Tail(t)
<1>1. /\ DOMAIN t = 1 .. Len(t) /\ DOMAIN u = 1 .. (Len(t) - 1) /\ Len(t) \in Nat
      /\ \A k \in DOMAIN u : u[k] = t[k + 1] /\ k + 1 \in DOMAIN t
  BY TailOf
<1> HIDE DEF u
<1>2. \A x : Has(u, x) => Has(t, x)
  BY <1>1 DEF Has
<1>3. Answers(r, u, ses, sub)
  BY <1>2 DEF Exchange, Answers
<1>4. OneSuback(r, u, sub)
  <2>1. ASSUME NEW k \in DOMAIN u, NEW l \in DOMAIN u,
               u[k].type = "SUBSCRIBE", u[l].type = "SUBSCRIBE"
        PROVE  k = l
    <3>1. k + 1 = l + 1
      BY <1>1, <2>1 DEF Exchange, OneSuback
    <3> QED BY <1>1, <3>1
  <2> QED BY <1>2, <2>1 DEF Exchange, OneSuback
<1>5. PastDelivery(r, u, del)
  BY <1>1 DEF Exchange, PastDelivery
<1>6. ASSUME NEW i \in Ids PROVE OnePlace(r, u, sub, una, i)
  <2>1. ASSUME NEW k \in DOMAIN u, OutAt(u, i, k) PROVE OutAt(t, i, k + 1)
    BY <1>1, <2>1 DEF OutAt
  <2>2. OnePlace(r, t, sub, una, i)
    BY DEF Exchange
  <2>3. ASSUME NEW k \in DOMAIN u, NEW l \in DOMAIN u, OutAt(u, i, k), OutAt(u, i, l)
        PROVE  k = l
    <3>1. k + 1 = l + 1
      BY <1>1, <2>1, <2>2, <2>3 DEF OnePlace
    <3> QED BY <1>1, <3>1
  <2> QED BY <1>1, <2>1, <2>2, <2>3 DEF OnePlace
<1> QED BY <1>3, <1>4, <1>5, <1>6 DEF Exchange, u

(* Once the client has read, or the broker taken, the packet that the      *)
(* exchange about i was in, it is nowhere.                                 *)
LEMMA ReadPlace ==
    ASSUME NEW r \in Seq(Pkt), NEW t \in Seq(Pkt), NEW ses, NEW sub, NEW una, NEW del,
           Exchange(r, t, ses, sub, una, del), r # <<>>,
           NEW i \in Ids, InAt(r, sub, i, 1)
    PROVE  /\ i \in una
           /\ \A k \in DOMAIN Tail(r) : ~InAt(Tail(r), sub, i, k)
           /\ \A k \in DOMAIN t : ~OutAt(t, i, k)
<1> DEFINE q == Tail(r)
<1>1. /\ DOMAIN r = 1 .. Len(r) /\ DOMAIN q = 1 .. (Len(r) - 1) /\ Len(r) \in Nat
      /\ 1 \in DOMAIN r
      /\ \A k \in DOMAIN q : q[k] = r[k + 1] /\ k + 1 \in DOMAIN r
  BY TailOf
<1> HIDE DEF q
<1>2. OnePlace(r, t, sub, una, i)
  BY DEF Exchange
<1>3. ASSUME NEW k \in DOMAIN q, InAt(q, sub, i, k) PROVE FALSE
  <2>1. r[1].type = "PUBREL" \/ Live(r, sub, 1)
    BY DEF InAt
  <2>2. ASSUME Live(q, sub, k) PROVE Live(r, sub, k + 1)
    <3>1. ASSUME NEW j \in DOMAIN r, r[j].type = "SUBACK" PROVE j < k + 1
      <4>1. CASE j = 1
        BY <1>1, <4>1
      <4>2. CASE j # 1
        <5>1. j - 1 \in DOMAIN q /\ q[j - 1] = r[j]
          BY <1>1, <4>2
        <5>2. j - 1 < k
          BY <2>2, <3>1, <5>1 DEF Live
        <5> QED BY <1>1, <5>2
      <4> QED BY <4>1, <4>2
    <3> QED BY <2>2, <3>1 DEF Live
  <2>3. InAt(r, sub, i, k + 1)
    BY <1>1, <1>3, <2>2 DEF InAt
  <2>4. k + 1 = 1
    BY <1>1, <1>2, <2>3 DEF OnePlace
  <2> QED BY <1>1, <2>4
<1> QED BY <1>1, <1>2, <1>3 DEF OnePlace, q

(* The acknowledgement that the broker reads first is the only packet      *)
(* about its message, which was delivered and counts as unacknowledged.    *)
LEMMA TakePlace ==
    ASSUME NEW r \in Seq(Pkt), NEW t \in Seq(Pkt), NEW ses, NEW sub, NEW una, NEW del,
           Exchange(r, t, ses, sub, una, del), t # <<>>,
           NEW i \in Ids, OutAt(t, i, 1)
    PROVE  /\ i \in una /\ i \in del
           /\ \A k \in DOMAIN Tail(t) : ~OutAt(Tail(t), i, k)
           /\ \A k \in DOMAIN r : ~InAt(r, sub, i, k)
<1> DEFINE u == Tail(t)
<1>1. /\ DOMAIN t = 1 .. Len(t) /\ DOMAIN u = 1 .. (Len(t) - 1) /\ Len(t) \in Nat
      /\ 1 \in DOMAIN t
      /\ \A k \in DOMAIN u : u[k] = t[k + 1] /\ k + 1 \in DOMAIN t
  BY TailOf
<1> HIDE DEF u
<1>2. OnePlace(r, t, sub, una, i) /\ PastDelivery(r, t, del)
  BY DEF Exchange
<1>3. ASSUME NEW k \in DOMAIN u, OutAt(u, i, k) PROVE FALSE
  <2>1. OutAt(t, i, k + 1)
    BY <1>1, <1>3 DEF OutAt
  <2>2. k + 1 = 1
    BY <1>1, <1>2, <2>1 DEF OnePlace
  <2> QED BY <1>1, <2>2
<1> QED BY <1>1, <1>2, <1>3 DEF OnePlace, PastDelivery, OutAt, u

(* The broker sends a packet p.                                            *)
LEMMA AnswerAny ==
    ASSUME NEW r \in Seq(Pkt), NEW t \in Seq(Pkt), NEW ses, NEW sub, NEW una, NEW del,
           Exchange(r, t, ses, sub, una, del), NEW p \in Pkt,
           p.type = "CONNACK" => ses # "none",
           p.type = "SUBACK" => /\ ~Has(t, "SUBSCRIBE") /\ ~Has(r, "SUBACK")
                                /\ p.qos # Refused => sub,
           p.type = "PUBREL" => p.id \in del,
           p.type = "PUBLISH" /\ p.qos # 0 => p.id \in Ids,
           (p.type = "PUBREL" \/ (p.type = "PUBLISH" /\ sub)) /\ p.id \in Ids
                => /\ p.id \in una
                   /\ \A k \in DOMAIN r : ~InAt(r, sub, p.id, k)
                   /\ \A k \in DOMAIN t : ~OutAt(t, p.id, k)
    PROVE  Exchange(Append(r, p), t, ses, sub, una, del)
<1> DEFINE q == Append(r, p)
<1> DEFINE n == Len(r) + 1
<1>1. /\ DOMAIN r = 1 .. Len(r) /\ DOMAIN q = 1 .. n /\ Len(r) \in Nat
      /\ \A k \in DOMAIN r : q[k] = r[k]
      /\ q[n] = p
  BY AppendTo
<1>2. /\ \A k \in DOMAIN q : k = n \/ (k \in DOMAIN r /\ q[k] = r[k])
      /\ \A k \in DOMAIN r : k \in DOMAIN q
  BY <1>1
<1> HIDE DEF q, n
<1>3. ASSUME NEW x PROVE Has(q, x) => Has(r, x) \/ p.type = x
  BY <1>1, <1>2 DEF Has
<1>4. Answers(q, t, ses, sub)
  <2>1. \A k \in DOMAIN q : q[k].type = "SUBACK" /\ q[k].qos # Refused => sub
    BY <1>1, <1>2 DEF Exchange, Answers
  <2> QED BY <1>3, <2>1 DEF Exchange, Answers
<1>5. OneSuback(q, t, sub)
  <2>1. ASSUME NEW k \in DOMAIN q, NEW l \in DOMAIN q,
               q[k].type = "SUBACK", q[l].type = "SUBACK"
        PROVE  k = l
    BY <1>1, <1>2, <2>1 DEF Exchange, OneSuback, Has
  <2> QED BY <1>3, <2>1 DEF Exchange, OneSuback
<1>6. PastDelivery(q, t, del)
  BY <1>1, <1>2 DEF Exchange, PastDelivery
<1>7. ASSUME NEW i \in Ids PROVE OnePlace(q, t, sub, una, i)
  <2>1. ASSUME NEW k \in DOMAIN r, Live(q, sub, k) PROVE Live(r, sub, k)
    BY <1>1, <1>2, <2>1 DEF Live
  <2>2. ASSUME NEW k \in DOMAIN q, InAt(q, sub, i, k)
        PROVE  \/ k \in DOMAIN r /\ InAt(r, sub, i, k)
               \/ /\ k = n /\ p.id = i
                  /\ p.type = "PUBREL" \/ (p.type = "PUBLISH" /\ sub)
    <3>1. CASE k = n
      BY <1>1, <2>2, <3>1 DEF InAt, Live
    <3>2. CASE k # n
      BY <1>1, <1>2, <2>1, <2>2, <3>2 DEF InAt
    <3> QED BY <3>1, <3>2
  <2>3. OnePlace(r, t, sub, una, i)
    BY DEF Exchange
  <2> QED BY <2>2, <2>3 DEF OnePlace
<1> QED BY <1>4, <1>5, <1>6, <1>7 DEF Exchange, q

(* The broker grants the subscription: what it sent before its SUBACK will *)
(* be dropped.                                                             *)
LEMMA GrantSubscription ==
    ASSUME NEW r \in Seq(Pkt), NEW t \in Seq(Pkt), NEW ses, NEW sub, NEW granted, NEW una,
           NEW del, Exchange(r, t, ses, sub, una, del), ses = "connected", sub = FALSE,
           granted = TRUE, NEW p \in Pkt, p.type = "SUBACK", ~Has(t, "SUBSCRIBE"), ~Has(r, "SUBACK")
    PROVE  Exchange(Append(r, p), t, ses, granted, una, del)
<1> DEFINE q == Append(r, p)
<1> DEFINE n == Len(r) + 1
<1>1. /\ DOMAIN r = 1 .. Len(r) /\ DOMAIN q = 1 .. n /\ Len(r) \in Nat
      /\ \A k \in DOMAIN r : q[k] = r[k]
      /\ q[n] = p /\ n \in DOMAIN q
  BY AppendTo
<1>2. \A k \in DOMAIN q : k = n \/ (k \in DOMAIN r /\ q[k] = r[k] /\ k < n)
  BY <1>1
<1> HIDE DEF q
<1>3. Answers(q, t, ses, granted)
  BY DEF Answers
<1>4. OneSuback(q, t, granted)
  <2>1. ASSUME NEW k \in DOMAIN q, NEW l \in DOMAIN q,
               q[k].type = "SUBACK", q[l].type = "SUBACK"
        PROVE  k = l
    BY <1>1, <1>2, <2>1 DEF Has
  <2> QED BY <2>1 DEF Exchange, OneSuback
<1>5. PastDelivery(q, t, del)
  BY <1>1, <1>2 DEF Exchange, PastDelivery
<1>6. ASSUME NEW i \in Ids PROVE OnePlace(q, t, granted, una, i)
  <2>1. ASSUME NEW k \in DOMAIN q PROVE ~Live(q, granted, k)
    <3>1. ~(n < k)
      BY <1>1
    <3> QED BY <1>1, <3>1 DEF Live
  <2>2. ASSUME NEW k \in DOMAIN q, InAt(q, granted, i, k)
        PROVE  k \in DOMAIN r /\ InAt(r, sub, i, k)
    BY <1>1, <1>2, <2>1, <2>2 DEF InAt
  <2>3. OnePlace(r, t, sub, una, i)
    BY DEF Exchange
  <2> QED BY <2>2, <2>3 DEF OnePlace
<1> QED BY <1>3, <1>4, <1>5, <1>6 DEF Exchange, q

(* The broker answers a CONNECT.                                           *)
LEMMA AcceptSession ==
    ASSUME NEW r, NEW t, NEW sub, NEW una, NEW del, NEW ses,
           Exchange(r, t, "none", sub, una, del), ses # "none"
    PROVE  Exchange(r, t, ses, sub, una, del)
  BY DEF Exchange, Answers

(* The broker counts another message as unacknowledged.                    *)
LEMMA CountMore ==
    ASSUME NEW r, NEW t, NEW ses, NEW sub, NEW una, NEW del, NEW more,
           Exchange(r, t, ses, sub, una, del), una \subseteq more
    PROVE  Exchange(r, t, ses, sub, more, del)
  BY DEF Exchange, OnePlace

(* An identifier whose exchange is over is forgotten.                      *)
LEMMA Forget ==
    ASSUME NEW r, NEW t, NEW ses, NEW sub, NEW una, NEW del, NEW i \in Ids,
           Exchange(r, t, ses, sub, una, del),
           \A k \in DOMAIN r : ~InAt(r, sub, i, k),
           \A k \in DOMAIN t : ~OutAt(t, i, k)
    PROVE  Exchange(r, t, ses, sub, una \ {i}, del \ {i})
<1>1. PastDelivery(r, t, del \ {i})
  BY DEF Exchange, PastDelivery, InAt, OutAt
<1>2. ASSUME NEW j \in Ids PROVE OnePlace(r, t, sub, una \ {i}, j)
  <2>1. OnePlace(r, t, sub, una, j)
    BY DEF Exchange
  <2> QED BY <2>1 DEF OnePlace
<1> QED BY <1>1, <1>2 DEF Exchange

-----------------------------------------------------------------------------
(* After the disconnect the client has no socket, and one is free.         *)
LEMMA FreedFacts ==
    ASSUME Sockets
    PROVE  /\ Freed \in [Fds -> {"free", "mqtt", "other"}]
           /\ \A f \in Fds : Freed[f] # "mqtt"
           /\ \A f, g \in Fds : Freed[f] = "other" /\ Freed[g] = "other" => f = g
           /\ LowestFree \in Fds /\ Freed[LowestFree] = "free"
<1>1. -1 \notin Fds /\ 0 \in Fds /\ 1 \in Fds
  BY MqttAssumption DEF Fds
<1>2. /\ Freed \in [Fds -> {"free", "mqtt", "other"}]
      /\ \A f \in Fds : Freed[f] # "mqtt"
      /\ \A f, g \in Fds : Freed[f] = "other" /\ Freed[g] = "other" => f = g
  BY <1>1 DEF Sockets, Freed
<1>3. \E f \in Fds : Freed[f] = "free" /\ \A g \in Fds : Freed[g] = "free" => f <= g
  <2>1. CASE Freed[0] = "free"
    <3>1. \A g \in Fds : 0 <= g
      BY DEF Fds
    <3> QED BY <1>1, <2>1, <3>1
  <2>2. CASE Freed[0] # "free"
    <3>1. Freed[1] = "free"
      BY <1>1, <1>2, <2>2
    <3>2. \A g \in Fds : g # 0 => 1 <= g
      BY DEF Fds
    <3> QED BY <1>1, <2>2, <3>1, <3>2
  <2> QED BY <2>1, <2>2
<1>4. LowestFree \in Fds /\ Freed[LowestFree] = "free"
  BY <1>3 DEF LowestFree
<1> QED BY <1>2, <1>4

(* What sendPacket leaves behind.                                          *)
LEMMA SendFacts ==
    ASSUME Streams, Flags, NEW p \in Pkt, NEW rc, sendPacket(p, rc)
    PROVE  /\ tx' \in Seq(Pkt) /\ Len(tx') <= MaxQueue
           /\ isconnected' \in BOOLEAN /\ ping_timer' \in BOOLEAN
           /\ \/ /\ rc = "ok" /\ UNCHANGED <<my_socket, owner, link, isconnected>>
                 /\ tx' = tx \/ tx' = Append(tx, p)
              \/ /\ rc = "error" /\ FreeRTOS_disconnect
<1>1. CASE rc = "ok"
  <2>1. /\ Len(tx) < MaxQueue /\ ping_timer' = FALSE
        /\ UNCHANGED <<my_socket, owner, link, isconnected>>
        /\ tx' = tx \/ tx' = Append(tx, p)
    BY <1>1 DEF sendPacket, WindowOpen
  <2>2. tx' \in Seq(Pkt) /\ Len(tx') <= MaxQueue
    BY <2>1, AppendTo, MqttAssumption DEF Streams
  <2>3. isconnected' \in BOOLEAN /\ ping_timer' \in BOOLEAN
    BY <2>1 DEF Flags
  <2> QED BY <1>1, <2>1, <2>2, <2>3
<1>2. CASE rc = "error"
  <2>1. FreeRTOS_disconnect /\ isconnected' = FALSE /\ UNCHANGED ping_timer
    BY <1>2 DEF sendPacket
  <2>2. tx' = <<>>
    BY <2>1 DEF FreeRTOS_disconnect
  <2>3. tx' \in Seq(Pkt) /\ Len(tx') <= MaxQueue
    BY <2>2, EmptyStream, MqttAssumption
  <2>4. isconnected' \in BOOLEAN /\ ping_timer' \in BOOLEAN
    BY <2>1 DEF Flags
  <2> QED BY <1>2, <2>1, <2>3, <2>4
<1> QED BY <1>1, <1>2 DEF sendPacket

(* Closing my_socket leaves the client without one.                        *)
LEMMA SocketsClosed ==
    ASSUME Sockets, FreeRTOS_disconnect PROVE Sockets'
<1>1. owner' = Freed /\ my_socket' = -1
  BY DEF FreeRTOS_disconnect
<1> QED BY <1>1, FreedFacts DEF Sockets, Fds

(* sendPacket keeps the socket or closes it.                               *)
LEMMA SocketsSent ==
    ASSUME Streams, Flags, Sockets, NEW p \in Pkt, NEW rc, sendPacket(p, rc)
    PROVE  Sockets'
<1>1. CASE FreeRTOS_disconnect
  BY <1>1, SocketsClosed
<1>2. CASE UNCHANGED <<my_socket, owner>>
  BY <1>2 DEF Sockets, Fds
<1> QED BY <1>1, <1>2, SendFacts

(* The packets that the client sends.                                      *)
LEMMA SentPackets ==
    /\ Packet("SUBSCRIBE") \in Pkt /\ Packet("PINGREQ") \in Pkt /\ Publish(0, 1) \in Pkt
    /\ \A q \in Pkt : /\ Ack(IF q.qos = 1 THEN "PUBACK" ELSE "PUBREC", q.id) \in Pkt
                      /\ Ack(NextOf(q.type), q.id) \in Pkt
<1>1. ASSUME NEW q \in Pkt PROVE q.id \in Ids \cup {0}
  BY <1>1 DEF Pkt
<1>2. ASSUME NEW q \in Pkt PROVE /\ Ack(IF q.qos = 1 THEN "PUBACK" ELSE "PUBREC", q.id) \in Pkt
                                 /\ Ack(NextOf(q.type), q.id) \in Pkt
  BY <1>1, PacketTypes DEF Types, NextOf
<1>3. Packet("SUBSCRIBE") \in Pkt /\ Packet("PINGREQ") \in Pkt /\ Publish(0, 1) \in Pkt
  BY DEF Packet, Publish, Pkt, Types
<1> QED BY <1>2, <1>3

(* No step opens a second socket for the client.                           *)
LEMMA SocketsStep == TypeInv /\ [MqttNext]_mqttVars => Sockets'
<1> SUFFICES ASSUME TypeInv, [MqttNext]_mqttVars PROVE Sockets'
  OBVIOUS
<1>0. Streams /\ Flags /\ Sockets
  BY DEF TypeInv
<1>1. CASE UNCHANGED <<my_socket, owner>>
  BY <1>0, <1>1 DEF Sockets, Fds
<1>2. CASE FreeRTOS_disconnect
  BY <1>0, <1>2, SocketsClosed
<1>3. CASE StartRefused
  <2>1. owner' = Freed /\ my_socket' = LowestFree
    BY <1>3 DEF StartRefused
  <2> QED BY <1>0, <2>1, FreedFacts DEF Sockets, Fds
<1>4. CASE StartConnected
  <2>1. owner' = [Freed EXCEPT ![LowestFree] = "mqtt"] /\ my_socket' = LowestFree
    BY <1>4 DEF StartConnected
  <2> QED BY <1>0, <2>1, FreedFacts DEF Sockets, Fds
<1>5. CASE OtherOpens
  <2>1. /\ \A f \in Fds : owner[f] # "other"
        /\ \E f \in Fds : owner' = [owner EXCEPT ![f] = "other"] /\ owner[f] = "free"
        /\ UNCHANGED my_socket
    BY <1>5 DEF OtherOpens, clientVars
  <2> QED BY <1>0, <2>1 DEF Sockets, Fds
<1>6. CASE OtherCloses
  <2>1. /\ \E f \in Fds : owner' = [owner EXCEPT ![f] = "free"]
        /\ UNCHANGED my_socket
    BY <1>6 DEF OtherCloses, clientVars
  <2> QED BY <1>0, <2>1 DEF Sockets, Fds
<1>7. CASE SelectTimeout
  BY <1>0, <1>1, <1>2, <1>7, SocketsSent, SentPackets DEF SelectTimeout, NoSend
<1>8. CASE HandleConnect
  BY <1>0, <1>1, <1>8, SocketsSent, SentPackets DEF HandleConnect, NoSend
<1>9. CASE HandlePublish
  <2>1. PICK r \in Incoming :
          \/ NoSend
          \/ \E rc \in SendResults :
               sendPacket(Ack(IF r.pkt.qos = 1 THEN "PUBACK" ELSE "PUBREC", r.pkt.id), rc)
    BY <1>9 DEF HandlePublish
  <2>2. r.pkt \in Pkt
    BY <1>0, IncomingFacts
  <2> QED BY <1>0, <1>1, <2>1, <2>2, SocketsSent, SentPackets DEF NoSend
<1>10. CASE HandlePubrecPubrel
  <2>1. PICK r \in Incoming, rc \in SendResults : sendPacket(Ack(NextOf(r.pkt.type), r.pkt.id), rc)
    BY <1>10 DEF HandlePubrecPubrel
  <2>2. r.pkt \in Pkt
    BY <1>0, IncomingFacts
  <2> QED BY <1>0, <2>1, <2>2, SocketsSent, SentPackets
<1>11. CASE Keepalive
  BY <1>0, <1>1, <1>11, SocketsSent, SentPackets DEF Keepalive, NoSend
<1>12. CASE StartUnresolved \/ ReadFails
  BY <1>2, <1>12 DEF StartUnresolved, ReadFails
<1>13. CASE HandleSubtopic \/ HandleOther
  BY <1>1, <1>13 DEF HandleSubtopic, HandleOther, NoSend
<1>14. CASE \/ NoSocket \/ SelectStale \/ SelectRead \/ SelectExcept
            \/ CmdTimerExpires \/ PingTimerExpires \/ LinkLost \/ TcpGivesUp \/ PeerEnds
            \/ BrokerReceives \/ BrokerPublishes
  BY <1>1, <1>14 DEF NoSocket, SelectStale, SelectRead, SelectExcept, CmdTimerExpires,
       PingTimerExpires, LinkLost, TcpGivesUp, PeerEnds, BrokerReceives, BrokerPublishes,
       clientVars, netVars
<1>15. CASE UNCHANGED mqttVars
  BY <1>1, <1>15 DEF mqttVars, clientVars, netVars
<1> QED BY <1>3, <1>4, <1>5, <1>6, <1>7, <1>8, <1>9, <1>10, <1>11, <1>12, <1>13, <1>14, <1>15
        DEF MqttNext, prvMQTTTask, Select, MQTTDataHandle

(* No step overfills a stream or exceeds the failures.                     *)
LEMMA StreamsStep == TypeInv /\ [MqttNext]_mqttVars => Streams'
<1> SUFFICES ASSUME TypeInv, [MqttNext]_mqttVars PROVE Streams'
  OBVIOUS
<1> USE DEF clientVars, netVars, brokerVars
<1>0. Streams /\ Flags
  BY DEF TypeInv
<1>a. <<>> \in Seq(Pkt) /\ Len(<<>>) <= MaxQueue
  BY EmptyStream, MqttAssumption
<1>1. ASSUME UNCHANGED <<rx, tx, faults>> PROVE Streams'
  BY <1>0, <1>1 DEF Streams, Pkt, Types, Refused
<1>2. ASSUME rx' = rx \/ rx' = <<>>, tx' = tx \/ tx' = <<>>, UNCHANGED faults \/ Fault
      PROVE  Streams'
  <2>1. faults' \in 0 .. MaxFaults
    BY <1>0, <1>2, MqttAssumption DEF Streams, Fault
  <2>2. rx' \in Seq(Pkt)
    BY <1>0, <1>a, <1>2 DEF Streams
  <2>3. tx' \in Seq(Pkt) /\ Len(tx') <= MaxQueue
    BY <1>0, <1>a, <1>2 DEF Streams
  <2> QED BY <2>1, <2>2, <2>3 DEF Streams, Pkt, Types, Refused
<1>3. ASSUME NEW p \in Pkt, NEW rc, sendPacket(p, rc), rx' = rx \/ rx' = <<>>, UNCHANGED faults
      PROVE  Streams'
  <2>1. tx' \in Seq(Pkt) /\ Len(tx') <= MaxQueue
    BY <1>0, <1>3, SendFacts
  <2>2. rx' \in Seq(Pkt)
    BY <1>0, <1>a, <1>3 DEF Streams
  <2>3. faults' \in 0 .. MaxFaults
    BY <1>0, <1>3 DEF Streams
  <2> QED BY <2>1, <2>2, <2>3 DEF Streams, Pkt, Types, Refused
<1>4. ASSUME NEW r \in Incoming, Received(r), tx' \in Seq(Pkt) /\ Len(tx') <= MaxQueue
      PROVE  Streams'
  <2>1. rx' \in Seq(Pkt) /\ faults' \in 0 .. MaxFaults
    BY <1>0, <1>4, ReceivedFacts
  <2> QED BY <1>4, <2>1 DEF Streams, Pkt, Types, Refused
<1>5. ASSUME NoSend PROVE tx' \in Seq(Pkt) /\ Len(tx') <= MaxQueue
  BY <1>0, <1>5 DEF NoSend, Streams
<1>6. CASE NoSocket \/ SelectStale \/ SelectRead \/ SelectExcept \/ PingTimerExpires
           \/ OtherOpens \/ OtherCloses \/ TcpGivesUp
  BY <1>1, <1>6 DEF NoSocket, SelectStale, SelectRead, SelectExcept, PingTimerExpires,
                    OtherOpens, OtherCloses, TcpGivesUp
<1>7. CASE SelectTimeout
  <2>1. CASE NoSend /\ UNCHANGED rx
    BY <1>1, <1>7, <2>1 DEF SelectTimeout, NoSend
  <2>2. CASE sendPacket(Publish(0, 1), "ok") /\ UNCHANGED rx
    BY <1>3, <1>7, <2>2, SentPackets DEF SelectTimeout
  <2>3. CASE FreeRTOS_disconnect /\ rx' = <<>>
    BY <1>2, <1>7, <2>3 DEF SelectTimeout, FreeRTOS_disconnect
  <2> QED BY <1>7, <2>1, <2>2, <2>3 DEF SelectTimeout
<1>8. CASE StartUnresolved \/ StartRefused
  BY <1>2, <1>8 DEF StartUnresolved, StartRefused, Start, NewConnection, FreeRTOS_disconnect
<1>9. CASE StartConnected
  <2>1. CASE tx' = <<>>
    BY <1>2, <1>9, <2>1 DEF StartConnected, Start, NewConnection
  <2>2. CASE tx' = <<Packet("CONNECT")>> /\ UNCHANGED faults
    <3>1. Packet("CONNECT") \in Pkt
      BY PacketTypes
    <3>2. tx' \in Seq(Pkt) /\ Len(tx') = 1
      BY <2>2, <3>1
    <3>3. rx' = <<>>
      BY <1>9 DEF StartConnected, Start, NewConnection
    <3>4. rx' \in Seq(Pkt) /\ Len(tx') <= MaxQueue
      BY <3>2, <3>3, EmptyStream, MqttAssumption
    <3> QED BY <1>0, <2>2, <3>2, <3>4 DEF Streams, Pkt, Types, Refused
  <2> QED BY <1>9, <2>1, <2>2 DEF StartConnected
<1>10. CASE ReadFails
  BY <1>2, <1>10 DEF ReadFails, FreeRTOS_disconnect
<1>11. CASE HandleConnect
  <2>1. PICK r \in Incoming :
          /\ Received(r)
          /\ NoSend \/ \E rc \in SendResults : sendPacket(Packet("SUBSCRIBE"), rc)
    BY <1>11 DEF HandleConnect
  <2>2. tx' \in Seq(Pkt) /\ Len(tx') <= MaxQueue
    BY <1>0, <1>5, <2>1, SendFacts, SentPackets
  <2> QED BY <1>4, <2>1, <2>2
<1>12. CASE HandleSubtopic \/ HandleOther
  <2>1. PICK r \in Incoming : Received(r) /\ NoSend
    BY <1>12 DEF HandleSubtopic, HandleOther
  <2> QED BY <1>4, <1>5, <2>1
<1>13. CASE HandlePublish
  <2>1. PICK r \in Incoming :
          /\ Received(r)
          /\ \/ NoSend
             \/ \E rc \in SendResults :
                  sendPacket(Ack(IF r.pkt.qos = 1 THEN "PUBACK" ELSE "PUBREC", r.pkt.id), rc)
    BY <1>13 DEF HandlePublish
  <2>2. r.pkt \in Pkt
    BY <1>0, IncomingFacts
  <2>3. tx' \in Seq(Pkt) /\ Len(tx') <= MaxQueue
    BY <1>0, <1>5, <2>1, <2>2, SendFacts, SentPackets
  <2> QED BY <1>4, <2>1, <2>3
<1>14. CASE HandlePubrecPubrel
  <2>1. PICK r \in Incoming, rc \in SendResults :
          Received(r) /\ sendPacket(Ack(NextOf(r.pkt.type), r.pkt.id), rc)
    BY <1>14 DEF HandlePubrecPubrel
  <2>2. r.pkt \in Pkt
    BY <1>0, IncomingFacts
  <2>3. tx' \in Seq(Pkt) /\ Len(tx') <= MaxQueue
    BY <1>0, <2>1, <2>2, SendFacts, SentPackets
  <2> QED BY <1>4, <2>1, <2>3
<1>15. CASE Keepalive
  <2>1. CASE NoSend /\ UNCHANGED rx
    BY <1>1, <1>15, <2>1 DEF Keepalive, NoSend
  <2>2. ASSUME NEW rc, sendPacket(Packet("PINGREQ"), rc), rx' = rx \/ rx' = <<>> PROVE Streams'
    BY <1>3, <1>15, <2>2, SentPackets DEF Keepalive
  <2> QED BY <1>15, <2>1, <2>2 DEF Keepalive
<1>16. CASE CmdTimerExpires
  BY <1>2, <1>16 DEF CmdTimerExpires
<1>17. CASE LinkLost \/ PeerEnds
  BY <1>2, <1>17 DEF LinkLost, PeerEnds
<1>18. ASSUME NEW p \in Pkt, Answer(p)
       PROVE  rx' \in Seq(Pkt)
  <2>1. PICK q \in Pkt : rx' = Append(rx, q)
    BY <1>18, PacketTypes DEF Answer
  <2> QED BY <1>0, <1>18, <2>1, AppendTo, MqttAssumption DEF Streams
<1>19. CASE BrokerPublishes
  <2>1. PICK i \in Ids \cup {0}, q \in 0 .. 2 : Answer(Publish(i, q))
    BY <1>19 DEF BrokerPublishes
  <2>2. rx' \in Seq(Pkt)
    BY <1>18, <1>19, <2>1, PacketTypes DEF BrokerPublishes
  <2>3. UNCHANGED <<tx, faults>>
    BY <1>19 DEF BrokerPublishes
  <2> QED BY <1>0, <2>2, <2>3 DEF Streams, Pkt, Types, Refused
<1>20. CASE BrokerReceives
  <2>1. tx # <<>> /\ tx' = Tail(tx)
    BY <1>20 DEF BrokerReceives
  <2>2. tx' \in Seq(Pkt) /\ Len(tx') <= MaxQueue /\ Head(tx) \in Pkt
    BY <1>0, <2>1, TailOf, MqttAssumption DEF Streams
  <2>3. UNCHANGED faults \/ Fault
    BY <1>20 DEF BrokerReceives
  <2>4. Head(tx).id \in Ids \cup {0}
    BY <2>2 DEF Pkt
  <2>5. \/ UNCHANGED rx \/ Answer(Packet("CONNACK")) \/ Answer(Packet("SUBACK"))
        \/ Answer([Packet("SUBACK") EXCEPT !.qos = Refused])
        \/ Answer(Packet("PUBACK")) \/ Answer(Packet("PINGRESP"))
        \/ Answer(Ack("PUBREL", Head(tx).id)) \/ Answer(Ack("PUBCOMP", Head(tx).id))
    BY <1>20 DEF BrokerReceives
  <2>6. UNCHANGED rx \/ \E p \in Pkt : Answer(p)
    BY <2>4, <2>5, PacketTypes DEF Types
  <2>7. rx' \in Seq(Pkt)
    BY <1>0, <1>18, <2>1, <2>6 DEF Streams
  <2>8. faults' \in 0 .. MaxFaults
    BY <1>0, <2>3, MqttAssumption DEF Streams, Fault
  <2> QED BY <2>2, <2>7, <2>8 DEF Streams, Pkt, Types, Refused
<1>21. CASE UNCHANGED mqttVars
  BY <1>1, <1>21 DEF mqttVars
<1> QED BY <1>6, <1>7, <1>8, <1>9, <1>10, <1>11, <1>12, <1>13, <1>14, <1>15, <1>16, <1>17,
           <1>19, <1>20, <1>21
        DEF MqttNext, prvMQTTTask, Select, MQTTDataHandle

(* Every step keeps the flags Boolean.                                     *)
LEMMA FlagsStep == TypeInv /\ [MqttNext]_mqttVars => Flags'
<1> SUFFICES ASSUME TypeInv, [MqttNext]_mqttVars PROVE Flags'
  OBVIOUS
<1> USE DEF clientVars, netVars, brokerVars
<1>0. Streams /\ Flags
  BY DEF TypeInv
<1>1. CASE NoSocket \/ SelectStale \/ SelectRead \/ SelectExcept
  BY <1>0, <1>1 DEF NoSocket, SelectStale, SelectRead, SelectExcept, Flags
<1>2. CASE SelectTimeout
  <2>1. isconnected' \in BOOLEAN /\ ping_timer' \in BOOLEAN
    <3>1. CASE sendPacket(Publish(0, 1), "ok")
      BY <1>0, <3>1, SendFacts, SentPackets
    <3>2. CASE UNCHANGED ping_timer /\ (UNCHANGED isconnected \/ isconnected' = FALSE)
      BY <1>0, <3>2 DEF Flags
    <3> QED BY <1>2, <3>1, <3>2 DEF SelectTimeout, NoSend
  <2> QED BY <1>0, <1>2, <2>1 DEF SelectTimeout, Flags
<1>3. CASE StartUnresolved \/ StartRefused \/ StartConnected
  BY <1>0, <1>3 DEF StartUnresolved, StartRefused, StartConnected, Start, NewConnection, Flags
<1>4. CASE ReadFails
  BY <1>0, <1>4 DEF ReadFails, Flags
<1>5. ASSUME NEW r \in Incoming, Received(r) PROVE frame' \in BOOLEAN /\ r.pkt \in Pkt
  BY <1>0, <1>5, ReceivedFacts
<1>6. ASSUME NoSend PROVE isconnected' \in BOOLEAN /\ ping_timer' \in BOOLEAN
  BY <1>0, <1>6 DEF NoSend, Flags
<1>7. CASE HandleConnect
  <2>1. PICK r \in Incoming :
          /\ Received(r)
          /\ NoSend \/ \E rc \in SendResults : sendPacket(Packet("SUBSCRIBE"), rc)
    BY <1>7 DEF HandleConnect
  <2>2. frame' \in BOOLEAN
    BY <1>5, <2>1
  <2>3. isconnected' \in BOOLEAN /\ ping_timer' \in BOOLEAN
    BY <1>0, <1>6, <2>1, SendFacts, SentPackets
  <2>4. cmd_timer' = FALSE \/ UNCHANGED cmd_timer
    BY <1>7 DEF HandleConnect
  <2>5. rxevent' = FALSE /\ UNCHANGED <<ping_outstanding, handler, subscribed>>
    BY <1>7 DEF HandleConnect
  <2> QED BY <1>0, <2>2, <2>3, <2>4, <2>5 DEF Flags
<1>8. CASE HandleSubtopic
  <2>1. PICK r \in Incoming : Received(r) /\ NoSend
    BY <1>8 DEF HandleSubtopic
  <2>2. frame' \in BOOLEAN /\ isconnected' \in BOOLEAN /\ ping_timer' \in BOOLEAN
    BY <1>5, <1>6, <2>1
  <2>3. handler' = TRUE \/ UNCHANGED handler
    BY <1>8 DEF HandleSubtopic, Registered
  <2>4. rxevent' = FALSE /\ UNCHANGED <<ping_outstanding, cmd_timer, subscribed>>
    BY <1>8 DEF HandleSubtopic
  <2> QED BY <1>0, <2>2, <2>3, <2>4 DEF Flags
<1>9. CASE HandlePublish
  <2>1. PICK r \in Incoming :
          /\ Received(r)
          /\ \/ NoSend
             \/ \E rc \in SendResults :
                  sendPacket(Ack(IF r.pkt.qos = 1 THEN "PUBACK" ELSE "PUBREC", r.pkt.id), rc)
    BY <1>9 DEF HandlePublish
  <2>2. frame' \in BOOLEAN /\ r.pkt \in Pkt
    BY <1>5, <2>1
  <2>3. isconnected' \in BOOLEAN /\ ping_timer' \in BOOLEAN
    BY <1>0, <1>6, <2>1, <2>2, SendFacts, SentPackets
  <2>4. rxevent' = FALSE /\ UNCHANGED <<ping_outstanding, cmd_timer, handler, subscribed>>
    BY <1>9 DEF HandlePublish
  <2> QED BY <1>0, <2>2, <2>3, <2>4 DEF Flags
<1>10. CASE HandlePubrecPubrel
  <2>1. PICK r \in Incoming, rc \in SendResults :
          Received(r) /\ sendPacket(Ack(NextOf(r.pkt.type), r.pkt.id), rc)
    BY <1>10 DEF HandlePubrecPubrel
  <2>2. frame' \in BOOLEAN /\ r.pkt \in Pkt
    BY <1>5, <2>1
  <2>3. isconnected' \in BOOLEAN /\ ping_timer' \in BOOLEAN
    BY <1>0, <2>1, <2>2, SendFacts, SentPackets
  <2>4. rxevent' = FALSE /\ UNCHANGED <<ping_outstanding, cmd_timer, handler, subscribed>>
    BY <1>10 DEF HandlePubrecPubrel
  <2> QED BY <1>0, <2>2, <2>3, <2>4 DEF Flags
<1>11. CASE HandleOther
  <2>1. PICK r \in Incoming :
          /\ Received(r) /\ NoSend
          /\ ping_outstanding' = (ping_outstanding /\ r.pkt.type # "PINGRESP")
    BY <1>11 DEF HandleOther
  <2>2. frame' \in BOOLEAN /\ isconnected' \in BOOLEAN /\ ping_timer' \in BOOLEAN
    BY <1>5, <1>6, <2>1
  <2>3. ping_outstanding' \in BOOLEAN
    BY <2>1
  <2>4. rxevent' = FALSE /\ UNCHANGED <<cmd_timer, handler, subscribed>>
    BY <1>11 DEF HandleOther
  <2> QED BY <1>0, <2>2, <2>3, <2>4 DEF Flags
<1>12. CASE Keepalive
  <2>1. isconnected' \in BOOLEAN /\ ping_timer' \in BOOLEAN
    BY <1>0, <1>6, <1>12, SendFacts, SentPackets DEF Keepalive
  <2>2. ping_outstanding' \in BOOLEAN
    BY <1>0, <1>12 DEF Keepalive, Flags
  <2> QED BY <1>0, <1>12, <2>1, <2>2 DEF Keepalive, Flags
<1>13. CASE CmdTimerExpires \/ PingTimerExpires \/ LinkLost \/ TcpGivesUp \/ PeerEnds
            \/ OtherOpens \/ OtherCloses \/ BrokerPublishes
  BY <1>0, <1>13 DEF CmdTimerExpires, PingTimerExpires, LinkLost, TcpGivesUp, PeerEnds,
                     OtherOpens, OtherCloses, BrokerPublishes, Flags
<1>14. CASE BrokerReceives
  <2>1. subscribed' = TRUE \/ UNCHANGED subscribed
    BY <1>14 DEF BrokerReceives
  <2> QED BY <1>0, <1>14, <2>1 DEF BrokerReceives, Flags
<1>15. CASE UNCHANGED mqttVars
  BY <1>0, <1>15 DEF mqttVars, Flags
<1> QED BY <1>1, <1>2, <1>3, <1>4, <1>7, <1>8, <1>9, <1>10, <1>11, <1>12, <1>13, <1>14, <1>15
        DEF MqttNext, prvMQTTTask, Select, MQTTDataHandle

(* Every step keeps the states of task, link and broker.                   *)
LEMMA StatesStep == TypeInv /\ [MqttNext]_mqttVars => States'
<1> SUFFICES ASSUME TypeInv, [MqttNext]_mqttVars PROVE States'
  OBVIOUS
<1> USE DEF clientVars, netVars, brokerVars
<1>0. Streams /\ Flags /\ States
  BY DEF TypeInv
<1>1. ASSUME NoSend PROVE link' = link
  BY <1>1 DEF NoSend
<1>2. ASSUME NEW p \in Pkt, NEW rc, sendPacket(p, rc) PROVE link' \in {link, "none"}
  BY <1>0, <1>2, SendFacts DEF FreeRTOS_disconnect
<1>3. CASE NoSocket \/ SelectStale \/ SelectRead \/ SelectExcept
  BY <1>0, <1>3 DEF NoSocket, SelectStale, SelectRead, SelectExcept, States
<1>4. CASE SelectTimeout
  <2>1. link' \in {link, "none"}
    BY <1>1, <1>2, <1>4, SentPackets DEF SelectTimeout, FreeRTOS_disconnect
  <2> QED BY <1>0, <1>4, <2>1 DEF SelectTimeout, States
<1>5. CASE StartUnresolved \/ StartRefused \/ StartConnected
  BY <1>0, <1>5 DEF StartUnresolved, StartRefused, StartConnected, Start, NewConnection,
                    FreeRTOS_disconnect, States
<1>6. CASE ReadFails
  BY <1>0, <1>6 DEF ReadFails, FreeRTOS_disconnect, AfterFailedRead, States
<1>7. CASE HandleConnect
  <2>1. link' \in {link, "none"}
    BY <1>1, <1>2, <1>7, SentPackets DEF HandleConnect
  <2>2. status' \in {"SUBTOPIC", "START", status}
    BY <1>7 DEF HandleConnect
  <2>3. pc' = "select" /\ UNCHANGED <<session, unacked, delivered>>
    BY <1>7 DEF HandleConnect
  <2> QED BY <1>0, <2>1, <2>2, <2>3 DEF States
<1>8. CASE HandleSubtopic
  <2>1. status' \in {"RUNNING", "START", status}
    BY <1>8 DEF HandleSubtopic
  <2>2. pc' = "select" /\ UNCHANGED <<link, session, unacked, delivered>>
    BY <1>8 DEF HandleSubtopic, NoSend
  <2> QED BY <1>0, <2>1, <2>2 DEF States
<1>9. CASE HandlePublish
  <2>1. PICK r \in Incoming :
          /\ \/ NoSend
             \/ \E rc \in SendResults :
                  sendPacket(Ack(IF r.pkt.qos = 1 THEN "PUBACK" ELSE "PUBREC", r.pkt.id), rc)
          /\ delivered' = delivered
                \cup (IF handler /\ r.frame THEN {r.pkt.id} \cap Ids ELSE {})
    BY <1>9 DEF HandlePublish
  <2>2. r.pkt \in Pkt
    BY <1>0, IncomingFacts
  <2>3. link' \in {link, "none"}
    BY <1>1, <1>2, <2>1, <2>2, SentPackets
  <2>4. delivered' \subseteq Ids
    BY <1>0, <2>1 DEF States
  <2>5. status' \in {status, "START"} /\ pc' \in {"select", "keepalive"}
    BY <1>9 DEF HandlePublish
  <2>6. UNCHANGED <<session, unacked>>
    BY <1>9 DEF HandlePublish
  <2> QED BY <1>0, <2>3, <2>4, <2>5, <2>6 DEF States
<1>10. CASE HandlePubrecPubrel
  <2>1. PICK r \in Incoming, rc \in SendResults : sendPacket(Ack(NextOf(r.pkt.type), r.pkt.id), rc)
    BY <1>10 DEF HandlePubrecPubrel
  <2>2. r.pkt \in Pkt
    BY <1>0, IncomingFacts
  <2>3. link' \in {link, "none"}
    BY <1>2, <2>1, <2>2, SentPackets
  <2>4. /\ status' \in {status, "START"} /\ pc' = "keepalive"
        /\ UNCHANGED <<session, unacked, delivered>>
    BY <1>10 DEF HandlePubrecPubrel
  <2> QED BY <1>0, <2>3, <2>4 DEF States
<1>11. CASE HandleOther
  BY <1>0, <1>11 DEF HandleOther, NoSend, States
<1>12. CASE Keepalive
  <2>1. link' \in {link, "none"}
    BY <1>1, <1>2, <1>12, SentPackets DEF Keepalive
  <2> QED BY <1>0, <1>12, <2>1 DEF Keepalive, States
<1>13. CASE CmdTimerExpires \/ PingTimerExpires \/ OtherOpens \/ OtherCloses
  BY <1>0, <1>13 DEF CmdTimerExpires, PingTimerExpires, OtherOpens, OtherCloses, States
<1>14. CASE LinkLost \/ TcpGivesUp \/ PeerEnds
  BY <1>0, <1>14 DEF LinkLost, TcpGivesUp, PeerEnds, States
<1>15. CASE BrokerPublishes
  BY <1>0, <1>15 DEF BrokerPublishes, States
<1>16. CASE BrokerReceives
  <2>1. link' \in {link, "closed"} /\ session' \in {session, "connected", "refused"}
    BY <1>16 DEF BrokerReceives
  <2>2. unacked' \subseteq unacked /\ delivered' \subseteq delivered
    BY <1>16 DEF BrokerReceives
  <2>3. UNCHANGED <<pc, status>>
    BY <1>16 DEF BrokerReceives
  <2> QED BY <1>0, <2>1, <2>2, <2>3 DEF States
<1>17. CASE UNCHANGED mqttVars
  BY <1>0, <1>17 DEF mqttVars, States
<1> QED BY <1>3, <1>4, <1>5, <1>6, <1>7, <1>8, <1>9, <1>10, <1>11, <1>12, <1>13, <1>14,
           <1>15, <1>16, <1>17
        DEF MqttNext, prvMQTTTask, Select, MQTTDataHandle

(* The types hold initially.                                               *)
LEMMA MqttTypeInit == MqttInit => TypeInv
<1> SUFFICES ASSUME MqttInit PROVE TypeInv
  OBVIOUS
<1>1. Streams
  BY EmptyStream, MqttAssumption DEF MqttInit, Streams
<1>2. Flags
  BY DEF MqttInit, Flags
<1>3. States
  BY DEF MqttInit, States
<1>4. Sockets
  BY DEF MqttInit, Sockets
<1> QED BY <1>1, <1>2, <1>3, <1>4 DEF TypeInv

(* Every step keeps the types.                                             *)
LEMMA MqttTypeStep == TypeInv /\ [MqttNext]_mqttVars => TypeInv'
  BY StreamsStep, FlagsStep, StatesStep, SocketsStep DEF TypeInv

(* The types of the client, its sockets, streams and broker.               *)
THEOREM MqttTypeCorrect == MqttSpec => []MqttTypeOK
<1>1. TypeInv => MqttTypeOK
  <2> SUFFICES ASSUME TypeInv PROVE MqttTypeOK
    OBVIOUS
  <2>1. {isconnected, rxevent, ping_outstanding, cmd_timer, ping_timer, handler, frame,
         subscribed} \subseteq BOOLEAN
    BY DEF TypeInv, Flags
  <2> QED BY <2>1 DEF TypeInv, Streams, States, Sockets, MqttTypeOK
<1> QED BY <1>1, MqttTypeInit, MqttTypeStep, PTL DEF MqttSpec

-----------------------------------------------------------------------------
(* A connection past MQTT_START stays the client's own unless keepalive    *)
(* loses it without telling.                                               *)
LEMMA ConnectedStep ==
    ~PingSendFails /\ TypeInv /\ Connected /\ [MqttNext]_mqttVars => Connected'
<1> SUFFICES ASSUME ~PingSendFails, TypeInv, Connected, [MqttNext]_mqttVars,
                    status' # "START"
             PROVE  Own' /\ isconnected' /\ link' # "none"
  BY DEF Connected
<1> DEFINE Goal == Own' /\ isconnected' /\ link' # "none"
<1> USE DEF clientVars, netVars, brokerVars
<1>0. Streams /\ Flags /\ Sockets
  BY DEF TypeInv
<1>1. ASSUME status # "START", UNCHANGED <<my_socket, owner, link, isconnected>> PROVE Goal
  BY <1>1 DEF Connected, Own
<1>2. ASSUME status # "START", NEW p \in Pkt, sendPacket(p, "ok") PROVE Goal
  BY <1>0, <1>1, <1>2, SendFacts
<1>3. ASSUME status # "START", NoSend PROVE Goal
  BY <1>1, <1>3 DEF NoSend
<1>4. CASE NoSocket \/ SelectStale \/ SelectRead \/ SelectExcept
  BY <1>1, <1>4 DEF NoSocket, SelectStale, SelectRead, SelectExcept
<1>5. CASE SelectTimeout
  BY <1>2, <1>3, <1>5, SentPackets DEF SelectTimeout
<1>6. CASE StartUnresolved \/ StartRefused
  BY <1>6 DEF StartUnresolved, StartRefused, Start
<1>7. CASE StartConnected
  <2>1. /\ owner' = [Freed EXCEPT ![LowestFree] = "mqtt"] /\ my_socket' = LowestFree
        /\ link' = "up" /\ isconnected' = TRUE
    BY <1>7 DEF StartConnected, Start
  <2>2. LowestFree # -1
    BY <1>0, FreedFacts DEF Fds
  <2> QED BY <1>0, <2>1, <2>2, FreedFacts DEF Own
<1>8. CASE ReadFails
  BY <1>8 DEF ReadFails, AfterFailedRead
<1>9. CASE HandleConnect
  BY <1>2, <1>3, <1>9, SentPackets DEF HandleConnect
<1>10. CASE HandleSubtopic \/ HandleOther
  BY <1>3, <1>10 DEF HandleSubtopic, HandleOther
<1>11. CASE HandlePublish
  <2>1. PICK r \in Incoming :
          \/ NoSend
          \/ sendPacket(Ack(IF r.pkt.qos = 1 THEN "PUBACK" ELSE "PUBREC", r.pkt.id), "ok")
    BY <1>11 DEF HandlePublish
  <2>2. r.pkt \in Pkt
    BY <1>0, IncomingFacts
  <2>3. status # "START"
    BY <1>11 DEF HandlePublish
  <2> QED BY <1>2, <1>3, <2>1, <2>2, <2>3, SentPackets
<1>12. CASE HandlePubrecPubrel
  <2>1. PICK r \in Incoming : sendPacket(Ack(NextOf(r.pkt.type), r.pkt.id), "ok")
    BY <1>12 DEF HandlePubrecPubrel
  <2>2. r.pkt \in Pkt
    BY <1>0, IncomingFacts
  <2>3. status # "START"
    BY <1>12 DEF HandlePubrecPubrel
  <2> QED BY <1>2, <2>1, <2>2, <2>3, SentPackets
<1>13. CASE Keepalive
  <2>1. status # "START"
    BY <1>13 DEF Keepalive
  <2>2. CASE NoSend
    BY <1>3, <2>1, <2>2
  <2>3. ASSUME NEW rc \in SendResults, rc # "error", sendPacket(Packet("PINGREQ"), rc) PROVE Goal
    BY <1>0, <1>1, <2>1, <2>3, SendFacts, SentPackets
  <2> QED BY <1>13, <2>1, <2>2, <2>3 DEF Keepalive
<1>14. CASE CmdTimerExpires \/ PingTimerExpires
  BY <1>1, <1>14 DEF CmdTimerExpires, PingTimerExpires
<1>15. CASE LinkLost \/ TcpGivesUp \/ PeerEnds
  BY <1>15 DEF LinkLost, TcpGivesUp, PeerEnds, Connected, Own
<1>16. CASE OtherOpens \/ OtherCloses
  BY <1>16 DEF OtherOpens, OtherCloses
<1>17. CASE BrokerPublishes
  BY <1>1, <1>17 DEF BrokerPublishes
<1>18. CASE BrokerReceives
  <2>1. UNCHANGED <<status, my_socket, owner, isconnected>> /\ link' \in {link, "closed"}
    BY <1>18 DEF BrokerReceives
  <2> QED BY <2>1 DEF Connected, Own
<1>19. CASE UNCHANGED mqttVars
  BY <1>1, <1>19 DEF mqttVars
<1> QED BY <1>4, <1>5, <1>6, <1>7, <1>8, <1>9, <1>10, <1>11, <1>12, <1>13, <1>14, <1>15,
           <1>16, <1>17, <1>18, <1>19
        DEF MqttNext, prvMQTTTask, Select, MQTTDataHandle

(* Past MQTT_START the client uses a socket of its own, and it leaves none *)
(* behind, provided that no PINGREQ fails to be sent: keepalive does not   *)
(* report that it closed the connection.                                   *)
THEOREM SocketIsOwn == ~PingSendFails => (MqttSpec => []OwnSocket)
<1> SUFFICES ASSUME ~PingSendFails PROVE MqttSpec => []OwnSocket
  OBVIOUS
<1>1. MqttInit => TypeInv /\ Connected
  BY MqttTypeInit DEF MqttInit, Connected
<1>2. TypeInv /\ Connected /\ [MqttNext]_mqttVars => (TypeInv /\ Connected)'
  BY MqttTypeStep, ConnectedStep
<1>3. TypeInv /\ Connected => OwnSocket
  BY DEF TypeInv, Sockets, Connected, OwnSocket
<1> QED BY <1>1, <1>2, <1>3, PTL DEF MqttSpec

-----------------------------------------------------------------------------
(* Every step keeps how a connection opens: CONNECT comes first, and a     *)
(* refusal closes the connection.                                          *)
LEMMA OpeningStep == TypeInv /\ Opening /\ [MqttNext]_mqttVars => Opening'
<1> SUFFICES ASSUME TypeInv, Opening, [MqttNext]_mqttVars PROVE Opening'
  OBVIOUS
<1> USE DEF clientVars, netVars, brokerVars
<1>0. Streams /\ Flags /\ States
  BY DEF TypeInv
<1>1. ASSUME tx' = tx \/ tx' = <<>>, UNCHANGED session,
             link' = link \/ link' # "up", (status' = status /\ handler' = handler)
                                            \/ status' # "RUNNING" \/ handler' = TRUE
      PROVE  Opening'
  <2>1. \A k \in DOMAIN tx' : tx'[k].type = "CONNECT" => k = 1 /\ session' = "none"
    BY <1>1, EmptyStream DEF Opening
  <2>2. session' = "refused" => link' # "up"
    BY <1>1 DEF Opening
  <2>3. status' = "RUNNING" => handler'
    BY <1>1 DEF Opening
  <2> QED BY <2>1, <2>2, <2>3 DEF Opening
<1>2. ASSUME NEW p \in Pkt, p.type # "CONNECT", NEW rc, sendPacket(p, rc),
             UNCHANGED <<session, handler>>, status' = status \/ status' # "RUNNING"
      PROVE  Opening'
  <2>1. CASE tx' = Append(tx, p) /\ link' = link
    <3>1. tx \in Seq(Pkt)
      BY <1>0 DEF Streams
    <3>2. \A k \in DOMAIN tx' : tx'[k].type = "CONNECT" => k \in DOMAIN tx /\ tx'[k] = tx[k]
      BY <1>2, <2>1, <3>1, AppendTo
    <3> QED BY <1>2, <2>1, <3>2 DEF Opening
  <2>2. CASE (tx' = tx /\ link' = link) \/ (tx' = <<>> /\ link' = "none")
    BY <1>1, <1>2, <2>2
  <2> QED BY <1>0, <1>2, <2>1, <2>2, SendFacts DEF FreeRTOS_disconnect
<1>3. /\ Packet("SUBSCRIBE").type # "CONNECT" /\ Packet("PINGREQ").type # "CONNECT"
      /\ Publish(0, 1).type # "CONNECT"
      /\ \A q : /\ Ack(IF q.qos = 1 THEN "PUBACK" ELSE "PUBREC", q.id).type # "CONNECT"
                /\ Ack(NextOf(q.type), q.id).type # "CONNECT"
  BY DEF Packet, Publish, Ack, NextOf
<1>4. CASE NoSocket \/ SelectStale \/ SelectRead \/ SelectExcept
  BY <1>1, <1>4 DEF NoSocket, SelectStale, SelectRead, SelectExcept
<1>5. CASE SelectTimeout
  <2>1. CASE sendPacket(Publish(0, 1), "ok") /\ UNCHANGED status
    BY <1>2, <1>3, <1>5, <2>1, SentPackets DEF SelectTimeout
  <2>2. CASE NoSend /\ UNCHANGED status
    BY <1>1, <1>5, <2>2 DEF SelectTimeout, NoSend
  <2>3. CASE FreeRTOS_disconnect /\ status' = "START"
    BY <1>1, <1>5, <2>3 DEF SelectTimeout, FreeRTOS_disconnect
  <2> QED BY <1>5, <2>1, <2>2, <2>3 DEF SelectTimeout
<1>6. CASE StartUnresolved \/ StartRefused \/ StartConnected
  <2>1. session' = "none" /\ status' \in {"START", "CONNECT"}
    BY <1>6 DEF StartUnresolved, StartRefused, StartConnected, Start, NewConnection
  <2>2. tx' = <<>> \/ tx' = <<Packet("CONNECT")>>
    BY <1>6 DEF StartUnresolved, StartRefused, StartConnected, FreeRTOS_disconnect
  <2>3. \A k \in DOMAIN tx' : k = 1
    BY <2>2, EmptyStream
  <2> QED BY <2>1, <2>3 DEF Opening
<1>7. CASE ReadFails
  BY <1>1, <1>7 DEF ReadFails, FreeRTOS_disconnect, AfterFailedRead
<1>8. CASE HandleConnect
  <2>1. status' # "RUNNING" /\ UNCHANGED <<session, handler>>
    BY <1>8 DEF HandleConnect
  <2>2. CASE NoSend
    BY <1>1, <2>1, <2>2 DEF NoSend
  <2>3. ASSUME NEW rc \in SendResults, sendPacket(Packet("SUBSCRIBE"), rc) PROVE Opening'
    BY <1>2, <1>3, <2>1, <2>3, SentPackets
  <2> QED BY <1>8, <2>2, <2>3 DEF HandleConnect
<1>9. CASE HandleSubtopic
  BY <1>1, <1>9 DEF HandleSubtopic, NoSend, Registered
<1>10. CASE HandlePublish
  <2>1. PICK r \in Incoming :
          \/ NoSend
          \/ \E rc \in SendResults :
               sendPacket(Ack(IF r.pkt.qos = 1 THEN "PUBACK" ELSE "PUBREC", r.pkt.id), rc)
    BY <1>10 DEF HandlePublish
  <2>2. r.pkt \in Pkt
    BY <1>0, IncomingFacts
  <2>3. status' \in {status, "START"} /\ UNCHANGED <<session, handler>>
    BY <1>10 DEF HandlePublish
  <2>4. CASE NoSend
    BY <1>1, <2>3, <2>4 DEF NoSend
  <2> QED BY <1>2, <1>3, <2>1, <2>2, <2>3, <2>4, SentPackets
<1>11. CASE HandlePubrecPubrel
  <2>1. PICK r \in Incoming, rc \in SendResults : sendPacket(Ack(NextOf(r.pkt.type), r.pkt.id), rc)
    BY <1>11 DEF HandlePubrecPubrel
  <2>2. r.pkt \in Pkt
    BY <1>0, IncomingFacts
  <2>3. status' \in {status, "START"} /\ UNCHANGED <<session, handler>>
    BY <1>11 DEF HandlePubrecPubrel
  <2> QED BY <1>2, <1>3, <2>1, <2>2, <2>3, SentPackets
<1>12. CASE HandleOther
  BY <1>1, <1>12 DEF HandleOther, NoSend
<1>13. CASE Keepalive
  <2>1. UNCHANGED <<status, session, handler>>
    BY <1>13 DEF Keepalive
  <2>2. CASE NoSend
    BY <1>1, <2>1, <2>2 DEF NoSend
  <2>3. ASSUME NEW rc \in SendResults, sendPacket(Packet("PINGREQ"), rc) PROVE Opening'
    BY <1>2, <1>3, <2>1, <2>3, SentPackets
  <2> QED BY <1>13, <2>2, <2>3 DEF Keepalive
<1>14. CASE CmdTimerExpires \/ PingTimerExpires \/ OtherOpens \/ OtherCloses \/ BrokerPublishes
  BY <1>1, <1>14 DEF CmdTimerExpires, PingTimerExpires, OtherOpens, OtherCloses,
                     BrokerPublishes
<1>15. CASE LinkLost \/ TcpGivesUp \/ PeerEnds
  BY <1>1, <1>15 DEF LinkLost, TcpGivesUp, PeerEnds
<1>16. CASE BrokerReceives
  <2>1. tx # <<>> /\ tx' = Tail(tx) /\ link = "up" /\ UNCHANGED <<status, handler>>
    BY <1>16 DEF BrokerReceives
  <2>2. tx \in Seq(Pkt)
    BY <1>0 DEF Streams
  <2>3. \A k \in DOMAIN tx' : tx'[k].type # "CONNECT"
    <3>1. ASSUME NEW k \in DOMAIN tx', tx'[k].type = "CONNECT" PROVE FALSE
      <4>1. k + 1 \in DOMAIN tx /\ tx[k + 1].type = "CONNECT" /\ k \in Nat /\ k # 0
        BY <2>1, <2>2, <3>1, TailOf
      <4>2. k + 1 = 1
        BY <4>1 DEF Opening
      <4> QED BY <4>1, <4>2
    <3> QED BY <3>1
  <2>4. session' = "refused" => link' # "up"
    <3>1. \/ UNCHANGED <<session, link>> \/ session' = "connected"
          \/ session' = "refused" /\ link' = "closed"
      BY <1>16 DEF BrokerReceives
    <3> QED BY <3>1 DEF Opening
  <2> QED BY <2>1, <2>3, <2>4 DEF Opening
<1>17. CASE UNCHANGED mqttVars
  BY <1>1, <1>17 DEF mqttVars
<1> QED BY <1>4, <1>5, <1>6, <1>7, <1>8, <1>9, <1>10, <1>11, <1>12, <1>13, <1>14, <1>15,
           <1>16, <1>17
        DEF MqttNext, prvMQTTTask, Select, MQTTDataHandle

-----------------------------------------------------------------------------
(* Framed in the next state, from its parts with the arguments primed.     *)
LEMMA FramedNext ==
    ASSUME Exchange(rx', tx', session', subscribed', unacked', delivered'), Phase'
    PROVE  Framed'
  BY DEF Framed, Exchange, Answers, OneSuback, PastDelivery, OnePlace, InAt, OutAt, Live, Has,
         Acks

(* A step that neither changes the subscription nor adds a SUBSCRIBE or    *)
(* SUBACK keeps the phase.                                                 *)
LEMMA PhaseKept ==
    ASSUME Phase, status' \in {status, "START"}, UNCHANGED subscribed,
           Has(tx', "SUBSCRIBE") => Has(tx, "SUBSCRIBE"), Has(rx', "SUBACK") => Has(rx, "SUBACK")
    PROVE  Phase'
  BY DEF Phase, Has

(* What is left of the exchange when the client has read a packet.         *)
LEMMA ReadStep ==
    ASSUME TypeInv, frame => Framed, NEW r \in Incoming, Received(r), frame'
    PROVE  /\ frame /\ r.frame /\ rx' \in Seq(Pkt)
           /\ Exchange(rx', tx, session, subscribed, unacked, delivered) /\ Phase
           /\ Has(rx', "SUBACK") => Has(rx, "SUBACK")
<1>1. /\ rx' \in Seq(Pkt) /\ frame /\ r.frame
      /\ \/ rx' = <<>>
         \/ rx' = rx
         \/ rx # <<>> /\ rx' = Tail(rx)
  BY ReceivedFacts DEF TypeInv
<1>2. Exchange(rx, tx, session, subscribed, unacked, delivered) /\ Phase
  BY <1>1 DEF Framed
<1>3. rx \in Seq(Pkt) /\ tx \in Seq(Pkt)
  BY DEF TypeInv, Streams
<1>4. CASE rx' = <<>>
  BY <1>1, <1>2, <1>4, LoseIncoming, EmptyStream DEF Has
<1>5. CASE rx' = rx
  BY <1>1, <1>2, <1>5
<1>6. CASE rx # <<>> /\ rx' = Tail(rx)
  <2>1. Exchange(Tail(rx), tx, session, subscribed, unacked, delivered)
    BY <1>2, <1>3, <1>6, ReadAny
  <2>2. Has(rx', "SUBACK") => Has(rx, "SUBACK")
    BY <1>3, <1>6, TailOf DEF Has
  <2> QED BY <1>1, <1>2, <1>6, <2>1, <2>2
<1> QED BY <1>1, <1>4, <1>5, <1>6

(* A known packet that readPacket returns in frame was the first of the    *)
(* stream.                                                                 *)
LEMMA ReadFirst ==
    ASSUME TypeInv, NEW r \in Incoming, Received(r), frame', r.pkt.type # "NONE"
    PROVE  rx # <<>> /\ r.pkt = rx[1] /\ rx' \in {Tail(rx), <<>>} /\ r.pkt \in Pkt
<1>1. NoPacket.type = "NONE"
  BY DEF NoPacket, Packet
<1>2. r.pkt # NoPacket
  BY <1>1
<1> QED BY <1>2, ReceivedFacts DEF TypeInv

(* ... and sent one that may be sent in the state it is in.                *)
LEMMA SendStep ==
    ASSUME TypeInv, NEW r \in Seq(Pkt), NEW ses, NEW sub, NEW una, NEW del,
           Exchange(r, tx, ses, sub, una, del), NEW p \in Pkt, NEW rc, sendPacket(p, rc),
           p.type = "SUBSCRIBE" => /\ ses # "none" /\ ~sub
                                   /\ ~Has(tx, "SUBSCRIBE") /\ ~Has(r, "SUBACK"),
           p.type \in Acks => p.id \in del /\ p.id \in una,
           p.type \in Acks => \A k \in DOMAIN r : ~InAt(r, sub, p.id, k),
           p.type \in Acks => \A k \in DOMAIN tx : ~OutAt(tx, p.id, k)
    PROVE  /\ Exchange(r, tx', ses, sub, una, del)
           /\ p.type # "SUBSCRIBE" /\ Has(tx', "SUBSCRIBE") => Has(tx, "SUBSCRIBE")
<1>1. tx \in Seq(Pkt)
  BY DEF TypeInv, Streams
<1>2. tx' = tx \/ tx' = Append(tx, p) \/ tx' = <<>>
  BY SendFacts DEF TypeInv, FreeRTOS_disconnect
<1>3. CASE tx' = tx
  BY <1>3
<1>4. CASE tx' = <<>>
  BY <1>4, LoseOutgoing, EmptyStream DEF Has
<1>5. CASE tx' = Append(tx, p)
  <2>1. Exchange(r, Append(tx, p), ses, sub, una, del)
    BY <1>1, SendAny
  <2>2. p.type # "SUBSCRIBE" /\ Has(tx', "SUBSCRIBE") => Has(tx, "SUBSCRIBE")
    BY <1>1, <1>5, AppendTo DEF Has
  <2> QED BY <1>5, <2>1, <2>2
<1> QED BY <1>2, <1>3, <1>4, <1>5

(* MQTT_START begins with empty streams and a CONNECT.                     *)
LEMMA StartFramed ==
    ASSUME StartUnresolved \/ StartRefused \/ StartConnected
    PROVE  Framed'
<1>1. /\ rx' = <<>> /\ subscribed' = FALSE /\ unacked' = {} /\ delivered' = {}
      /\ session' = "none" /\ status' \in {"START", "CONNECT"}
  BY DEF StartUnresolved, StartRefused, StartConnected, Start, NewConnection
<1>2. tx' = <<>> \/ tx' = <<Packet("CONNECT")>>
  BY DEF StartUnresolved, StartRefused, StartConnected, FreeRTOS_disconnect
<1>3. \A k \in DOMAIN tx' : tx'[k].type = "CONNECT"
  BY <1>2, EmptyStream DEF Packet
<1>4. ~Has(rx', "SUBACK") /\ ~Has(rx', "CONNACK") /\ ~Has(tx', "SUBSCRIBE")
  BY <1>1, <1>3, EmptyStream DEF Has
<1>5. Answers(rx', tx', session', subscribed') /\ OneSuback(rx', tx', subscribed')
  BY <1>1, <1>3, <1>4, EmptyStream DEF Answers, OneSuback
<1>6. PastDelivery(rx', tx', delivered')
  BY <1>1, <1>3, EmptyStream DEF PastDelivery, Acks
<1>7. \A i \in Ids : OnePlace(rx', tx', subscribed', unacked', i)
  BY <1>1, <1>3, EmptyStream DEF OnePlace, OutAt, Acks
<1>8. Exchange(rx', tx', session', subscribed', unacked', delivered')
  BY <1>5, <1>6, <1>7 DEF Exchange
<1>9. Phase'
  BY <1>1, <1>4 DEF Phase, Has
<1> QED BY <1>8, <1>9, FramedNext

(* MQTT_CONNECT sends the one SUBSCRIBE, after the CONNACK.                *)
LEMMA ConnectFramed ==
    ASSUME MqttInv, HandleConnect, frame'
    PROVE  Framed'
<1>0. TypeInv /\ (frame => Framed) /\ status = "CONNECT"
      /\ UNCHANGED <<session, subscribed, unacked, delivered>>
  BY DEF MqttInv, HandleConnect, brokerVars
<1>1. PICK r \in Incoming :
        /\ \/ /\ r.pkt.type = "CONNACK"
              /\ \E rc \in SendResults :
                    /\ sendPacket(Packet("SUBSCRIBE"), rc)
                    /\ status' \in {"SUBTOPIC", "START"}
           \/ /\ status' \in {status, "START"}
              /\ NoSend
        /\ Received(r)
  BY DEF HandleConnect
<1>2. /\ frame /\ rx' \in Seq(Pkt)
      /\ Exchange(rx', tx, session, subscribed, unacked, delivered) /\ Phase
      /\ Has(rx', "SUBACK") => Has(rx, "SUBACK")
  BY <1>0, <1>1, ReadStep
<1>3. ~Has(tx, "SUBSCRIBE") /\ ~Has(rx, "SUBACK") /\ ~subscribed
  BY <1>0, <1>2 DEF Phase
<1>4. CASE NoSend /\ status' \in {status, "START"}
  <2>1. tx' = tx
    BY <1>4 DEF NoSend
  <2> QED BY <1>0, <1>2, <1>4, <2>1, PhaseKept, FramedNext
<1>5. ASSUME r.pkt.type = "CONNACK", NEW rc \in SendResults,
             sendPacket(Packet("SUBSCRIBE"), rc), status' \in {"SUBTOPIC", "START"}
      PROVE  Framed'
  <2>1. rx # <<>> /\ r.pkt = rx[1]
    BY <1>0, <1>1, <1>5, ReadFirst
  <2>2. Phase'
    BY <1>5 DEF Phase
  <2>3. Has(rx, "CONNACK")
    BY <1>0, <1>5, <2>1, TailOf DEF Has, TypeInv, Streams
  <2>4. session # "none"
    BY <1>0, <1>2, <2>3 DEF Framed, Exchange, Answers
  <2>5. Packet("SUBSCRIBE") \in Pkt /\ Packet("SUBSCRIBE").type \notin Acks
    BY PacketTypes DEF Packet, Acks
  <2>6. Exchange(rx', tx', session, subscribed, unacked, delivered)
    BY <1>0, <1>2, <1>3, <1>5, <2>4, <2>5, SendStep
  <2> QED BY <1>0, <2>2, <2>6, FramedNext
<1> QED BY <1>1, <1>4, <1>5

(* The SUBACK that grants the subscription is the only one.                *)
LEMMA SubtopicFramed ==
    ASSUME MqttInv, HandleSubtopic, frame'
    PROVE  Framed'
<1>0. TypeInv /\ (frame => Framed) /\ status = "SUBTOPIC"
      /\ UNCHANGED <<session, subscribed, unacked, delivered>>
  BY DEF MqttInv, HandleSubtopic, brokerVars, NoSend
<1>1. PICK r \in Incoming :
        /\ \/ r.pkt.type = "SUBACK" /\ r.pkt.qos # Refused /\ status' = "RUNNING"
           \/ status' \in {status, "START"}
        /\ NoSend
        /\ Received(r)
  BY DEF HandleSubtopic, Granted
<1>2. /\ frame /\ rx' \in Seq(Pkt)
      /\ Exchange(rx', tx, session, subscribed, unacked, delivered) /\ Phase
      /\ Has(rx', "SUBACK") => Has(rx, "SUBACK")
  BY <1>0, <1>1, ReadStep
<1>3. tx' = tx
  BY <1>1 DEF NoSend
<1>4. CASE status' \in {status, "START"}
  BY <1>0, <1>2, <1>3, <1>4, PhaseKept, FramedNext
<1>5. CASE r.pkt.type = "SUBACK" /\ r.pkt.qos # Refused /\ status' = "RUNNING"
  <2>1. rx # <<>> /\ r.pkt = rx[1] /\ rx' \in {Tail(rx), <<>>}
    BY <1>0, <1>1, <1>2, <1>5, ReadFirst
  <2>2. rx \in Seq(Pkt)
    BY <1>0 DEF TypeInv, Streams
  <2>3. Exchange(rx, tx, session, subscribed, unacked, delivered)
    BY <1>0, <1>2 DEF Framed
  <2>4. 1 \in DOMAIN rx
    BY <2>1, <2>2, TailOf
  <2>5. subscribed
    BY <1>5, <2>1, <2>3, <2>4 DEF Exchange, Answers
  <2>6. ASSUME NEW k \in DOMAIN Tail(rx), Tail(rx)[k].type = "SUBACK" PROVE FALSE
    <3>1. k + 1 \in DOMAIN rx /\ rx[k + 1].type = "SUBACK" /\ k \in Nat \ {0}
      BY <2>1, <2>2, <2>6, TailOf
    <3>2. k + 1 = 1
      BY <1>5, <2>1, <2>3, <2>4, <3>1 DEF Exchange, OneSuback
    <3> QED BY <3>1, <3>2
  <2>7. ~Has(rx', "SUBACK")
    BY <2>1, <2>6, EmptyStream DEF Has
  <2>8. Phase'
    BY <1>0, <1>5, <2>5, <2>7 DEF Phase, Has
  <2> QED BY <1>0, <1>2, <1>3, <2>8, FramedNext
<1> QED BY <1>1, <1>4, <1>5

(* A message is acknowledged after it was given to the handler.            *)
LEMMA PublishFramed ==
    ASSUME MqttInv, HandlePublish, frame'
    PROVE  Framed'
<1>0. /\ TypeInv /\ (frame => Framed) /\ status = "RUNNING" /\ handler
      /\ UNCHANGED <<session, subscribed, unacked>> /\ status' \in {status, "START"}
  BY DEF MqttInv, Opening, HandlePublish, brokerVars
<1>1. PICK r \in Incoming :
        /\ r.pkt.type = "PUBLISH"
        /\ delivered' = delivered \cup (IF handler /\ r.frame THEN {r.pkt.id} \cap Ids ELSE {})
        /\ \/ NoSend
           \/ /\ r.pkt.qos # 0
              /\ \E rc \in SendResults :
                    sendPacket(Ack(IF r.pkt.qos = 1 THEN "PUBACK" ELSE "PUBREC", r.pkt.id), rc)
        /\ Received(r)
  BY DEF HandlePublish
<1>2. /\ frame /\ r.frame /\ rx' \in Seq(Pkt)
      /\ Exchange(rx', tx, session, subscribed, unacked, delivered) /\ Phase
      /\ Has(rx', "SUBACK") => Has(rx, "SUBACK")
  BY <1>0, <1>1, ReadStep
<1>3. delivered' = delivered \cup ({r.pkt.id} \cap Ids)
  BY <1>0, <1>1, <1>2
<1>4. Exchange(rx', tx, session, subscribed, unacked, delivered')
  BY <1>2, <1>3, DeliverMore
<1>5. CASE NoSend
  <2>1. tx' = tx
    BY <1>5 DEF NoSend
  <2> QED BY <1>0, <1>2, <1>4, <2>1, PhaseKept, FramedNext
<1>6. ASSUME r.pkt.qos # 0, NEW rc \in SendResults,
             sendPacket(Ack(IF r.pkt.qos = 1 THEN "PUBACK" ELSE "PUBREC", r.pkt.id), rc)
      PROVE  Framed'
  <2> DEFINE i == r.pkt.id
  <2> DEFINE p == Ack(IF r.pkt.qos = 1 THEN "PUBACK" ELSE "PUBREC", i)
  <2>1. rx # <<>> /\ r.pkt = rx[1] /\ rx' \in {Tail(rx), <<>>} /\ r.pkt \in Pkt
    BY <1>0, <1>1, <1>2, ReadFirst
  <2>2. rx \in Seq(Pkt) /\ tx \in Seq(Pkt)
    BY <1>0 DEF TypeInv, Streams
  <2>3. Exchange(rx, tx, session, subscribed, unacked, delivered)
    BY <1>0, <1>2 DEF Framed
  <2>4. 1 \in DOMAIN rx
    BY <2>1, <2>2, TailOf
  <2>5. i \in Ids
    BY <1>1, <1>6, <2>1, <2>3, <2>4 DEF Exchange, PastDelivery
  <2>6. InAt(rx, subscribed, i, 1)
    BY <1>0, <1>1, <1>2, <2>1 DEF InAt, Live, Phase, Has
  <2>7. /\ i \in unacked
        /\ \A k \in DOMAIN Tail(rx) : ~InAt(Tail(rx), subscribed, i, k)
        /\ \A k \in DOMAIN tx : ~OutAt(tx, i, k)
    BY <2>1, <2>2, <2>3, <2>5, <2>6, ReadPlace
  <2>8. \A k \in DOMAIN rx' : ~InAt(rx', subscribed, i, k)
    BY <2>1, <2>7, EmptyStream
  <2>9. p \in Pkt /\ p.type # "SUBSCRIBE" /\ p.id = i
    BY <2>1, SentPackets DEF Ack
  <2>10. i \in delivered'
    BY <1>3, <2>5
  <2>11. sendPacket(p, rc)
    BY <1>6
  <2> HIDE DEF p, i
  <2>12. /\ Exchange(rx', tx', session, subscribed, unacked, delivered')
         /\ p.type # "SUBSCRIBE" /\ Has(tx', "SUBSCRIBE") => Has(tx, "SUBSCRIBE")
    BY <1>0, <1>2, <1>4, <2>7, <2>8, <2>9, <2>10, <2>11, SendStep
  <2> QED BY <1>0, <1>2, <2>9, <2>12, PhaseKept, FramedNext
<1> QED BY <1>1, <1>5, <1>6

(* PUBREC and PUBREL are answered about the message they name, which was   *)
(* delivered.                                                              *)
LEMMA PubrelFramed ==
    ASSUME MqttInv, HandlePubrecPubrel, frame'
    PROVE  Framed'
<1>0. /\ TypeInv /\ (frame => Framed) /\ status = "RUNNING"
      /\ UNCHANGED <<session, subscribed, unacked, delivered>> /\ status' \in {status, "START"}
  BY DEF MqttInv, HandlePubrecPubrel, brokerVars
<1>1. PICK r \in Incoming, rc \in SendResults :
        /\ r.pkt.type \in {"PUBREC", "PUBREL"}
        /\ sendPacket(Ack(NextOf(r.pkt.type), r.pkt.id), rc)
        /\ Received(r)
  BY DEF HandlePubrecPubrel
<1>2. /\ frame /\ rx' \in Seq(Pkt)
      /\ Exchange(rx', tx, session, subscribed, unacked, delivered) /\ Phase
      /\ Has(rx', "SUBACK") => Has(rx, "SUBACK")
  BY <1>0, <1>1, ReadStep
<1> DEFINE i == r.pkt.id
<1> DEFINE p == Ack(NextOf(r.pkt.type), i)
<1>3. rx # <<>> /\ r.pkt = rx[1] /\ rx' \in {Tail(rx), <<>>} /\ r.pkt \in Pkt
  BY <1>0, <1>1, <1>2, ReadFirst
<1>4. p \in Pkt /\ p.type # "SUBSCRIBE" /\ p.id = i
  BY <1>3, SentPackets DEF Ack, NextOf
<1>5. p.type \in Acks => /\ i \in delivered /\ i \in unacked
                         /\ \A k \in DOMAIN rx' : ~InAt(rx', subscribed, i, k)
                         /\ \A k \in DOMAIN tx : ~OutAt(tx, i, k)
  <2> SUFFICES ASSUME r.pkt.type = "PUBREL"
               PROVE  /\ i \in delivered /\ i \in unacked
                      /\ \A k \in DOMAIN rx' : ~InAt(rx', subscribed, i, k)
                      /\ \A k \in DOMAIN tx : ~OutAt(tx, i, k)
    BY <1>1 DEF Ack, NextOf, Acks
  <2>1. rx \in Seq(Pkt) /\ tx \in Seq(Pkt)
    BY <1>0 DEF TypeInv, Streams
  <2>2. Exchange(rx, tx, session, subscribed, unacked, delivered)
    BY <1>0, <1>2 DEF Framed
  <2>3. 1 \in DOMAIN rx
    BY <1>3, <2>1, TailOf
  <2>4. i \in delivered
    BY <1>3, <2>2, <2>3 DEF Exchange, PastDelivery
  <2>5. i \in Ids
    BY <1>0, <2>4 DEF TypeInv, States
  <2>6. InAt(rx, subscribed, i, 1)
    BY <1>3 DEF InAt
  <2>7. /\ i \in unacked
        /\ \A k \in DOMAIN Tail(rx) : ~InAt(Tail(rx), subscribed, i, k)
        /\ \A k \in DOMAIN tx : ~OutAt(tx, i, k)
    BY <1>3, <2>1, <2>2, <2>5, <2>6, ReadPlace
  <2> QED BY <1>3, <2>4, <2>7, EmptyStream
<1>6. sendPacket(p, rc)
  BY <1>1
<1> HIDE DEF p, i
<1>7. /\ Exchange(rx', tx', session, subscribed, unacked, delivered)
      /\ p.type # "SUBSCRIBE" /\ Has(tx', "SUBSCRIBE") => Has(tx, "SUBSCRIBE")
  BY <1>0, <1>2, <1>4, <1>5, <1>6, SendStep
<1> QED BY <1>0, <1>2, <1>4, <1>7, PhaseKept, FramedNext

(* The broker reads a packet: every case of its answer.                    *)
LEMMA BrokerReceivesFramed ==
    ASSUME MqttInv, BrokerReceives, frame'
    PROVE  Framed'
<1> DEFINE p == tx[1]
<1> DEFINE t == Tail(tx)
<1>1. /\ TypeInv /\ Opening /\ link = "up" /\ tx # <<>> /\ tx' = t /\ frame
      /\ UNCHANGED status
  BY DEF MqttInv, BrokerReceives
<1>2. /\ Exchange(rx, tx, session, subscribed, unacked, delivered) /\ Phase
      /\ rx \in Seq(Pkt) /\ tx \in Seq(Pkt) /\ delivered \subseteq Ids
  BY <1>1 DEF MqttInv, Framed, TypeInv, Streams, States
<1>3. /\ t \in Seq(Pkt) /\ Head(tx) = p /\ p \in Pkt /\ 1 \in DOMAIN tx
      /\ \A k \in DOMAIN t : t[k] = tx[k + 1] /\ k + 1 \in DOMAIN tx /\ k \in Nat \ {0}
  BY <1>1, <1>2, TailOf
<1>4. Exchange(rx, t, session, subscribed, unacked, delivered)
  BY <1>1, <1>2, TakeAny
<1>5. Has(t, "SUBSCRIBE") => Has(tx, "SUBSCRIBE")
  BY <1>3 DEF Has
<1>6. ASSUME NEW a, Answer(a) PROVE rx' = Append(rx, a)
  BY <1>1, <1>6 DEF Answer
<1>7. ASSUME NEW a \in Pkt, rx' = Append(rx, a), a.type # "SUBACK"
      PROVE  Has(rx', "SUBACK") => Has(rx, "SUBACK")
  BY <1>2, <1>7, AppendTo DEF Has
<1> HIDE DEF t, p
<1>8. CASE p.type = "CONNECT"
  <2>1. /\ Answer(Packet("CONNACK")) /\ session' # "none"
        /\ UNCHANGED <<subscribed, unacked, delivered>>
    BY <1>3, <1>8 DEF BrokerReceives
  <2>2. session = "none"
    BY <1>1, <1>3, <1>8 DEF Opening, p
  <2>3. Exchange(rx, t, session', subscribed, unacked, delivered)
    BY <1>4, <2>1, <2>2, AcceptSession
  <2>4. Packet("CONNACK") \in Pkt /\ Packet("CONNACK").type = "CONNACK"
    BY PacketTypes DEF Packet, Types
  <2>5. rx' = Append(rx, Packet("CONNACK"))
    BY <1>6, <2>1
  <2>6. Exchange(rx', t, session', subscribed, unacked, delivered)
    BY <1>2, <1>3, <2>1, <2>3, <2>4, <2>5, AnswerAny
  <2>7. Phase'
    BY <1>1, <1>2, <1>5, <1>7, <2>1, <2>4, <2>5, PhaseKept
  <2> QED BY <1>1, <2>1, <2>6, <2>7, FramedNext
<1>9. CASE p.type = "SUBSCRIBE"
  <2>1. UNCHANGED <<session, unacked, delivered>>
    BY <1>3, <1>9 DEF BrokerReceives
  <2>2. Has(tx, "SUBSCRIBE")
    BY <1>3, <1>9 DEF Has, p
  <2>3. session # "none" /\ ~Has(rx, "SUBACK") /\ ~subscribed
    BY <1>2, <2>2 DEF Exchange, Answers, OneSuback
  <2>4. session = "connected"
    BY <1>1, <2>3 DEF Opening, TypeInv, States
  <2>5. ~Has(t, "SUBSCRIBE")
    <3>1. ASSUME NEW k \in DOMAIN t, t[k].type = "SUBSCRIBE" PROVE FALSE
      <4>1. k + 1 = 1
        BY <1>2, <1>3, <1>9, <3>1 DEF Exchange, OneSuback, p
      <4> QED BY <1>3, <3>1, <4>1
    <3> QED BY <3>1 DEF Has
  <2>6. status \notin {"CONNECT", "RUNNING"}
    BY <1>2, <2>2, <2>3 DEF Phase
  <2>7. Phase'
    BY <1>1, <2>6 DEF Phase
  <2>8. CASE subscribed' = TRUE /\ Answer(Packet("SUBACK"))
    <3> DEFINE a == Packet("SUBACK")
    <3>1. a \in Pkt /\ a.type = "SUBACK"
      BY PacketTypes DEF Packet, Types
    <3>2. rx' = Append(rx, a)
      BY <1>6, <2>8
    <3> HIDE DEF a
    <3>3. subscribed = FALSE /\ subscribed' = TRUE
      BY <1>1, <2>3, <2>8 DEF TypeInv, Flags
    <3>4. rx \in Seq(Pkt) /\ t \in Seq(Pkt)
      BY <1>2, <1>3
    <3>5. Exchange(Append(rx, a), t, session, subscribed', unacked, delivered)
      BY <1>4, <2>3, <2>4, <2>5, <3>1, <3>3, <3>4, GrantSubscription
    <3> QED BY <1>1, <2>1, <2>7, <3>2, <3>5, FramedNext
  <2>9. CASE Answer([Packet("SUBACK") EXCEPT !.qos = Refused]) /\ UNCHANGED subscribed
    <3> DEFINE a == [Packet("SUBACK") EXCEPT !.qos = Refused]
    <3>1. a \in Pkt /\ a.type = "SUBACK" /\ a.qos = Refused
      BY PacketTypes DEF Packet
    <3>2. rx' = Append(rx, a)
      BY <1>6, <2>9
    <3> HIDE DEF a
    <3>3. Exchange(rx', t, session, subscribed, unacked, delivered)
      BY <1>2, <1>3, <1>4, <2>3, <2>5, <3>1, <3>2, AnswerAny
    <3> QED BY <1>1, <2>1, <2>7, <2>9, <3>3, FramedNext
  <2> QED BY <1>3, <1>9, <2>8, <2>9 DEF BrokerReceives
<1>10. CASE p.type \in {"PUBLISH", "PINGREQ", "PUBREL"}
  <2>1. /\ \E a \in {Packet("PUBACK"), Packet("PINGRESP"), Ack("PUBCOMP", p.id)} : Answer(a)
        /\ UNCHANGED <<session, subscribed, unacked, delivered>>
    BY <1>3, <1>10 DEF BrokerReceives
  <2>2. PICK a \in {Packet("PUBACK"), Packet("PINGRESP"), Ack("PUBCOMP", p.id)} : Answer(a)
    BY <2>1
  <2>3. a \in Pkt /\ a.type \in {"PUBACK", "PINGRESP", "PUBCOMP"}
    <3>1. p.id \in Ids \cup {0}
      BY <1>3 DEF Pkt
    <3> QED BY <3>1, PacketTypes DEF Packet, Ack, Types
  <2>4. rx' = Append(rx, a)
    BY <1>6, <2>2
  <2>5. Exchange(rx', t, session, subscribed, unacked, delivered)
    BY <1>2, <1>3, <1>4, <2>3, <2>4, AnswerAny
  <2>6. Phase'
    BY <1>1, <1>2, <1>5, <1>7, <2>1, <2>3, <2>4, PhaseKept
  <2> QED BY <1>1, <2>1, <2>5, <2>6, FramedNext
<1>11. CASE p.type \in Acks
  <2>1. p.id \in delivered /\ p.id \in Ids
    BY <1>2, <1>3, <1>11 DEF Exchange, PastDelivery, p
  <2>2. OutAt(tx, p.id, 1)
    BY <1>11 DEF OutAt, p
  <2>3. /\ p.id \in unacked
        /\ \A k \in DOMAIN t : ~OutAt(t, p.id, k)
        /\ \A k \in DOMAIN rx : ~InAt(rx, subscribed, p.id, k)
    BY <1>1, <1>2, <2>1, <2>2, TakePlace DEF t
  <2>4. CASE p.type = "PUBREC"
    <3>1. /\ Answer(Ack("PUBREL", p.id))
          /\ UNCHANGED <<session, subscribed, unacked, delivered>>
      BY <1>3, <2>4 DEF BrokerReceives
    <3> DEFINE a == Ack("PUBREL", p.id)
    <3>2. a \in Pkt /\ a.type = "PUBREL" /\ a.id = p.id
      BY <2>1, PacketTypes DEF Ack, Types
    <3>3. rx' = Append(rx, a)
      BY <1>6, <3>1
    <3> HIDE DEF a
    <3>4. Exchange(rx', t, session, subscribed, unacked, delivered)
      BY <1>2, <1>3, <1>4, <2>1, <2>3, <3>2, <3>3, AnswerAny
    <3>5. Phase'
      BY <1>1, <1>2, <1>5, <1>7, <3>1, <3>2, <3>3, PhaseKept
    <3> QED BY <1>1, <3>1, <3>4, <3>5, FramedNext
  <2>5. CASE p.type \in {"PUBACK", "PUBCOMP"}
    <3>1. /\ unacked' = unacked \ {p.id} /\ delivered' = delivered \ {p.id}
          /\ UNCHANGED <<rx, session, subscribed>>
      BY <1>3, <2>5 DEF BrokerReceives
    <3>2. Exchange(rx, t, session, subscribed, unacked', delivered')
      BY <1>4, <2>1, <2>3, <3>1, Forget
    <3>3. Phase'
      BY <1>1, <1>2, <1>5, <3>1, PhaseKept
    <3> QED BY <1>1, <3>1, <3>2, <3>3, FramedNext
  <2> QED BY <1>11, <2>4, <2>5 DEF Acks
<1> QED BY <1>3, <1>8, <1>9, <1>10, <1>11 DEF BrokerReceives, Acks

(* The broker publishes an identifier that is in no other packet.          *)
LEMMA BrokerPublishesFramed ==
    ASSUME MqttInv, BrokerPublishes, frame'
    PROVE  Framed'
<1>1. /\ TypeInv /\ frame /\ UNCHANGED <<status, delivered, tx, session, subscribed>>
      /\ tx' = tx /\ subscribed' = subscribed
  BY DEF MqttInv, BrokerPublishes, clientVars
<1>2. /\ Exchange(rx, tx, session, subscribed, unacked, delivered) /\ Phase
      /\ rx \in Seq(Pkt) /\ tx \in Seq(Pkt)
  BY <1>1 DEF MqttInv, Framed, TypeInv, Streams
<1>3. PICK i \in Ids \cup {0}, q \in 0 .. 2 :
        /\ i = 0 <=> q = 0
        /\ i \notin unacked
        /\ Answer(Publish(i, q))
        /\ \/ subscribed /\ unacked' = unacked \cup ({i} \cap Ids)
           \/ ~subscribed /\ UNCHANGED unacked
  BY DEF BrokerPublishes
<1> DEFINE a == Publish(i, q)
<1>4. a \in Pkt /\ a.type = "PUBLISH" /\ a.id = i /\ a.qos = q
  BY PacketTypes DEF Publish
<1>5. rx' = Append(rx, a)
  BY <1>1, <1>3 DEF Answer
<1> HIDE DEF a
<1>6. unacked \subseteq unacked'
  BY <1>3
<1>7. Exchange(rx, tx, session, subscribed, unacked', delivered)
  BY <1>2, <1>6, CountMore
<1>8. i \in Ids => /\ \A k \in DOMAIN rx : ~InAt(rx, subscribed, i, k)
                   /\ \A k \in DOMAIN tx : ~OutAt(tx, i, k)
  BY <1>2, <1>3 DEF Exchange, OnePlace
<1>9. subscribed /\ i \in Ids => i \in unacked'
  BY <1>3
<1>10. q # 0 => i \in Ids
  BY <1>3
<1>11. Exchange(rx', tx, session, subscribed, unacked', delivered)
  BY <1>2, <1>4, <1>5, <1>7, <1>8, <1>9, <1>10, AnswerAny
<1>12. Has(rx', "SUBACK") => Has(rx, "SUBACK")
  BY <1>2, <1>4, <1>5, AppendTo DEF Has
<1>13. Phase'
  BY <1>1, <1>2, <1>12, PhaseKept
<1> QED BY <1>1, <1>11, <1>13, FramedNext

(* Every step that keeps the frame keeps the exchange right.               *)
LEMMA FramedStep == MqttInv /\ [MqttNext]_mqttVars => (frame' => Framed')
<1> SUFFICES ASSUME MqttInv, [MqttNext]_mqttVars, frame' PROVE Framed'
  OBVIOUS
<1> USE DEF clientVars, netVars, brokerVars
<1>0. TypeInv /\ (frame => Framed)
  BY DEF MqttInv
<1>1. ASSUME frame, rx' \in {rx, <<>>}, tx' \in {tx, <<>>}, status' \in {status, "START"},
             UNCHANGED <<session, subscribed, unacked, delivered>>
      PROVE  Framed'
  <2>1. Exchange(rx, tx, session, subscribed, unacked, delivered) /\ Phase
    BY <1>0, <1>1 DEF Framed
  <2>2. Exchange(rx', tx', session, subscribed, unacked, delivered)
    BY <1>1, <2>1, LoseIncoming, LoseOutgoing
  <2>3. Phase'
    BY <1>1, <2>1, PhaseKept, EmptyStream DEF Has
  <2> QED BY <1>1, <2>2, <2>3, FramedNext
<1>2. ASSUME frame, rx' \in {rx, <<>>}, UNCHANGED <<status, brokerVars, delivered>>,
             NEW p \in Pkt, p.type \notin Acks \cup {"SUBSCRIBE"}, NEW rc, sendPacket(p, rc)
      PROVE  Framed'
  <2>1. Exchange(rx, tx, session, subscribed, unacked, delivered) /\ Phase
    BY <1>0, <1>2 DEF Framed
  <2>2. Exchange(rx', tx, session, subscribed, unacked, delivered) /\ rx' \in Seq(Pkt)
    BY <1>0, <1>2, <2>1, LoseIncoming, EmptyStream DEF TypeInv, Streams
  <2>3. /\ Exchange(rx', tx', session, subscribed, unacked, delivered)
        /\ Has(tx', "SUBSCRIBE") => Has(tx, "SUBSCRIBE")
    BY <1>0, <1>2, <2>2, SendStep
  <2>4. Has(rx', "SUBACK") => Has(rx, "SUBACK")
    BY <1>2, EmptyStream DEF Has
  <2>5. Phase'
    BY <1>2, <2>1, <2>3, <2>4, PhaseKept
  <2> QED BY <1>2, <2>3, <2>5, FramedNext
<1>3. /\ Packet("PINGREQ").type \notin Acks \cup {"SUBSCRIBE"} /\ Packet("PINGREQ") \in Pkt
      /\ Publish(0, 1).type \notin Acks \cup {"SUBSCRIBE"} /\ Publish(0, 1) \in Pkt
  BY SentPackets DEF Packet, Publish, Acks
<1>4. CASE NoSocket \/ SelectStale \/ SelectRead \/ SelectExcept
  BY <1>1, <1>4 DEF NoSocket, SelectStale, SelectRead, SelectExcept
<1>5. CASE SelectTimeout
  <2>0. frame /\ UNCHANGED <<brokerVars, delivered>>
    BY <1>5 DEF SelectTimeout
  <2>1. CASE NoSend /\ UNCHANGED <<status, rx>>
    BY <1>1, <2>0, <2>1 DEF NoSend
  <2>2. CASE sendPacket(Publish(0, 1), "ok") /\ UNCHANGED <<status, rx>>
    BY <1>2, <1>3, <2>0, <2>2
  <2>3. CASE FreeRTOS_disconnect /\ status' = "START" /\ rx' = <<>>
    BY <1>1, <2>0, <2>3 DEF FreeRTOS_disconnect
  <2> QED BY <1>5, <2>1, <2>2, <2>3 DEF SelectTimeout
<1>6. CASE StartUnresolved \/ StartRefused \/ StartConnected
  BY <1>6, StartFramed
<1>7. CASE ReadFails
  BY <1>1, <1>7 DEF ReadFails, FreeRTOS_disconnect, AfterFailedRead
<1>8. CASE HandleConnect
  BY <1>8, ConnectFramed
<1>9. CASE HandleSubtopic
  BY <1>9, SubtopicFramed
<1>10. CASE HandlePublish
  BY <1>10, PublishFramed
<1>11. CASE HandlePubrecPubrel
  BY <1>11, PubrelFramed
<1>12. CASE HandleOther
  <2>1. PICK r \in Incoming : NoSend /\ Received(r)
    BY <1>12 DEF HandleOther
  <2>2. UNCHANGED <<status, brokerVars, delivered, tx>>
    BY <1>12, <2>1 DEF HandleOther, NoSend
  <2>3. /\ Exchange(rx', tx, session, subscribed, unacked, delivered) /\ Phase
        /\ Has(rx', "SUBACK") => Has(rx, "SUBACK")
    BY <1>0, <2>1, ReadStep
  <2>4. Phase'
    BY <2>2, <2>3, PhaseKept
  <2> QED BY <2>2, <2>3, <2>4, FramedNext
<1>13. CASE Keepalive
  <2>0. frame /\ UNCHANGED <<status, brokerVars, delivered>> /\ rx' \in {rx, <<>>}
    BY <1>13 DEF Keepalive
  <2>1. CASE NoSend
    BY <1>1, <2>0, <2>1 DEF NoSend
  <2>2. ASSUME NEW rc \in SendResults, sendPacket(Packet("PINGREQ"), rc) PROVE Framed'
    BY <1>2, <1>3, <2>0, <2>2
  <2> QED BY <1>13, <2>1, <2>2 DEF Keepalive
<1>14. CASE CmdTimerExpires \/ PingTimerExpires \/ OtherOpens \/ OtherCloses
  BY <1>1, <1>14 DEF CmdTimerExpires, PingTimerExpires, OtherOpens, OtherCloses
<1>15. CASE LinkLost \/ TcpGivesUp \/ PeerEnds
  BY <1>1, <1>15 DEF LinkLost, TcpGivesUp, PeerEnds
<1>16. CASE BrokerReceives
  BY <1>16, BrokerReceivesFramed
<1>17. CASE BrokerPublishes
  BY <1>17, BrokerPublishesFramed
<1>18. CASE UNCHANGED mqttVars
  BY <1>1, <1>18 DEF mqttVars
<1> QED BY <1>4, <1>5, <1>6, <1>7, <1>8, <1>9, <1>10, <1>11, <1>12, <1>13, <1>14, <1>15,
           <1>16, <1>17, <1>18
        DEF MqttNext, prvMQTTTask, Select, MQTTDataHandle

-----------------------------------------------------------------------------
(* The inductive invariant: the types, how a connection opens and, while   *)
(* the frame is kept, where every exchange between client and broker is.   *)
THEOREM MqttInvariant == MqttSpec => []MqttInv
<1>1. MqttInit => MqttInv
  <2> SUFFICES ASSUME MqttInit PROVE MqttInv
    OBVIOUS
  <2>1. TypeInv /\ rx = <<>> /\ tx = <<>> /\ status = "START" /\ session = "none"
        /\ ~subscribed
    BY MqttTypeInit DEF MqttInit
  <2>2. Opening
    BY <2>1, EmptyStream DEF Opening
  <2>3. Framed
    BY <2>1, EmptyStream DEF Framed, Exchange, Answers, OneSuback, PastDelivery, OnePlace,
                             Phase, Has
  <2> QED BY <2>1, <2>2, <2>3 DEF MqttInv
<1>2. MqttInv /\ [MqttNext]_mqttVars => MqttInv'
  BY MqttTypeStep, OpeningStep, FramedStep DEF MqttInv
<1> QED BY <1>1, <1>2, PTL DEF MqttSpec

(* While the frame is kept the client runs only on a connection that the   *)
(* broker accepted and whose subscription it granted, although             *)
(* MQTTDataHandle ignores the return code of CONNACK and every identifier: *)
(* a refused connection is closed, and there is one SUBACK.                *)
THEOREM RunningSubscribed == MqttSpec => []RunningIsSubscribed
<1>1. MqttInv => RunningIsSubscribed
  BY DEF MqttInv, Framed, Phase, Exchange, Answers, RunningIsSubscribed
<1> QED BY <1>1, MqttInvariant, PTL

(* While the frame is kept the broker is told only of messages that the    *)
(* handler was given (MQTTDataHandle delivers before it acknowledges and   *)
(* PUBCOMP answers the PUBREL of such a message only).                     *)
THEOREM AckedDelivered == MqttSpec => []AckedIsDelivered
<1>1. MqttInv => AckedIsDelivered
  BY DEF MqttInv, Framed, Exchange, PastDelivery, Acks, AckedIsDelivered
<1> QED BY <1>1, MqttInvariant, PTL
=============================================================================
