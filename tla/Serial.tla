------------------------------- MODULE Serial -------------------------------
(***************************************************************************)
(* The serial ports' side of the superloop in web_main.c.  In each round   *)
(* lwIP delivers what came from the network and calls back                 *)
(* (serialserver, serialclient), serialClient() empties the receive rings, *)
(* serialServer() fills the transmit rings, and now and then               *)
(* processSerialClientRemoteData sends what waits for remote hosts.        *)
(*                                                                         *)
(* Data from the network is numbered in the order in which it comes in, at *)
(* whichever port, and data from the serial ports after it.  Where port p  *)
(* sends to is remote[p], set before the start.                            *)
(***************************************************************************)
EXTENDS SerialQueue

CONSTANTS
  MaxRead,         \* what uartTransfer takes at most (COM_DATA_SIZE)
  BufLength,       \* CLIENT_DATA_BUF_LENGTH
  LocalPiece,      \* what transmitLocalSerial passes on at once (2 * TCP_MSS)
  MaxMemory,       \* SERIAL_QUEUE_MAX_MEMORY
  SerialPiece,     \* what getUartRecievedData reads at most
  Blocks,          \* the blocks of lwIP's pool of tcp_pcb (MEMP_NUM_TCP_PCB)
  RemoteTables,    \* bound: the tables of remote hosts that are looked at
  NetPiece,        \* bound: the longest piece from the network
  MaxUnits         \* bound: how much data comes in, from both sides, per table

Hosts == Ports   \* remote hosts, at most one per port
NULL  == NoSerial

\* A port sends nowhere, to the port of this switch that listens on the remote
\* port, or to a host.
RemoteConfigs ==
  [kind : {"none", "udp"}, to : {0}] \union [kind : {"local"}, to : Ports]
    \union [kind : {"tcp"}, to : Hosts]

\* A block of the pool: in use it is a connection to a host, or, never bound,
\* to none.  A free one names no host: memp_free writes over its addresses.
PCB == [to : Hosts \union {NULL}, state : {"free", "CLOSED", "SYN_SENT", "ESTABLISHED", "CLOSE_WAIT"}]
FreePCB == [to |-> NULL, state |-> "free"]

ASSUME SerialAssumption ==
  /\ MaxRead \in Nat \ {0} /\ LocalPiece \in Nat \ {0} /\ SerialPiece \in Nat \ {0}
  /\ BufLength \in Nat /\ BufLength >= SerialPiece
  /\ MaxMemory \in Nat /\ NetPiece \in Nat
  /\ NULL \notin Blocks
  /\ RemoteTables \subseteq [Ports -> RemoteConfigs]
  /\ MaxUnits \in [RemoteTables -> Nat]

VARIABLES
  server_array_queue, serial_server_queue_total,   \* network to serial
  client_array_queue, serial_use_memory,           \* serial to network
  remote,               \* board.serial_remote_host
  isConfigRemoteHost,   \* web_main.c:67
  pcb,                  \* pcb[p]: serial_client.serial_obj[p].pcb, a block or NULL
  tcp_pcb,              \* the blocks of lwIP's pool
  fromNet, fromSerial,  \* how much data has come in
  pc, i                 \* where the superloop is

server == <<server_array_queue, serial_server_queue_total>>
client == <<client_array_queue, serial_use_memory>>
tcp    == <<pcb, tcp_pcb>>
loop   == <<pc, i>>
came   == <<fromNet, fromSerial>>
vars   == <<server, client, remote, isConfigRemoteHost, tcp, came, loop>>

Init ==
  /\ server_array_queue = [s \in Slots |-> EmptySlot]
  /\ client_array_queue = [s \in Slots |-> EmptySlot]
  /\ serial_server_queue_total = [p \in Ports |-> 0]
  /\ serial_use_memory = [p \in Ports |-> 0]
  /\ remote \in RemoteTables
  /\ isConfigRemoteHost = 0
  /\ pcb = [p \in Ports |-> NULL] /\ tcp_pcb = [k \in Blocks |-> FreePCB]
  /\ fromNet = 0 /\ fromSerial = 0
  /\ pc = "network" /\ i = 0

\* The superloop goes on with the next port or slot, and then with ph.
Onward(ph) == IF i < MAX_SERIAL_NUM - 1 THEN pc' = pc /\ i' = i + 1 ELSE pc' = ph /\ i' = 0

\* The n units after the first m.
Units(m, n) == [k \in 1 .. n |-> m + k]

Room(n)        == fromNet + fromSerial + n <= MaxUnits[remote]
NetComes(n)    == Room(n) /\ fromNet' = fromNet + n
SerialComes(n) == Room(n) /\ fromSerial' = fromSerial + n

-----------------------------------------------------------------------------
(* ethernetif_input and tcp_tmr: lwIP and its callbacks *)

addDataToServerQueue(p, pieces) ==
  /\ server_array_queue' = addToQueue(server_array_queue, p, pieces)
  /\ serial_server_queue_total' = [serial_server_queue_total EXCEPT ![p] = @ + Total(pieces)]

\* Data for port p, over TCP or UDP.
serialServerRecv(p) ==
  /\ pc = "network"
  /\ \E n \in 1 .. NetPiece : NetComes(n) /\ addDataToServerQueue(p, <<Units(fromNet, n)>>)
  /\ UNCHANGED <<fromSerial, client, remote, isConfigRemoteHost, tcp, loop>>

readClientQueueToBuf(p) ==
  /\ client_array_queue' = AfterBatch(client_array_queue, p, BufLength)
  /\ serial_use_memory' = [serial_use_memory EXCEPT
        ![p] = Minus(@, TakenOff(client_array_queue, p, BufLength))]

\* The ports whose pointer leads to a block with the addresses of connection k
\* (macthSerialPCB).  A pointer is not reset when lwIP frees the block, which may
\* by now be the connection of another port.
Owners(k) == {p \in Ports : pcb[p] # NULL /\ tcp_pcb[pcb[p]].to = tcp_pcb[k].to}

\* The data sent over a connection is that of the first of its owners.
\* Whether tcp_write takes it or not, it has left the queue.
processSerialClientConnection(k) ==
  IF Owners(k) = {} THEN UNCHANGED client ELSE readClientQueueToBuf(FirstOf(Owners(k)))

Connected(k) ==
  /\ pc = "network" /\ tcp_pcb[k].state = "SYN_SENT"
  /\ tcp_pcb' = [tcp_pcb EXCEPT ![k].state = "ESTABLISHED"]
  /\ processSerialClientConnection(k)
  /\ UNCHANGED <<server, remote, isConfigRemoteHost, pcb, came, loop>>

Active(k) == tcp_pcb[k].state \in {"SYN_SENT", "ESTABLISHED", "CLOSE_WAIT"}

\* Refused, reset, timed out, or the end of a close.  No callback is set for it.
ConnectionGone(k) ==
  /\ pc = "network" /\ Active(k)
  /\ tcp_pcb' = [tcp_pcb EXCEPT ![k] = FreePCB]
  /\ UNCHANGED <<server, client, remote, isConfigRemoteHost, pcb, came, loop>>

\* recvRemotePacket ignores the end of the stream.
RemoteCloses(k) ==
  /\ pc = "network" /\ tcp_pcb[k].state = "ESTABLISHED"
  /\ tcp_pcb' = [tcp_pcb EXCEPT ![k].state = "CLOSE_WAIT"]
  /\ UNCHANGED <<server, client, remote, isConfigRemoteHost, pcb, came, loop>>

NetworkDone ==
  /\ pc = "network" /\ pc' = "client"
  /\ UNCHANGED <<server, client, remote, isConfigRemoteHost, tcp, came, i>>

-----------------------------------------------------------------------------
(* serialClient() *)

\* Mutant of addDataToClientQueue: no limit.
addDataToClientQueueAlways(p, piece) ==
  /\ client_array_queue' = addToQueue(client_array_queue, p, <<piece>>)
  /\ serial_use_memory' = [serial_use_memory EXCEPT ![p] = @ + Len(piece)]

\* Above the limit data is dropped.
addDataToClientQueue(p, piece) ==
  IF serial_use_memory[p] >= MaxMemory THEN UNCHANGED client
  ELSE /\ client_array_queue' = addToQueue(client_array_queue, p, <<piece>>)
       /\ serial_use_memory' = [serial_use_memory EXCEPT ![p] = @ + Len(piece)]

getUartRecievedData ==
  /\ pc = "client" /\ Onward("server")
  /\ \/ UNCHANGED <<client, fromSerial>>
     \/ \E n \in 1 .. SerialPiece :
          SerialComes(n) /\ addDataToClientQueue(i, Units(MaxUnits[remote] + fromSerial, n))
  /\ UNCHANGED <<fromNet, server, remote, isConfigRemoteHost, tcp>>

-----------------------------------------------------------------------------
(* serialServer(): the first part of uartTransfer, for port i *)

serverQueue == Contents(server_array_queue, i)

\* The transmit ring has no room, there is no queue, or getQueueData refuses.
NothingRead == UNCHANGED server

EmptyFound ==
  /\ SlotsOf(server_array_queue, i) # {} /\ serverQueue = <<>>
  /\ server_array_queue' = FreeSlot(server_array_queue, i)
  /\ UNCHANGED serial_server_queue_total

\* Mutant of PieceRead: a piece that just fits is refused.
PieceReadBelow ==
  /\ serverQueue # <<>> /\ Len(Head(serverQueue)) < MaxRead
  /\ server_array_queue' = Withdraw(server_array_queue, i, 1)
  /\ serial_server_queue_total' =
        [serial_server_queue_total EXCEPT ![i] = Minus(@, Len(Head(serverQueue)))]

PieceRead ==
  /\ serverQueue # <<>> /\ Len(Head(serverQueue)) <= MaxRead
  /\ server_array_queue' = Withdraw(server_array_queue, i, 1)
  /\ serial_server_queue_total' =
        [serial_server_queue_total EXCEPT ![i] = Minus(@, Len(Head(serverQueue)))]

uartTransfer ==
  /\ pc = "server" /\ Onward("remote")
  /\ NothingRead \/ EmptyFound \/ PieceRead
  /\ UNCHANGED <<client, remote, isConfigRemoteHost, tcp, came>>

-----------------------------------------------------------------------------
(* processSerialClientRemoteData, one slot of its loop at a time *)

port == client_array_queue[i].serial_no

\* What the entry read past the end of the table may look like.
StrayConfigs ==
  {r \in RemoteConfigs : r.kind # "none"} \union {[kind |-> "local", to |-> NoSerial]}

\* The remote hosts that the search may find for the port.  A flag left at 1
\* makes an entry of one that is not there.
Remotes ==
  IF remote[port].kind # "none" THEN {remote[port]}
  ELSE IF isConfigRemoteHost = 1 THEN StrayConfigs ELSE {}

\* SERIAL_DATA_TIMEOUT has not passed.
RemoteWaits ==
  /\ pc = "remote" /\ i = 0 /\ pc' = "network"
  /\ UNCHANGED <<server, client, remote, isConfigRemoteHost, tcp, came, i>>

HasData == client_array_queue[i].empty_queue = 0 /\ client_array_queue[i].queue # <<>>

\* Mutant of NextSlot: the flag, set where a remote host is found, is not reset.
NextSlotKeeps ==
  /\ Onward("network")
  /\ isConfigRemoteHost' = IF HasData /\ Remotes # {} THEN 1 ELSE isConfigRemoteHost

NextSlot == Onward("network") /\ isConfigRemoteHost' = 0

SlotSkipped == ~HasData /\ NextSlot /\ UNCHANGED <<server, client, tcp>>

removeAllQueueNode ==
  /\ client_array_queue' = [client_array_queue EXCEPT ![i].queue = <<>>]
  /\ serial_use_memory' = [serial_use_memory EXCEPT
        ![port] = Minus(@, Total(client_array_queue[i].queue))]

NotConfigured ==
  /\ HasData /\ Remotes = {}
  /\ removeAllQueueNode
  /\ NextSlot /\ UNCHANGED <<server, tcp>>

\* The data passed on is that of the port that listens, not of the port that
\* has data; if no port listens there, none.
PassOn(p) ==
  \/ p = NoSerial /\ UNCHANGED <<server, client>>
  \/ /\ p \in Ports
     /\ addDataToServerQueue(p, Cut(FlattenSeq(Batch(client_array_queue, p, BufLength)), LocalPiece))
     /\ readClientQueueToBuf(p)

\* The loop is left, with its flag at 1.
transmitLocalSerial ==
  /\ HasData
  /\ \E r \in Remotes : r.kind = "local" /\ PassOn(r.to)
  /\ isConfigRemoteHost' = 1 /\ pc' = "network" /\ i' = 0
  /\ UNCHANGED tcp

processSerialClientUdpConnection ==
  /\ HasData /\ \E r \in Remotes : r.kind = "udp"
  /\ readClientQueueToBuf(port)
  /\ NextSlot /\ UNCHANGED <<server, tcp>>

\* What becomes of a new block for a connection to h, up to where it fails:
\* tcp_bind, after which it is never given back, or tcp_connect, which leaves it
\* bound.
NewPCB(h) == [to : {h}, state : {"CLOSED", "SYN_SENT"}] \union {[to |-> NULL, state |-> "CLOSED"]}

\* tcp_new, if it does not fail, takes a free block or, where others have used
\* them up, that of a connection it aborts.  tcp_bind fails if the local port,
\* which goes with the remote one, is in use.
NewConnection(h, pool, pointer) ==
  \/ tcp_pcb' = pool /\ pcb' = [pcb EXCEPT ![port] = pointer]
  \/ \E k \in Blocks, b \in NewPCB(h) :
       /\ pool[k].state # "CLOSED"
       /\ b.to = h => \A l \in Blocks \ {k} : pool[l].to # h
       /\ tcp_pcb' = [pool EXCEPT ![k] = b]
       /\ pcb' = [pcb EXCEPT ![port] = IF b.state = "SYN_SENT" THEN k ELSE pointer]

\* tcp_close frees a connection that never sent its SYN.  Another waits for its
\* end, with its local port in use.
Closed(k) == IF Active(k) THEN tcp_pcb ELSE [tcp_pcb EXCEPT ![k] = FreePCB]

UseConnection(k) ==
  \/ tcp_pcb[k].state = "SYN_SENT" /\ UNCHANGED <<client, tcp>>
  \/ tcp_pcb[k].state = "ESTABLISHED" /\ processSerialClientConnection(k) /\ UNCHANGED tcp
  \/ /\ tcp_pcb[k].state \in {"CLOSED", "CLOSE_WAIT"}
     /\ NewConnection(tcp_pcb[k].to, Closed(k), NULL)
     /\ UNCHANGED client

\* The connection checkConnectionExist finds, or a new one.
serialClientConnect ==
  /\ HasData
  /\ \E r \in Remotes :
       LET found == {k \in Blocks : tcp_pcb[k].to = r.to}
       IN  /\ r.kind = "tcp"
           /\ \/ \E k \in found : UseConnection(k)
              \/ found = {} /\ NewConnection(r.to, tcp_pcb, pcb[port]) /\ UNCHANGED client
  /\ NextSlot /\ UNCHANGED server

RemoteSlot ==
  /\ pc = "remote"
  /\ \/ SlotSkipped \/ NotConfigured \/ transmitLocalSerial
     \/ processSerialClientUdpConnection \/ serialClientConnect
  /\ UNCHANGED <<remote, came>>

-----------------------------------------------------------------------------
Network ==
  \/ \E p \in Ports : serialServerRecv(p)
  \/ \E k \in Blocks : Connected(k) \/ ConnectionGone(k) \/ RemoteCloses(k)

Superloop == NetworkDone \/ getUartRecievedData \/ uartTransfer \/ RemoteWaits \/ RemoteSlot

Next == Network \/ Superloop

\* The superloop never stops, the rings have room again and again (UartTx),
\* and the time between two passes over the remote hosts passes.
Fairness ==
  /\ WF_vars(Superloop)
  /\ \A p \in Ports : SF_vars(uartTransfer /\ i = p /\ server' # server)
  /\ SF_vars(RemoteSlot /\ i = 0)

Spec == Init /\ [][Next]_vars /\ Fairness

-----------------------------------------------------------------------------
QueuesOK == ArrayOf(server_array_queue) /\ ArrayOf(client_array_queue)

ControlOK ==
  /\ serial_server_queue_total \in [Ports -> Nat] /\ serial_use_memory \in [Ports -> Nat]
  /\ remote \in RemoteTables /\ isConfigRemoteHost \in 0 .. 1
  /\ pcb \in [Ports -> Blocks \union {NULL}] /\ tcp_pcb \in [Blocks -> PCB]
  /\ fromNet \in Nat /\ fromSerial \in Nat
  /\ pc \in {"network", "client", "server", "remote"} /\ i \in Ports

TypeOK == QueuesOK /\ ControlOK

\* The counters agree with the queues, for every port: what the web page shows
\* and what the limit is compared with is what really waits.
AccountsRight ==
  \A p \in Ports :
    /\ serial_server_queue_total[p] = Total(Contents(server_array_queue, p))
    /\ serial_use_memory[p] = Total(Contents(client_array_queue, p))

\* What waits of one port exceeds the limit by less than one piece.
MemoryBounded ==
  \A p \in Ports : Total(Contents(client_array_queue, p)) < MaxMemory + SerialPiece

\* No port ever has two queues, and one without a queue finds a free slot:
\* "no avaliable queue" is never printed and nothing is lost for want of one.
SlotsSuffice == SlotForEach(server_array_queue) /\ SlotForEach(client_array_queue)

\* Whatever the slots, each port has two queues of its own, one for each
\* direction, in which pieces wait in order.
Servers == INSTANCE PortQueues WITH queue <- [p \in Ports |-> Contents(server_array_queue, p)]
Clients == INSTANCE PortQueues WITH queue <- [p \in Ports |-> Contents(client_array_queue, p)]
AreQueues == Servers!Spec /\ Clients!Spec

\* Data from the network reaches the transmit ring, unless a piece longer than
\* MaxRead stands at the head: that queue never moves again.
ServerDrains ==
  \A p \in Ports :
    []<>LET queue == Contents(server_array_queue, p)
        IN  queue = <<>> \/ Len(Head(queue)) > MaxRead

\* The data of a port is dropped or leaves, over TCP if there is a connection to
\* its host to which no other port's pointer leads.  It is not so if any port
\* sends to this switch.
Leaves(p) ==
  /\ \A q \in Ports : remote[q].kind # "local"
  /\ \/ remote[p].kind # "tcp"
     \/ \E k \in Blocks :
          tcp_pcb[k] = [to |-> remote[p].to, state |-> "ESTABLISHED"] /\ Owners(k) \subseteq {p}

\* If that is so and lasts, the queue of the port empties again and again.
ClientDrains ==
  \A p \in Ports : <>[]Leaves(p) => []<>(Contents(client_array_queue, p) = <<>>)
=============================================================================
