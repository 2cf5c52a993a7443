# TLA+ models of the VETH3000 switch firmware

The repository is the firmware of a managed industrial Ethernet switch with
four serial ports: an STM32F4 in front of a Marvell switch chip. One superloop
(`main.c`) polls everything; interrupts only move serial bytes and count time.
This directory specifies its core logic in TLA+, checks it with TLC on small
networks and buffers, and proves part of it with TLAPS for all of them.

    tlc -workers 2 -config RstpLan.cfg MCRstp
    tlapm RstpClockProofs.tla

## 1. Inventory

| Component | State | Operations | Correct if |
|---|---|---|---|
| **RSTP state machines** (`RSTP/src/*.c`) | per bridge a root vector; per port priority vectors, handshake flags, nine timers, nine machines | one `check_conditions` and one `enter_state` per machine | no forwarding loop, no part of the network cut off, one root; a blocked port is shut; old information dies |
| **RSTP engine** (`stpm.c`, `statmch.c`, `port.c`) | list of machines, per-second timers | `STP_stpm_update`, `STP_stpm_one_second`, start | an update always ends, and ends in a settled state |
| **RSTP events** (`stp_in.c`, `veth_RSTP.c`, `ethernetif.c`) | `enabled_ports`, receive ring | link poll, tick, frame | an enabled port is one with a link |
| RSTP management (`stp_in.c`, `rstpt.c`) | configuration | set/get, delete | configuration and machines agree; only start-up calls it |
| **Byte ring** (`FIFO.c`) | buffer, two indices, a flag | write, read, count | a bounded queue |
| **Serial transmit ring** (`uartTransfer`) | one ring per port | fill from the network, take a block or the rest | a bounded queue; a piece is lost whole or not at all, and only if longer than the room asked for |
| **Serial transmit DMA** (`halUartTransmitDma*`) | two buffers and a third, their lengths, end flags | fill, start; completion interrupts | no block lost or overwritten; transfers end; order kept |
| **Serial receive ring** (`uartDmaRcvCpltCallback`, `getUartRecievedData`) | one ring per port | interrupt writes, superloop reads | no byte overwritten or invented |
| **Serial queues** (`SerialQueue.c`, `SerialUtility.c`) | arrays of slots, memory in use | add, get, remove | a queue per port; accounting equals contents; no queue stuck |
| **Serial servers and clients** (`SerialServer*.c`, `SerialClient*.c`, `web_main.c`) | connections, remote hosts | lwIP callbacks, a pass over the slots | data moves on, whatever the other ports do |
| Web sessions, hash table | list and table | create, look up, time out | list and table agree |
| System log | list, memory in use | add, free oldest | within budget |
| NTP, timers, VLAN and MAC lists, multicast | counters, lists | periodic, web requests | lists match the chip |
| Web pages, CGI, drivers, boards | registers, text | | not state logic |

Components in bold are modelled, some of them in part; `PROJECT.json` has all
of them with what is left out and why.

**Interaction.** Each pass of the superloop runs the RSTP protothread of
`veth_RSTP.c`: it polls the links (`timerExpiredOneSecond`), calls
`STP_IN_one_second` if a second has passed, and hands over a BPDU if
`low_level_input` found one. Each of these changes a few fields of a port and
calls `STP_stpm_update`, which runs machines until none can move. RSTP
writes the learning and forwarding state of a port to the chip, sends frames
and flushes the address table. In the serial half lwIP callbacks append to a
queue; `uartTransfer` moves queue data into the transmit ring and from there
into DMA buffers. In the other direction the receive interrupt writes the
receive ring, the superloop reads it into a queue, and
`processSerialClientRemoteData` sends what waits there to a remote host, or to
another port of the switch. Sessions,
log, NTP and VLAN lists are called by the web server and share no state with these.

**Hard behaviours.** Two bridges in mid-handshake while links change; the
order of machines within an update; frames that outlive their link; information
about a root that is gone; the interrupt between two assignments of a ring;
full against empty; a buffer filled while the DMA goes on to it; a slot given
back while data for it comes in; a connection that ends between two passes, and
its memory, to which a port still points, that becomes another one's.
`PROJECT.json`, "hazards", lists each at its line.

## 2. Modules

| Module | Models |
|---|---|
| `RstpVector` | `vector.c`, `times.c`, `pcost.c`: vectors, their order, ageing, costs |
| `RstpState` | `port.h`, `stpm.h`, `statmch.h`, `port.c`: all state, machine order, start-up state |
| `RstpMachines` | every machine: `M_Next` is `STP_M_check_conditions`, `M_Enter` is `STP_M_enter_state` with the functions it calls |
| `Rstp` | `stpm.c`, `stp_in.c`, `veth_RSTP.c`: the engine, the three events, the environment, all properties |
| `MCRstp` | topologies and values for TLC |
| `RstpClock` | `Rstp` with a clock for parts of the network: the seconds since anything from outside could reach them |
| `MCClock` | `RstpClock` with the values of `MCRstp` |
| `Fifo` | `FIFO.c` as operators on a ring, counters unsigned |
| `BoundedQueue` | abstract specification of a byte FIFO |
| `TxFifo` | the transmit ring in `uartTransfer`, refines `BoundedQueue` |
| `RxFifo` | the receive ring with its interrupt |
| `UartTx` | `uartTransfer` and `halUartTransmitDma*` against the DMA and its completion interrupts |
| `SerialQueue` | `SerialQueue.c`, `SerialUtility.c` as operators on an array of slots |
| `Serial` | the queues at work: servers, clients, the pass over the remote hosts |
| `PortQueues` | abstract specification: one queue per port; `Serial` refines it twice |
| `MCSerial` | tables of remote hosts for TLC |
| `RstpTypeProofs` | theorems: the order of vectors, types |
| `RstpSettledProofs` | theorems: what a port may not do within an update, what holds between updates |
| `RstpRootProofs` | theorems: what bridges can be told of a root, and for how long; when open links form no loop |
| `RstpTellProofs` | theorems: what passes for news was said by the neighbour of itself |
| `RstpClockProofs` | theorems: a root that cannot be reached is forgotten, and how soon |
| `TxFifoProofs`, `UartTxProofs`, `SerialProofs` | theorems about the serial ports |

`RstpVector` <- `RstpState` <- `RstpMachines` <- `Rstp` <- `MCRstp`;
`Rstp` <- `RstpClock` <- `MCClock`;
`Fifo` <- `TxFifo` and `RxFifo`; `SerialQueue` <- `Serial` <- `MCSerial`;
`Rstp` <- `RstpTypeProofs` <- `RstpSettledProofs` <- `RstpRootProofs` <- `RstpTellProofs`
<- `RstpClockProofs`.

### RSTP

A field of `PORT_T` or `STPM_T` is a field of a record variable of the same
name, grouped by the machines that write it: `ctl` (role transitions), `sel`
(role selection), `hw` (the chip), `prio`, `rcv`, `tcs`, `timer`, `adapt`, and
`br` for the bridge. `st` holds the state of every machine. `phys` is the set
of ports with a link, `wire[p]` the frames on their way to port `p` (on the cable
or in its receive ring), `enabled_ports` the bitmap of the poll.

* `MachineStep` is one hop of one machine. `Chosen` is the engine's choice:
  `STP_change_state` stays with a machine while its condition holds, else the
  first machine of the list moves. What holds inside an update can therefore be
  told from what holds between updates (`Idle`). Bridges share nothing but the
  cables, so their updates run one after the other; their events interleave freely.
* `PollLink`, `Tick`, `RxBpdu` are the events. The guards `Unpolled(..) = {}` are
  the order of a pass: links before the tick and before a frame.
* `LinkChange` pulls or plugs a cable at any moment between updates. Of the frames
  under way any prefix survives: those already in the receive ring.
* `ForeignFrame` is a neighbour that is not modelled.

Abstractions: a bridge identifier is a number, the smaller the better; frames
are records; path costs are numbers, those of the ports from `pcost.c`; one VLAN, as the firmware
creates; configuration does not change after start, `mcheck` is never set.
A second passes for all bridges in turn, and a frame arrives before the next
second. The chip obeys at once. The address table is left out. `CostLess` compares
two costs by the sign of a difference kept in an int, as `vector.c:72` does: it is an
order only for costs less than 2^31 apart. `CostAssumption` keeps what devices
outside the model may announce within a cost of 10^9 and a `MaxAge` of 40, which the
code does not check; that elections then stay in order is a theorem (section 5).

`RstpClock` adds what no field of the code holds: for each set of bridges in
`Part`, how long it has been cut off. `Reached` is true while a link leads out of
the set, or a frame from a device that is not modelled is in. `Count` counts a
second each time every bridge has had its tick, and starts again when the set
is reached. The clock only looks on: each step of `ClockNext` is one of `Next`.

### Rings

`Fifo` gives each function as an operator with both counters unsigned (modulo
`Modulus`, standing for 2^32). In `TxFifo` both ends run in the superloop, so a
call is a step. `uartTransfer` asks for room for `NodeMax` bytes and takes a piece
of at most `MaxPiece`, which may be longer: with room for the one but not the
other the piece, already off its queue and freed, is refused (`Refuse`), and
counted in `test_fifo_full`. In `RxFifo` the interrupt is one step
and the reader is cut at each access to what the interrupt writes.

### Transmit DMA

`UartTx` starts where `TxFifo` ends: the ring is the interval `taken + 1 .. put`
of numbered data, a buffer the set of numbers in it. Variables keep the names of
the fields of `huart` and `comDmaStatus`; `EN`, `DBM` and `CT` are the bits of
the stream's control register. A call of `uartTransfer` is cut wherever it reads
or writes what an interrupt writes: `Check` (is there a block, or a rest
old enough), `ReadTarget` (`CT` into `ct`), `ReadBusy` or `StartM0`/`StartM1`
(`State`), `ReadLength`, and `Copy1`/`Set1` or `Copy0`/`Set0` (the copy into the
buffer and the assignment of its length, between which line 760 can be
interrupted). Starting a transfer is one step, since no interrupt comes while the
DMA is off. The three callbacks are the interrupts; in double buffer mode the
DMA has gone on to the other buffer by itself when one runs. `Timeout` is
`LITTLE_DATA_TIMEOUT` passing for a rest shorter than a block.

### Serial queues, servers and clients

`SerialQueue` keeps the arrays as they are: slots with `empty_queue`,
`serial_no` and a queue. `addToQueue` looks for the port's own slot and then for
a free one. `FreeSlot` happens only when a queue already empty is asked for
data. `AfterBatch` is the array after `readClientQueueToBuf`, which calls `getClientSerialData` until
the buffer is full, a piece does not fit or the queue is empty; `TakenOff` is what these
calls take off the counter. A call whose piece does not fit takes off whatever
`data_length` holds (`DataLengthLeft`), so the reset in the loop matters.

`Serial` walks through the superloop with `pc` and `i`:

* `"network"`: lwIP calls back any number of times. `serialServerRecv` appends
  to the server queue; `Connected`, `ConnectionGone` and `RemoteCloses` are what
  can happen to a client's connection. `tcp_pcb` is lwIP's pool of connections, block
  by block, and `pcb[p]` the block that `serial_obj[p].pcb` points to. `ConnectionGone`
  frees the block and leaves the pointer (no error callback is set); a later
  `NewConnection`, of any port, may take that block. `Owners` compares through the
  pointers as `macthSerialPCB` does, so the data sent over a connection is that of
  the first port whose pointer, its own or a stale one, leads to it.
* `"client"`: `getUartRecievedData` of each port appends to the client queue,
  unless the memory limit is reached.
* `"server"`: the first part of `uartTransfer` of each port takes one piece. The
  transmit ring is a choice here: it may have room or not.
* `"remote"`: one `RemoteSlot` per slot of the client array, or none if the time
  has not come. Its disjuncts are the branches of
  `processSerialClientRemoteData`: slot empty, no remote host (data dropped),
  this switch itself, UDP, TCP. `transmitLocalSerial` leaves the loop.

Abstractions: a piece is a sequence of numbered units; a table of remote hosts
has one entry per port, taken at the index of the port; configuration does not
change. An entry read past the end of the table is any entry at all.
Whether `tcp_write` takes the data makes no difference to the queues. A connection
is known by its remote host, with which its local port goes. Of lwIP there is what
the client sees: a block is free, connecting, established, closed by the other end,
or was taken and not connected (`"CLOSED"`), bound (it has a host) or not; which
free block `tcp_new` takes, or which connection it aborts to get one, is a choice.

## 3. Runs

| Run | Instance | Checks |
|---|---|---|
| `rstp_lan` | 2 bridges, 2 parallel cables, one port outside the protocol, 1 link change; 335,000 states | `TypeOK`, `ChipFollowsRole`, `NoLoop`, `RootsAreReal`, `ToldByNeighbour` |
| `rstp_ring` | 3 bridges in a ring, start-up; 178,000 states | `NoLoop`, `BestRootWins` |
| `rstp_mixed` | 2 bridges, 2 parallel cables, bridge 2 held to STP, one cable in at the start; 137,000 states | `OpenLinksHeard`, `UpdateEnds`, `Converges`, `BestRootWins` |
| `rstp_frames` | 1 bridge with 3 ports, two of them cabled to each other, any two of 4 foreign frames or link changes, with a clock on the bridge; 840,000 states | `BlockedStaysShut`, `RolesSettled`, `OneRootPort`, `NoStaleInfo`, `TcOnlyWhenActive`, `NewsDiesOut`, `DeadRootsForgotten` |
| `tx_fifo` | ring of 5, room asked for 3, pieces to 4, blocks of 2, bytes {0, 1}; 2,880 states | `TypeOK`, `FlagTells`, `CountsAddUp`, `PiecesStayWhole`, refinement `IsQueue` |
| `uart_tx` | blocks of 3, pieces to 4, 16 units of data, 2 interrupts during a call; 48,000 states | `TypeOK`, `NothingLost`, `FlagsTellTruth`, `NoTornBlock`, `BusyEnds`, `RingDrains` |
| `serial` | 2 ports, 2 slots, 2 blocks for connections, 6 tables of remote hosts, 2 to 4 units in pieces to 2; 279,000 states | `TypeOK`, `AccountsRight`, `MemoryBounded`, `SlotsSuffice`, refinement `AreQueues`, `ServerDrains`, `ClientDrains` |
| `rstp_stale_frame`, `rstp_tc_flag`, `rstp_agreement`, `rx_fifo`, `uart_tx_order` | | the findings below |

**What the properties say.** `NoLoop` holds at every step, also within
updates: no set of links that carry traffic at both ends closes a cycle.
`BlockedStaysShut`: once role transitions has blocked a port, nothing tells it
to learn or forward. `ChipFollowsRole`, `RolesSettled`, `OneRootPort`,
`NoStaleInfo` and `TcOnlyWhenActive` hold between updates: the chip matches the
role, roles match the selection, the root port is the one the root came from,
received information has time left, a topology change is told only by ports that
carry traffic. `RootsAreReal` holds at every step: whatever frames are late,
lost or left over, the root a bridge takes is a bridge there is, no worse than
itself and no nearer, in path cost and in message age, than the cables lead (for
every function of the bridges that bounds the distance from below); and the
bridges that are their own root are those without a root port.
`ToldByNeighbour` holds at every step too: on a link between two ports of the
network, whatever a port can take for news is signed by the port at the other
end. No bridge passes its neighbour's news on as its own, although `txRstp`
sends in the selected role what the port has kept and asks of neither whether it is
up to date. `NewsDiesOut`:
between updates, what a port was told is kept for three hello times at most and
not past its MaxAge. `DeadRootsForgotten`: between updates, a part of the network
that has been cut off for longer than `(LongestAge - 1) * Hop` seconds has given
up every root outside it. Bridges can tell each other of a dead root in a circle,
each taking it for fresh; the message age is all that ends this. `OpenLinksHeard`: between updates, a link is open only while
one of its ends relies on news that the other end would still send. A bridge
whose root got worse breaks that until its frame has arrived, so in larger
networks it can fail while a root is being lost; with two bridges the root
never gets worse. It is what `NoLoop` between updates rests on (section 5).
`UpdateEnds`: every update returns. `Converges`: in the end
every pair of connected bridges is joined by open links. `BestRootWins`: in the
end connected bridges name the best among them as root.

`PiecesStayWhole`: a piece of at most `NodeMax` bytes that `uartTransfer` has taken
off its queue is never lost; a longer one is stored, or lost as a whole without a
trace in the ring. `NothingLost`: what has left the ring is on the line or held in a buffer whose
length says so. `NoTornBlock`: no copy into the buffer that is being sent.
`FlagsTellTruth`: the busy state and the finish flags say what the DMA does.
`BusyEnds` and `RingDrains`: transfers end, and the rest shorter than a block
goes out too. `AccountsRight`: the counters are the
data that waits. `MemoryBounded`: the limit is exceeded by less than a piece.
`SlotsSuffice`: no port has two slots, and one without finds a free one.
`AreQueues`: whatever the slots, each port has one queue in each direction.
`ServerDrains`: data from the network reaches the ring unless a piece too long
for it stands at the head. `ClientDrains`: a port's data leaves, or is dropped
for want of a remote host, if its connection lasts, no other port's pointer leads to
that connection and no port sends to the switch itself; section 4 says what happens otherwise.

**Bounds.** `MaxDisturb` bounds link changes and foreign frames in a behaviour;
time is not bounded (timers count down and stop), so runs go on for ever
and liveness is meaningful. Two parallel cables are the smallest network with a
loop and give ports that tie in all but their number; a ring of three has a loop through a bridge
that is neither root nor next to all; the self-cabled bridge gives backup ports
and frames from itself. Port times are the smallest `_check_stpm_config` accepts
(hello 1, age 6, delay 4); hello < delay < age < twice the delay, as with the
defaults 2, 15 and 20.
The Config frame from outside has age 4, so that its two remaining seconds cut
the three hello times short.
In `rstp_frames`, `LongestHello` and `LongestAge` are those of the bridges, 1 and 6;
they stand for the 10 and 40 of `_check_stpm_config`. `Hop` is then 4 seconds, and
`Horizon`, where that clock stops, is one past 5 * 4. A root named from outside goes
round by the cable between the two ports and is seen to live longer than 4 seconds
(never longer than 6) after its last frame, while a port keeps news for 3. (With an
`AgeOneHop` that adds nothing when the sixteenth rounds to 0 TLC finds it outlive the
bound, and with a bridge that does not look for its root anew when news dies, the mutant.)
One link change reaches an arbitrary moment of start-up or of a settled network.
In the rings, 5 places with pieces of 1 to 3, or 4, let both indices wrap at every
distance from each other; two byte values show a byte repeated or swapped. A
piece of 4 meets room for 3 in `tx_fifo` and is refused; `MaxRefused` ends the
counting of these at 2.

In `uart_tx` 16 units make five blocks and a rest, enough to fill each
buffer twice, stop in either, and go from double to single transfer and back.
`MaxIrqs` is 2: a call takes far less time than a block on the line, so two
completions in one call are already more than the hardware gives. In `serial`
two ports make every conflict over slots; pieces of 2 are
too long for the ring (`MaxRead` 1) and fill the buffer (`BufLength` 2); the
limit is reached with 2 units. The tables (`MCTables`) have each kind of
destination, two TCP ports with hosts of their own and with one host, and ports that send to
each other. Two blocks are enough for one port's connection to end and
the other's to take its block, for a leak, and for a pool used up. `MCUnits` allows 4 units
where no port uses TCP, 3 where ports do, and 2 where two of them share a host.

**Fairness.** The superloop never stops: `Fairness` is
`[]<><<disturbed' = disturbed>>_vars`. A step of the system is always possible,
so this is weak fairness of `System`. No link change or foreign frame is ever
owed. Ticks need no fairness of their own, since between two seconds only a
bounded number of frames, polls and hops can happen. Only `rstp_mixed` and
`rstp_ring` check RSTP's liveness.

`UartTx`: weak fairness of the superloop, of the interrupts (a transfer started
ends, at the speed of the line) and of the time-out (the clock runs).
`Serial`: weak fairness of the superloop; strong fairness of
`uartTransfer` moving data of port `p`, since the pass comes round to `p` again
and again and finds room again and again (that is what `BusyEnds` and
`RingDrains` say of the ring below); strong fairness of a pass over
the remote hosts, since `SERIAL_DATA_TIMEOUT` is measured against a clock
that runs. Nothing is assumed of the network: `Leaves` names the connection
`ClientDrains` needs.

**Mutants.** `PROJECT.json` names for each property of a passing run a changed
definition, next to the original in the module and marked "Mutant of", under
which TLC finds the property violated. Examples: the
comparison that makes a port designated reversed, the ring's flag not cleared on
wrap-around, information of a port considered though it has died.

## 4. Findings

* **A dead port is enabled** (`EnabledFollowsLink`). `stp_in.c:692` enables the
  port a frame came from and says the link indication comes later. If the frame waited
  while the link went down, the indication has been and gone, and the poll
  compares the link with `enabled_ports` only. The port stays enabled.
* **Every BPDU is a topology change** (`NotifiedByFlag`). `setTcFlags`
  (`portinfo.c:148-184`) sets `rcvdTc` whatever the flag says, so
  the switch notifies and flushes all the time.
* **Agreements of any role** (`ConfirmedByRoot`). `portinfo.c:114` compares the
  root role with the type of the BPDU, which is 2 in every RSTP BPDU. On a bridge
  cabled to itself an agreement is taken from a port in another role, and
  the cable then forwards at both ends: `NoLoop` does not hold on that instance,
  which is why `rstp_frames`, with the same cable, does not list it.
* **The receive ring loses its flag** (`NoOverrun`). `ReadFIFO` resets the index
  and then the flag with interrupt masking commented out (`FIFO.c:130-133`).

* **A block overtaken** (`SentInOrder`). `halUartTransmitDma` fills the second
  buffer and then sets `mem1_length` (`veth_serial.c:760`). If the transfer
  under way ends in between, its callback finds nothing to go on with and stops
  the DMA. The block waits in the buffer for another whole block, and a rest
  sent by `halUartTransmitDmaLittle` overtakes it. Nothing is lost (`NothingLost`),
  but the built-in test of the serial lines would count errors.

Met while modelling, in the code of the models but with no statement of the
repository that a run could refute:

* A block can go out twice. A call that has read `CT` as 0 (`veth_serial.c:682`)
  just before the transfer from the first buffer ends and stops fills that buffer
  again and starts the DMA with `CT` already at 1 (only the branch at line 841
  clears it), so the old block in the second buffer is sent again first.
* `double_finish_targ` starts at 0, so a rest shorter than a block is not sent
  before a first whole block has been (`veth_serial.c:281`). `RingDrains` is
  about the time after.
* `uartTransfer` asks for room for 2920 bytes (`veth_serial.c:219`), takes a piece of
  up to 3072 (line 222), frees it (236) and only then finds that the ring refuses it
  (240-245). `transmitLocalSerial` queues pieces of `2 * TCP_MSS`, 2952 bytes
  (`SerialUtility.c:716-720`; its header says this is the most the network delivers at
  once), and UDP datagrams may be as long: with 2920 to 2951 bytes of room they
  are lost. They also run over the end of `tem_buffer[2920]` (lines 202 and
  234), which the model does not represent. `PiecesStayWhole` says what is left of the promise.
* `macthSerialPCB` compares through pointers that are never cleared. When port 0's
  connection is reset lwIP frees its block, and the next `tcp_new` hands out the same
  one. If that is for port 1, both pointers lead to port 1's connection and port
  0 is found first: its data goes to port 1's host, and port 1's queue is not read
  as long as the connection lasts. This is the exception in `Leaves`; without
  its last conjunct TLC finds `ClientDrains` violated.
* A UDP datagram longer than `COM_DATA_SIZE` is refused by `getQueueData`
  (`SerialQueue.c:57`) for ever and stays at the head of its queue.
* `transmitLocalSerial` reads the queue of the port that listens instead of the
  port that has data (`SerialUtility.c:711`), so that data never moves; the
  `return` after it (`web_main.c:103`) then keeps later slots from being served,
  and leaves `isConfigRemoteHost` at 1, with which the next pass uses the entry
  after the last of the table for a port without one.
* Two ports with the same remote host share a connection, over which only the
  data of the first is sent (`macthSerialPCB`).
* Data taken off the queue is lost if `tcp_write` has no room
  (`SerialClient.c:99`); `is_send_over` and `ackownaged_length` are never read.
* After a remote close each pass allocates a control block, fails to bind it and
  never gives it back (`SerialClient.c:269-279`). When the pool is used up `tcp_new`
  aborts another connection. The model has both (`NewConnection`).
* A listening port changed while a connection is open leaves the connection
  without a serial port, and its data goes to index `MAX_SERIAL_NUM`
  (`SerialServer.c:86`).

## 5. Proofs

Constants are arbitrary under the named assumptions of the modules
(`PortAssumption`, `BridgeAssumption`, `TimesAssumption`, `PeerAssumption`, `EnvironmentAssumption`, `CostAssumption`,
`LengthAssumption`, `PieceAssumption`, `UartAssumption`, `QueueAssumption`,
`SerialAssumption`, `ClockAssumption`); TLC evaluates them on the instances. `BridgeAssumption` says
that there are finitely many bridges.

* `RstpTypeProofs!TypeCorrect`: `Spec => []TypeOK` for any number of bridges,
  ports and cables. One lemma per machine state, engine step and event. `TypeOK`
  is inductive: the only field whose range depends on more than its own
  assignments is `txCount`, which `TransmitNext` keeps at most `TxHoldCount`.
* `RstpSettledProofs!BlockedPortsStayShut`: `Spec => []BlockedStaysShut`. The inductive
  invariant is `TypeOK /\ BlockedStaysShut`: `BLOCK_PORT` clears `learn` and
  `forward`; `BLOCKED_PORT` and `BACKUP_PORT` leave them alone and are entered
  from a blocked state only (`BlockedFromBlocked`); the states that set the flags
  are not blocked; and no other machine writes role or flags (`DutyKept`), except
  role selection, which takes the port out of the protocol.
* `RstpTypeProofs!VecLessTotal`, `VectorLeast`: of two different vectors one
  is better, and every non-empty set of vectors whose costs an int can hold (`Near`)
  has a best one (irreflexivity and, for such vectors, transitivity are lemmas
  beside it). Without `Near` the code's comparison is no order: of costs more than
  2^31 apart the larger is better, and three vectors may beat each other in a circle.
* `RstpRootProofs!CostsCompare`: in every network under `CostAssumption` the root
  vector of every bridge and every path a bridge elects from are `Near`, so that
  elections are among vectors in order (`ElectedBest`). A path gains at most
  `MaxCableCost` for every second of message age (`MayClaim`), and age is bounded:
  what was told too late (`TooOld`) is aged by the port information machine before
  another machine can use it (`AgedAtOnce`, `AgingFirst`).
* `TxFifoProofs`: `TypeCorrect`, `FlagRight`, `PiecesWhole`, `CountsRight` and
  `RingIsQueue`. The inductive invariant is
  `TypeOK /\ FlagTells`: with the flag on the right side, the
  counters are lengths, so what `WriteFIFO` accepts never crosses the read
  index. A piece not stored leaves the ring as it was, and one of `NodeMax` bytes
  always fits. The refinement mapping is `Contents`, the bytes from the read index on;
  the lemmas say how a write extends and a read shortens it.

* `RstpSettledProofs`: `ChipRightlySet`, `RolesAreSettled`, `RootPortIsOne`,
  `InformationIsFresh`, `TcToldByActivePorts`, for any network. These hold only
  between updates and are far from inductive. The invariant `SettledInv` adds
  two parts to types and `BlockedStaysShut`. `Quiescent`: a bridge that is not
  updating has no machine that can move. It is preserved because an event puts
  its bridge into an update, an update ends only when nothing can move, and the
  machines of a bridge read nothing that another bridge writes
  (`NextLooksHome`, `EventStaysHome`). `PortRight`: at every step, the state a
  machine is in agrees with the data it has written, or a named flag says that
  it has yet to act (for each of the chip, the role, the selection, received
  information and topology change). One group of lemmas says which machines write
  which fields. Between updates nothing is yet to act, and what is left
  is the five properties.
* `RstpRootProofs!RootIsReal`: `Spec => []RootsAreReal`, for any network. The
  invariant `RootInv` follows a claim about a root on its way, besides the times of
  what is kept (`TimeInv`). What a bridge
  holds (`Held`) is bounded below by every distance function; sent over a cable
  it may be heard at both ends (`OnLink`), since the function grows by at most
  the length of the cable; role selection adds the cost of the port and a second
  of age and makes it a claim of the receiving bridge (`Arrives`,
  `CandidateTold`). So every vector on the wire, in the last frame of a port and
  in `portPrio` is `OnLink`, however late it is. Two facts make this inductive. A
  port that never had a vector (`Fresh`, all zeros, which would be the best of all)
  neither sends nor elects; and the cost added is that of the cable, because a port is
  enabled by its edge machine, which the machine list puts behind the path cost
  machine (`CostSet`, `EdgeBeginsLate`). `BestStaysRoot` follows: the best bridge
  never has a root port. `NewsIsMortal` (`Spec => []NewsDiesOut`) rests on
  `KeptInTime` (in `TimeInv`), the timer never exceeds the lifetime of what is kept, and on
  `InformationIsFresh`, by which it is not 0.
* `RstpRootProofs!HeardLinksMakeNoLoop`:
  `Spec => [](Idle /\ OpenLinksHeard => NoLoop)`, for any network. The
  invariant `LoopInv` adds to `RootInv` that a decision of role selection stands
  until it is asked again (`StandsRight`): what a port advertises is its bridge's
  root vector, a port that relies on its neighbour is not designated, and the root
  vector is what the root port was told, a cable further. So an open port with
  news that still holds is the root port of a bridge further from the root than
  its neighbour (`HeardIsRootPort`); there is a furthest bridge among those of a
  loop (`FurthestBridge`, where finiteness is used), and both its ports in the loop
  would be its one root port. The theorem is conditional on purpose: `NoLoop`
  alone fails on the bridge cabled to itself, whose open cable `OpenLinksHeard`
  rules out.
* `RstpTellProofs!NewsIsSigned`: `Spec => []ToldByNeighbour`, for any network. The
  invariant `TellInv` is about the order in which one update runs its machines,
  which is where the property comes from: nothing in `transmit.c` asks for it.
  A machine chosen is the first of the list that can move (`ChosenFirst`), and
  the machine of the bridge stands before those of its ports, as the transmit machine
  of a port does before its port information machine (`ListOrder`). So a port has
  nothing left to send when its information changes (`SentFirst`, `ReadInSilence`,
  `Unread`), and takes a role only if it is the one selected last
  (`SelectedFirst`, `RootIsBest`). Hence a port that relies on its neighbour and
  has something to send is its bridge's root port (`TellsRoot`), whose frames carry
  the root role; a port in the designated role keeps its own vector
  (`SelfNamed`) and its frames name it (`WireSigned`). What is received is then signed
  by the sender (`NewsSigned`), also if the link went down and up in between.
* `RstpClockProofs!DeadRootsDie`: `ClockSpec => []DeadRootsForgotten`, for any
  network and any parts of it, with bridges cabled to themselves and whatever is
  lost, late or pulled meanwhile. News of age `n` is at most `n * Hop` seconds old
  (`Life`) wherever it is, where a second more or less depends on who had the tick:
  in the bridge that elected it (`BridgeMortal`), in a
  port that tells of it (`MineMortal`), in a frame on the wire (`WireMortal`) or read
  (`MsgMortal`), and in a port that relies on it, for as much longer as its timer has run
  (`KeptMortal`). Each bridge adds at least one to the age (`AgeOneHop`), each
  port keeps it for less than a `Hop` (`KeptInTime`, `LifetimeInHop`) and none
  keeps it at its maximum age (`LifetimeBounds`), so the bound does not depend on the
  number of bridges. `NewsInv` carries what this needs of the code: the times of
  a decision belong to its vector (`TimesStand`), a repeated frame says what the
  port has (`RepeatRight`), no time beyond the limits is in use
  (`PortInLimits`). `ClockAssumption` asks the limits of frames from outside as
  well; the code checks them for its own configuration only.
* `UartTxProofs`: `TypeCorrect`, `NoDataLost`, `FlagsRight`, `BufferLeftAlone`, for
  every block size and number of interrupts during a call. The invariant says for
  each place in the call what an interrupt since the last read can have
  changed: a block is still there to take (`BlockReady`), only an empty buffer
  is filled (`EmptyIsFilled`), and if the DMA has moved from the target that was
  read, it has moved to a buffer that holds a block (`TargetMoved`).
* `SerialProofs`: `TypeCorrect`, `SlotsNeverRunOut`, `CountersAgree`,
  `MemoryStaysBounded`, `ArraysAreQueues`, for any number of ports and slots and
  any table of remote hosts. The four invariants are inductive together
  (`IInv`). The first half of the module has the lemmas: what each operation does to one
  port's queue and that it leaves the others alone (`Changes`), that totals add up
  (`TotalOfConcat`), and that with as many slots as ports a port without one
  finds one free (`Pigeonhole`).

Only model-checked: liveness, which TLAPS cannot reach; `NoLoop` without its
condition and in the middle of an update, which does not hold for every topology
(section 4: a cable from a bridge to itself) and depends on the handshake and the
forward delays while news is under way; and `OpenLinksHeard`, which holds on the
checked instances and not in every network.

## 6. Not modelled

* The address table and its flush: it is in the switch chip, which the repository
  does not contain. Frame decoding, statistics, RSTP management at run time (no
  caller), stopping and deleting bridges (no caller).
* A neighbour that announces a hello time of zero is excluded by
  `EnvironmentAssumption`: the update would not end (`transmit.c:351`).
* Devices outside the model that announce a path cost above 10^9 or a `MaxAge`
  above 40 are excluded by `CostAssumption`: `vector.c:72` may then compare the wrong way
  round (`CostLess`, `VecLess` do so too), and what is proved of roots does not hold.
* The direction pins of RS-485, error interrupts of the DMA, `BUSY_RX`, which
  nothing sets. Memory beyond a buffer (`tem_buffer` above), a failing `malloc`, and
  of lwIP all but the life of the clients' control blocks.
* Changes of the serial configuration while the system runs.
* Sessions and their hash table, the system log, the NTP client, the lists of
  VLANs and multicast groups: each is used by one call at a time, with no
  actor beside it. Web pages and CGI, drivers and board services keep no state
  but registers and text.
* Vendored code and data: the HAL, lwIP, FatFs with its code pages, cJSON and the
  pages of the web server are most of the repository's lines, and none of its
  own logic.

## 7. What would come next

1. `NoLoop` for every topology without a cable from a bridge to itself, also
   while `OpenLinksHeard` fails: it needs the invariant of the proposal handshake,
   across two bridges and the frames between them, and an argument about time for
   ports that open by forward delay.
2. One model of a port from the network to the line, with `Serial`, `TxFifo` and
   `UartTx` composed; today each assumes of the next what that one's
   properties say.
3. Refinement of a block sender by `UartTx`, once blocks keep their order.
4. Session list and hash table, with memory that can be used after it is freed.
