# A TLA+ development of RootlessRelay

RootlessRelay gives virtual machines a network without privileges: each VM sends
Ethernet frames over a WebSocket, and the relay plays the rest of the network. It
answers ARP and DHCP, terminates the VM's TCP connections and replays them on real
sockets, maps UDP packets to real sockets, and opens connections *to* VMs for
port-forwarding rules and an HTTP proxy. It is a single Node.js process: `relay.js`
and six helper modules. Nothing is persisted, and nothing runs in parallel; what
makes it hard is that some ten kinds of callbacks (frames, socket events, timers,
`setImmediate`, send completions) interleave on shared connection objects, and that
the relay implements both halves of TCP itself.

This directory holds TLA+ modules of its core, TLC configurations that check them on
small instances, and proofs that TLAPS checks for every value of the constants.

## 1. Inventory

| Component | State | Operations | Interacts with |
| --- | --- | --- | --- |
| **Retransmission queue** `tcp_retransmission.js` | segments, `sndUna`, `sndNxt`, RTO, retry counter, timer and its generation, persist mode | `track`, `acknowledge`, `fastRetransmit`, `setPersist`, timer callback, `close` | calls back `onRetransmit`, `onPersistProbe`, `onExhausted` of its connection |
| **Data to the VM** `relay.js` 435-574, 641-814, 1760-1903 | send queue, `relaySeq`, windows, congestion state, `pendingFin`/`finSent`, `sending`, the waiters of the websocket | `enqueueTCPData`, `trySendToVM`, `trySendReverseToVM`, `drainTCPToVM`, `maybeSend…Fin`, `updateTCPWindow`, congestion functions, finish and abort | retransmission queue, pacer, rate limiter, websocket, source socket |
| **Data from the VM** `relay.js` 576-639, 1098-1182, 1629-1711, `tcp_utils.js` 18-65 | `vmSeq`, out-of-order ranges, delayed-ACK counter and timer, backpressure flag | the payload and FIN part of `handleTCP`/`handleReverseTCP`, `bufferTCPOutOfOrder`, `drainTCPOutOfOrder`, `scheduleTCPAck`, `onTCPReceiveDrain` | sink socket or PassThrough |
| **Sessions and addresses** `relay.js` 238-273, 1184-1240, 2280-2331, 2445-2513 | `connectionsPerIP`, `macToIP`, `usedIPs`, `ipToSession`, `vmMAC`, `vmIP` | connect, ARP, DHCP, other frames, close | everything that routes by VM address |
| **UDP flows** `udp_flow_manager.js` | flow table, `lastFlow`, sockets, ages | `send`, responses, errors, `cleanup`, `close` | `handleUDP`, `VMSession.close` |
| **Connection tables** `relay.js` 816-920, 1367-1530, 1729-1758 | `tcpConnections`, `reverseTcpConnections`, `recentlyClosed`, idle timers, `nextProxyPort` | SYN handling, `createTCPConnection`, idle timeout | both halves of TCP |
| **Pacer** `tcp_pacer.js`, **rate limiter** `rate_limiter.js` | burst size and timer; sliding window of bytes | `noteSegment`, `noteAck`, `noteLoss`; `tryConsume` | drain loop |
| **UDP NAT** `relay.js` 386-414 | NAT entries | forward, reply, one timeout | port forwarding |
| **Port forwarding, admin API, HTTP proxy** `relay.js` 2559-3123 | rules, listeners | start, stop, edit, proxy a request | connection tables |
| **Packet functions** `packet_utils.js`, `tcp_utils.js` 67-145, `relay.js` 2125-2262 | none | parse, build, checksum, options, DNS filter | all handlers |

Which behaviours are hard, and what makes each component correct:

* *Retransmission queue.* Acknowledgements that end inside a segment or cross the
  2^32 wraparound; a timer that five methods arm and clear; probes and
  retransmissions that share a counter and a backoff. Correct: it holds exactly the
  unacknowledged numbers with the right bytes, always has its one timer, gives up on
  a silent VM and on no other.
* *Data to the VM.* The drain loop returns in several places, each relying on another
  wake-up; windows change between the request to drain and the sending; probes send
  data and FIN by a path of their own; connections end while blocked. Correct: every
  byte is sent once under its own number, within the windows, FIN comes last, nothing
  waits without a wake-up, nothing survives the end.
* *Data from the VM.* Overlaps, reordering, delayed acknowledgements and a sink that
  pushes back. Correct: the sink gets the stream in order, an acknowledgement is
  always owed by a timer, the VM is told at once when its sink fills and when it drains
  (a sink that ends while it is full never drains, and its window never reopens: section 3).
* *Sessions.* Machines reconnect before their old websocket closes; frames carry
  several MACs; the pool runs out. Correct: tables agree, addresses are distinct,
  routed to their holder and given back.
* *UDP flows.* Errors thrown half way through `send`, a cached flow, a limit. Correct:
  sockets are those of the table, and room is refused only when in use.
* *Connection tables.* A key comes back while what the old connection left behind is
  still to come: events of its socket or client, its idle timer, the timer that removes
  it. Correct: late events act on their own connection, what has left the tables holds
  nothing, ports rest, whoever awaits a connection is answered.
* *Pacer and rate limiter.* Lazy pruning, timers that are late, a clock that is set back.
  Correct: never more than the limit in any window, never more than a burst at once,
  and what was refused is sent later.
* *Port forwarding and UDP NAT.* Rules removed before their listeners are bound,
  listeners that fail, a NAT table that fills. Correct: the maps hold what listens, a
  removed rule listens no more, an answer goes to the client that was asked for it.

## 2. The modules

| Module | Models | Depends on |
| --- | --- | --- |
| `TcpRetransmission` | each method of `TCPRetransmissionQueue` as an operator from a queue to a queue | |
| `RetransmissionQueue` | a queue used in any order a connection could, `acknowledge()` one loop iteration at a time | `TcpRetransmission`, `SendWindow` |
| `SendWindow` | what a queue promises, without segments and timers: the abstract specification | |
| `TcpEgress` | data to the VM, forward and reverse connections | `TcpRetransmission` |
| `TcpIngress` | data from the VM | |
| `Sessions` | admission, address pool, routes | |
| `UdpFlows` | UDP flow manager | |
| `ConnectionTables` | the connections of a session on recurring keys, their late events and their clients | |
| `PortForwarding` | rules, listeners, UDP NAT table | |
| `RateLimiter`, `TcpPacer` | the methods of `SlidingWindowRateLimiter` and of `TCPPacer` as operators | |
| `SendTiming` | connections of a session that share a limiter, each with a pacer, in time | `RateLimiter`, `TcpPacer` |
| `TcpRetransmissionProofs` | lemmas about the methods of the queue, for the two modules that use them | `TcpRetransmission` |
| `RetransmissionQueueProofs` | theorems about `RetransmissionQueue`: the timer, giving up, its segments, the loop of `acknowledge()`, and that it implements `SendWindow` | `TcpRetransmissionProofs` |
| `TcpEgressProofs` | theorems about `TcpEgress` | `TcpRetransmissionProofs` |
| `ForwardingProofs` | theorems about `PortForwarding` and `UdpFlows` | |
| `TcpIngressProofs`, `SessionsProofs`, `ConnectionTablesProofs`, `SendTimingProofs` | theorems about the module they are named after | |

Every module starts with a comment saying what it abstracts; PROJECT.json maps each
definition to the lines it translates. In each module a few operators are *seeded
faults*, slightly wrong versions of the definition that follows them. No
specification uses them: each is put in the place of the right definition once, to
see that a given property notices.

**`TcpRetransmission`, `RetransmissionQueue`.** A payload is the interval of the
stream it carries, so the model tells whether the bytes and the sequence numbers of a
segment part ways. A timer is the *age* of its generation: `timerGeneration` only ever
grows and is only compared for equality, so ages keep what matters and are bounded.
Callbacks the event loop holds are a set of ages, from which `clearTimer` removes the
one that `timer` names. `onRetransmit` and `onPersistProbe` are outcomes ("sent",
"refused", "byte", "fin", "notCurrent", "throws"); which are possible follows their code
in `relay.js`. `RetransmissionQueue` checks the loop of `acknowledge()` against the
one-step `Acknowledge` that `TcpEgress` uses (`AckLoopCorrect`).

**`TcpEgress`.** One handler is one action, except that `drainTCPToVM` sends one
segment per step while `conn.sending` is set; nothing else runs meanwhile. Bytes are
counted, as the queue is a FIFO. `Sources` are the ways a connection may be fed, one of
which is chosen when a behaviour begins: a real socket, the HTTP proxy, or a forwarded
client; a proxied connection behaves like a forwarded one whose client never leaves, and
has no run of its own. Whether the pacer is off is a setting of the process; by
`PacedSources` one run has both. The pacer's burst end, the rate limiter's refusal and
the websocket's level are nondeterministic here: `SendTiming` has them in time. VM segments carry
any acknowledgement of numbers in use and any window; one that is older than the last
window update changes no window, as in `updateTCPWindow`.

**`TcpIngress`.** The network delivers any segment of the VM's stream at any time, so
loss, duplication and reordering are all included. The bytes are their positions in
the stream. `handleTCP` and `handleReverseTCP` differ in this half only in the order
of assignments, and one action stands for both. The code sorts its ranges twice, by their
distance from `vmSeq` when it stores a payload and by their signed distance from what is
expected when it drains; the module walks through the sequence space in the same order
and takes the ranges as it meets them (`Passed`), a recursion over numbers that a proof
can follow.

**`Sessions`.** The variable `environment`, chosen from `Environments` when a behaviour
begins, says what its VMs do with MAC addresses: `"exclusive"` (one MAC per machine, old
websocket closed first), `"reconnecting"` (the old one may linger) or `"any"`.

**`UdpFlows`.** One action per way through `send`, and one per event. Time is ticks;
ages stop at the timeout. What other modules define too carries the name of the module
(`FlowsInit`, `FlowsTypeOK`), so that one module can prove about both.

**`ConnectionTables`.** Connections are numbered in the order they are opened, and the
tables map keys to numbers. The code holds on to the object in some callbacks
(`onExhausted`, the two-second timer, upstream's `close`) and looks up the key in others
(events of the real socket, of a forwarded client, the idle timer); the module does
likewise in each action, and `crossed` records the kinds of event that acted on another
connection than their own. Inside a connection only what decides its end is kept.
Chosen ports are computed as in `createTCPConnection`, the port that is passed over
when the search ends included.

**`PortForwarding`.** Listeners are `"starting"` until their callback runs, which alone
adds them to the running maps; removing a rule stops what the maps hold. Every datagram
is taken to have a sender of its own, so that the NAT table maps ports to datagrams.
Two outcomes end a behaviour: the search for a free port that never ends, and an error of
a bound UDP socket, whose second `close` throws.

**`RateLimiter`, `TcpPacer`, `SendTiming`.** A timestamp is its age by the clock of the
host. `Tick` passes true time: ages grow, timers count down; `ClockSetBack` changes ages
only. Timers run when they have counted down, or later. The histories `spent` and
`bursts` record what was sent by true age, which is what the properties speak of.

## 3. What the runs show

Runs that pass:

| Run | Configuration | Shows |
| --- | --- | --- |
| `retransmission` | `RetransmissionQueue.cfg` | `Tiled`: segments are exactly the unacknowledged numbers, with their bytes, and `payloadBytesInFlight` is their sum. `AckNeverThrows`: neither exception of `acknowledge()` can happen. `TimerArmed`, `NoPrematureGiveUp`, `ProbesOnlySlowDown`, `AckLoopCorrect`, the refinement `ImplementsSendWindow`, and `GivesUpOnSilence`: a silent VM, its window open or closed, makes the queue give up. |
| `egress` | `TcpEgress.cfg` | For a connection the VM opened, and for one the relay opened whose client leaves at any time or never: `NothingLostOrRepeated` (each byte once, under its own number, and FIN after all of them; until the client leaves), `NoStall`, `RespectsWindows`, `NothingPendingAfterEnd`, and `RecoveryExact`: a loss recovery is under way exactly while a number it waits for is outstanding, also across the wraparound. |
| `egress_liveness` | `TcpEgressLiveness.cfg` | `DeliversOrCloses`. |
| `ingress` | `TcpIngress.cfg` | `DeliversInOrder` (and the end after the last byte), `BufferExact`, `VmIsTold` (`AckOwed`: what is expected next was told, or the delayed acknowledgement is under way; `WindowFollowsSink`: the window last told is closed exactly while the relay believes that the sink pushes back); `FinAcknowledged` for a VM that trims what it resends. |
| `sessions` | `Sessions.cfg` | `TablesExact` (the pool and the connection counts) whatever VMs do; `RoutedToHolder` and `LeasesReturned` for machines that keep their MAC. |
| `udp_flows` | `UdpFlows.cfg` | `SocketsAccounted` (the cached flow included), `RefusesOnlyWhenBusy`, `IdleFlowsGo`. |
| `tables` | `ConnectionTables.cfg` | `EventsStayHome`: of the late events only socket errors and departing clients ever reach a successor. `GoneMeansReleased`: what has left the tables holds nothing and its port rests. `ClientsAnswered`: no promise stays pending, no HTTP client whose connection is gone stays unanswered. |
| `forwarding` | `PortForwarding.cfg` | `ListenersAccounted`: the maps hold what listens, and a removed rule listens no more, unless it was removed early. `RepliesReachSender`: an answer within 31 seconds goes to the client that was asked for it or nowhere, and entries are not kept longer. |
| `timing` | `SendTiming.cfg` | `WindowExact`: the limiter counts exactly what was sent in the window, never more than the limit. `BurstBounded`: no more than a burst within an interval, and no block without a timer. `AllSent`: what is queued is sent in the end. |

Runs in which TLC finds a disagreement between the code and its own comments
(PROJECT.json "findings" has the lines):

| Run | Violates | What happens |
| --- | --- | --- |
| `egress_fin` | `FinIsLast` | A forwarded client closes after FIN was sent and while the VM's window is closed; the probe sends FIN again, one number further. |
| `ingress_fin_lost` | `FinAcknowledged` | The last segment comes out of order: its data is kept and its FIN is not. Once the hole is filled the data is old, and the same segment is ignored with its FIN for ever. A VM that resends only the FIN gets through. |
| `sessions_reconnect` | `RoutedToHolder` | A VM reconnects before its old websocket closes; the close releases the lease and the route of the new session. |

More came up while modelling. None of it contradicts a statement of the repository, so
it has no run of its own; the models contain it unless said otherwise, and the
properties are worded around it. Of data to and from the VM:

* The same handler (`relay.js` 2662) marks FIN as due while the PassThrough of a
  forwarded client may still hold data back. If the queue drains in one burst, FIN takes
  its number before that data, so `FinIsLast` fails that way too. It takes a high water
  mark of the order of a burst. `NothingLostOrRepeated` is therefore asked only until
  the client leaves (`ClientGone`).
* With `RATE_LIMIT_KBPS=1` the limiter's second holds less than a full segment, which is
  then refused for ever. `AllSent` has this as its condition.
* A refused connection asks again by a timer of its own after 20 ms, and every other
  attempt meanwhile that is refused adds one more (`retries` is a set, so equal ones are
  one). Connections that are refused wait for room without an order: a long segment may
  be overtaken again and again by short ones of other connections, as long as those last.
* The limiter serves data to the VM of connections the VM opened, and nothing else; the
  variable's comment and the README call it a limit of upload and download.
* A clock set back makes the limiter count its window longer, and refuse meanwhile.
* When the other end closes while the real socket is full (`Segment`, then `SinkEnds`),
  Node ends the socket, and a socket that has been ended emits no `drain` as it empties.
  Nothing else clears `receiveBackpressured` (`relay.js` 631, 636), so the VM's window stays
  closed until the VM ends the connection or the idle timer does. A forwarded client that
  leaves while its PassThrough is full leaves the window closed in the same way, as nobody
  reads on. `WindowFollowsSink` therefore says what the VM is told of the flag, not that the
  window reopens; `DeliversInOrder` asks for delivery only while the sink can be written.

Of sessions and addresses:

* A session whose VM changes its MAC leases an address under each, and the close releases
  only that of the last: `LeasesReturned` is asked of the other environments only.
* The number the pool holds back is 2, the last of the shipped `GATEWAY_IP`, whatever
  `GATEWAY_IP` is set to.

Of connections and their keys:

* The error of a real socket is looked up by key. If its connection has finished, and the
  VM has opened another with the same ports, the error aborts that one. The same holds
  of the close and error of a forwarded client, and of the cleanup of a proxied one, once
  the ports of the relay have come round: `EventsStayHome` is what is left.
* A SYN for a connection that has finished and still waits for its two seconds is ignored;
  the VM gets through with a retransmission after them.
* A forwarded client and an upgraded one are not told when the VM aborts: both streams are
  destroyed without an error, which ends no pipe. The HTTP proxy has its response timer,
  and only of its clients does `ClientsAnswered` ask an end.
* A client that leaves while `createTCPConnection` is awaited leaves an established
  connection to the idle timer; one that *fails* there has no listener for its error,
  which ends the process (not modelled).

Of port forwarding:

* A rule removed before its listener is bound leaves a listener that nothing stops
  (`"removed early"`).
* An error of a bound UDP socket closes it twice; the second `close` throws in an event
  handler, and the process ends.
* The search for a free NAT port does not end when all ports are taken: 10000 datagrams
  within 31 seconds. A clock set back keeps entries for ever.
* A VM's UDP packet is matched by its destination port alone, before its address is
  looked at: one to a port that happens to be in use goes to a client.

### Bounds, and why they are enough

* Sequence spaces are `2 * Half` numbers with `Half` 3, 4, 8 or 16 for 2^31. The code
  uses the width only through subtraction modulo 2^32 and comparison with half the
  space. `RetransmissionQueue` starts at every number; `TcpEgress` and `TcpIngress`
  start two to four numbers before the wraparound, so that streams cross it.
* `MaxPayload` 2 gives a segment with a front, a back and a partial acknowledgement,
  together with SYN or FIN. `MaxRetransmissions` 2 and `MaxRto` 3 (one doubling, one
  capped doubling) reach every branch of the timer. Less than half the space may be in
  use (`Room`): the windows of the code, at most 64 KB, keep far from half of 2^32.
  `TcpEgress` needs no such guard: its windows are 16 bits wide (`WindowsAssumption`), and
  `QueueStaysWhole` derives from that what `Room` asks.
* Streams of three or four bytes exceed the initial congestion window, the high water
  mark and the VM's windows (0, 1 or 3), so that pausing, closing and probing happen.
  `Mss` is 2 in `egress`, so that windows cut segments, and 1 in the others.
  `egress_fin` needs no data at all, and `egress_liveness` one byte and FIN: what
  liveness turns on is the chain of wake-ups, which `NoStall` checks on longer streams.
  `MaxPending` counts `setImmediate` and rate-limiter callbacks up to 1: more of the
  same call `trySend` again and find nothing new.
* In `TcpIngress.cfg` five bytes, segments of up to three and a window of four let two
  separate ranges wait, one segment overlap or bridge both, and segments reach beyond
  the window. That the stream with FIN is shorter than half the space is an assumption of
  the module (`StreamAssumption`): the code compares numbers within a window of at most
  64 KB of each other, and a position of the stream stands for its number only so far.
* `Sessions` has three sessions, three MACs, two client addresses, a pool of three
  numbers with the reserved one among them, and a limit of two connections: the pool
  runs out, the limit is met, and a session is opened after another closed. The shipped
  pool starts at 15, but `DHCP_START` may be set to include the number 2.
* `UdpFlows` has three keys for room for two, and one socket name to spare.
* `ConnectionTables` opens two connections, on one key of the VM or on two ports of the
  relay with a search of one attempt: a connection and its successor on the same key,
  two neighbours, a search that wraps around and one that fails. A crossing needs no more
  than two connections; handlers look at one key at a time.
* `PortForwarding` posts two rules, on the same port or not, and forwards three datagrams
  through two NAT ports, so that one port is used again and the table is full.
* In `SendTiming` the window is two ticks and three bytes, segments have one or two bytes, so that
  a full segment meets every fill of the window; one connection has four segments, so
  that its burst grows from one to two, and the other competes with one. `CompactAt` 1
  makes the list be cut whenever half of it has expired. The pacer's interval is two ticks
  and the clock goes back by one, so that a rest and a timer can fall on either side of
  the boundary.

`CHECK_DEADLOCK FALSE` is stated where the system may really stop: a connection that is
gone (`TcpEgress`), sessions that are all closed (`Sessions`), connections that have all
been opened and ended (`ConnectionTables`), a process that hangs or has ended
(`PortForwarding`). In `SendTiming` time always passes, so nothing is hidden there.

### Fairness

Node's event loop runs every timer and callback that is due: weak fairness of the drain
loop and the rest of a handler, of the delayed-ACK timer and of the flow manager's
interval. A retransmission queue gives up only if the websocket does not refuse every
probe: `GivesUpOnSilence` assumes strong fairness of a timeout that sends. That is an
assumption about the environment, which the code does not enforce: `relay.js` 2490 sets the
keep-alive of TCP alone, and a peer that is alive but stops reading its websocket may
refuse probes for ever without being closed. No fairness is assumed of the outcomes in which
the send throws or finds its connection gone. `DeliversOrCloses` further
assumes that streams, the pacer, the limiter and the websocket serve a connection again
and again although other connections of the session compete, and that a VM that is
not silent acknowledges everything now and then (strong fairness); the conclusion is asked only
of behaviours in which the VM stops closing its window. No fairness is assumed of
`Abort`, of a reset or of the retransmission timer there. `FinAcknowledged` assumes a
VM that keeps resending its first unacknowledged segment and hears some acknowledgement
(the fairness of `VmHearsAck`, and the only thing that covers the loss of the last
acknowledgement: what `finishTCPConnection` does once both sides have sent FIN is in
`TcpEgress` and `ConnectionTables`, not in `TcpIngress`).
`ClientsAnswered` assumes that a retransmission queue gives up (`GivesUpOnSilence`) and
that Node runs the response timer of a client whose connection is gone; nothing is
assumed of the VM or of clients. `AllSent` assumes that time passes and that Node runs
the drain loop, the pacer's timers and the 20-ms timers; nothing of acknowledgements.

## 4. What is proved

The theorems below hold for every value of the constants that the named assumptions of
the modules admit: any sequence space, window, timeout, limit and range, any sets of
sessions, keys, ports and connections. Each rests on an inductive invariant that TLC
checked on the run's instance before it was proved; each step lemma takes one action.

**`RetransmissionQueueProofs`** (timer and timeouts; `HalfAssumption`, `RtoAssumption`,
`RetransmissionsAssumption`, `MaxPayloadAssumption` are what the constructor accepts).

* `TypeCorrect`: `Spec => []TypeOK`. One lemma per method says that it maps queues to queues.
* `TimerAlwaysArmed`: `[]TimerArmed`, which speaks of states between handler runs and is
  not inductive. `TimerInv` adds what holds while `acknowledge()` runs: its loop pops and
  trims segments but leaves the timer as the queue before the call had it, and the
  `clearTimer`/`armTimer` at its end restores the equivalence whatever the queue has become.
* `GivesUpOnlyOnSilence` (`NoPrematureGiveUp`) and `PersistSlowsDown`
  (`ProbesOnlySlowDown`), two action properties, from `PaceInv`: the timeout stays under its
  cap, and a live queue has counted no more retries than sends went unanswered.

* `DataIsTiled` (`[]Tiled`), with `DataInv`: segments lie end to end from the position of
  `acknowledge()`'s loop, or from `sndUna` when none runs, to `sndNxt`, each with the bytes of
  its numbers. That neighbours touch is not inductive when the front goes; the invariant
  relates every pair of segments. Payload is summed by a recursive function
  (`PayloadBytes`), and the lemmas on it follow from its partial sums.
* `NeverThrows` (`[]AckNeverThrows`): while numbers remain the loop finds a segment that
  holds them, so neither `throw` can be reached.
* `QueueIsSendWindow` (`ImplementsSendWindow`): every step of the queue is a step of
  `SendWindow` or leaves its variables alone.
* `LoopIsAcknowledge` (`AckLoopCorrect`): the loop, run to its end, is `Acknowledge`, which
  `TcpEgress` uses in its place. `LoopInv` says that what the loop has dropped is a front of
  the segments it began with, all covered by the number, and what it has left to go is the
  distance from their end; the segment at which it stops is then the one `WholeSegments` names.

**`TcpEgressProofs`** (`HalfAssumption`, `SizesAssumption`, `InitialSequenceAssumption`,
`WindowsAssumption`: an announced window is far from half the sequence space). The six
invariants and action properties of the run, and two theorems without one:

* `TypeCorrect` (`[]TypeOK`), `EveryByteHasItsNumber` (`[]NothingLostOrRepeated`),
  `SomethingWakesIt` (`[]NoStall`), `EndsForGood` (`[]NothingPendingAfterEnd`),
  `NewPayloadFits` (`RespectsWindows`), `RecoveryEnds` (`[]RecoveryExact`).
* `NothingAfterFin`: once FIN has a number nothing takes a new one, unless the client of a
  forwarding rule is gone. It is the part of `FinIsLast` that is true: `egress_fin` shows the
  other. It follows from `NothingLostOrRepeated` before and after a step, and from
  `finSent` never being taken back.
* `QueueStaysWhole`: the connection's queue is always laid end to end, with its payload
  counted and its timer armed when due, and never has half of the space outstanding: what
  `RetransmissionQueue` takes for granted of its callers.
* The invariant `IInv` is `Steady`, which holds even in the middle of a handler, and `Going`,
  which says where the handlers stand. Of `Steady`: `Held` is the invariant of the queue;
  `Health` ties its life to the state of the connection; `Stage` says that only the SYN is
  outstanding before the handshake and nothing in CLOSED; `Stream` is the count of bytes,
  stronger than the property by what makes FIN due; `Room` bounds what is outstanding: payload
  by the windows of the moment it was sent, SYN and FIN by the end events that can still come.
* The end of a loss recovery is a number compared modulo the space. `Recovery` holds it at an
  offset from `sndUna` that may be negative, by no more than the flags acknowledged without
  payload, since `onAck` hears of acknowledged payload only. Without that, a recovery that was
  left behind could not be told from one that lies ahead; with it, `RecoveryEnds` follows.
* `NoStall` is not inductive, as it says nothing while a drain runs. `Going` adds that a drain
  that finds the window closed has set persist mode, so that each of its five returns leaves
  a timer, a waiter, a callback, or numbers in flight.
* An acknowledgement takes several segments in one step. That what remains is still laid
  end to end, with its payload, follows by least counterexample over the segments that go
  (`SuffixGood`, `UnacknowledgedGood`).

**`TcpIngressProofs`** (`SpaceAssumption`, `WindowAssumption`, `StreamAssumption`).

* `Ordered` (`[]DeliversInOrder`): whatever the network loses, repeats, reorders and cuts
  differently, the sink gets the VM's bytes from the first one on, each once, and its end
  after the last. `BufferedExactly` (`[]BufferExact`), `VmKeptInformed` (`[]VmIsTold`),
  `TypeCorrect`.
* The invariant `IInv` has three parts. `Receiving`: the ranges that wait are disjoint, lie
  beyond `vmSeq` within the capacity, and hold the bytes of their own positions;
  `oooBytes` is the number of positions they cover. `Delivered`: the sink has exactly what
  was taken. `Told`: what the VM was told is what is true, or a segment is pending with the
  timer running.
* The two loops need invariants of their own: `Filling` while `bufferTCPOutOfOrder` lays the
  pieces of a payload into the gaps, `Draining` while `drainTCPOutOfOrder` takes ranges that
  have come due. Both are proved by least counterexample over the steps of the walk.
  Comparisons modulo the space are turned into comparisons of positions by three lemmas
  (`Before`, `AheadPositions`, `Onward`); this is where `StreamBytes + 1 < Half` is used.

**`SessionsProofs`** (`IdsAssumption`, `PoolAssumption`, `MaxConnectionsAssumption`,
`NoneAssumption`, `EnvironmentsAssumption`).

* `TypeCorrect`; `TablesAreExact` (`[]TablesExact`), whatever MACs the frames carry.
* `LeasesAreReturned` (`[]LeasesReturned`), and `RoutesReachHolder` (`[]RoutedToHolder`)
  under the hypothesis that `"reconnecting"` is not among the `Environments`: for machines
  that reconnect first it is false, as `sessions_reconnect` shows. `ExclusiveInv` adds that open
  sessions have distinct MACs and that each route leads to the session that leases it.

**`ForwardingProofs`**, of `UdpFlows` (`LimitAssumption`, `NamesAssumption`). `FlowsTypeCorrect`, `NoSocketLeaks`
(`[]SocketsAccounted`), `DropsOnlyWhenBusy` (`RefusesOnlyWhenBusy`, an action property). The
invariant says that flows have sockets of their own and that the open sockets are theirs, so
that counting flows counts sockets: that turns "no room" into "`MaxFlows` in use".

**`ConnectionTablesProofs`** (`OpensAssumption`, `PortsAssumption`, `ClientKindsAssumption`,
`NoneAssumption`). `TypeCorrect`, `EventsStay` (`[]EventsStayHome`), `GoneIsReleased`
(`[]GoneMeansReleased`). The invariant `Good` has four parts: what is under a key was opened
under it (`Entries`), what may act on a key is held only by the connection found there
(`Holds`), ports of the connections that ended rest (`Rests`), and numbers not yet given are
unused (`Numbered`). `EventsStayHome` alone is not inductive: that a late event finds its
own connection is the second part.

**`ForwardingProofs`**, of `PortForwarding` (`BoundsAssumption`, `HostPortsAssumption`, `NatPortsAssumption`).
`TypeCorrect`, `ListenersAreAccounted` (`[]ListenersAccounted`), with the invariant that a
listener exists only for what its rule asked for; `AnswersReachSender`
(`[]RepliesReachSender`), with the invariant that the entry at a port is that of the datagram
that was given the port last, and that a datagram whose timer still runs has its entry.

**`SendTimingProofs`** (`LimiterAssumption`, `PacerAssumption`, `TimingAssumption`).

* `WindowIsExact` (`[]WindowExact`): no window ever has more than `MaxBytes`, and the limiter
  counts exactly what was sent. That the totals agree for the whole window is not inductive,
  as the next tick needs the window but one tick: `Counts` says that for *every* age there is a
  mark in the list (`Marks`) such that the entries behind it are younger by the clock and hold
  all that was sent since, and nothing else unless the clock was set back. A tick moves the
  marks by one age; pruning moves no mark behind the head; cutting the list shifts them; an
  amount added to the last entry, which a clock set back may have made older than its
  amount, draws marks back in front of it.
* `BurstsAreBounded` (`[]BurstBounded`): `Bounded` says that the segments of the burst under way
  are all that was sent within the interval, and that a timer or a clock with so much left has
  nothing sent in the time it has run. The two modes keep their own limits.
* `TypeCorrect`: that the bytes a pacer counts stay bounded follows from `Accounted`, by
  which left, queued, in flight and counted bytes never exceed what the connection had to send.
* Sums are a recursive function (`SumOf`). Its lemmas (`SumSplit`, `SumMoved`, `SumGrown`) follow
  from what one more number adds, by an induction along an interval (`Climb`) that takes a set
  in place of a predicate.

Only model-checked:

* Liveness: `GivesUpOnSilence`, `DeliversOrCloses`, `FinAcknowledged`, `IdleFlowsGo`,
  `ClientsAnswered`, `AllSent`. Fairness and ENABLED are outside what the prover does.
* What the violated runs are about: `FinIsLast` (but see `NothingAfterFin`), `FinAcknowledged`
  of a VM that resends a segment as it was, `RoutedToHolder` of machines that reconnect.

Every safety property of a passing run is a theorem; TLC checks it on the run's instance too.

## 5. Not modelled, and the plan

Not modelled:

* Log output, the contents of ARP, DHCP, ICMP and DNS replies, checksums, TCP options, the
  DNS filter, the choice of a proxy rule by host and path and the rewriting of headers:
  pure functions of one packet or request, which unit tests reach well.
* TLS, the admin pages and nicknames, which hold no state others depend on.
* The composition of all modules in one: `TcpEgress` and `TcpIngress` follow one connection
  each, `ConnectionTables` follows several with their insides abstracted, `SendTiming`
  several with nothing but the timing of their sending.
* The VM's window scale and MSS option are constants of a connection.

The retransmission queue and the two halves of TCP came first, because data integrity
and stalls are what the relay is most exposed to; then the sessions and UDP flows, and
then the connection tables, the timing of sending and port forwarding; then the proofs, of the
queue first, of the other modules after it, and of `TcpEgress`, which composes most, last. What
is left, in order:

1. `ByteStream`: the abstract specification of one direction of a connection (bytes
   accepted, delivered, ended), refined by `TcpEgress` and by `TcpIngress`. The counts it would
   promise are proved of each as invariants.
2. `Packets`: options and DNS names as functions, against definitions.
