# TLA+ models of nespy

nespy is MicroPython with a network stack derived from Contiki-NG. The stack
(`src/src/ns`) runs on a small event-driven kernel; the MicroPython core and its
ports, drivers and libraries are third-party code around it. These modules model
the kernel, its timers, its lock-free buffers, the link layer (CSMA sender and
receiver over the unix radio), 6LoWPAN fragmentation, the neighbor table and the
CoAP engine, check them with TLC on small instances, and prove the most important
facts with TLAPS for all instances.

Paths below are relative to `src/src`.

## 1. The system

The main program (`examples/unix/*`, `ports/nrf`) is one loop:

    while True:
        ns.process.run()               # process_run: polls, then one event
        ns.platform.process_update()   # unix: select, UART, radio, clock

Everything but interrupt handlers runs inside `process_run`, on one C stack.
`ns_init_protocol` (`ns/lib/py/obj-init.c`) boots in the order clock, rtimer,
process kernel, etimer process, ctimers, network stack.

| component | state | operations | used by |
|---|---|---|---|
| process kernel, `ns/sys/process.c` | process list, state and poll flag per process, ring of events, `process_current` | start, exit, post, post_synch, poll, run | everything |
| event timers, `ns/sys/etimer.c`, `timer.c` | linked list of timers, `next_expiration` | set, reset, restart, adjust, stop; the etimer process | processes, ctimers |
| callback timers, `ns/sys/ctimer.c` | list of ctimers | set, reset, restart, stop; the ctimer process | MAC, RPL, CoAP, ND |
| port clocks, `ports/{unix,nrf}/nsport/clock.c` | clock | tick, poll the etimer process | main loop, interrupt |
| real-time timer, `ns/sys/rtimer.c` | one pending timer | set, run_next | ports, TSCH |
| ring buffers, `ns/lib/ringbuf*.c` | two indices | put, get, peek | UART, TSCH, CLI |
| lists, blocks, `ns/lib/list.c`, `memb.c`; `ns/net/queuebuf.c` | links, used flags | add, remove, alloc, free | all of the stack |
| CSMA sender, `ns/net/mac/csma/csma-output.c` | queue per neighbor, counters, pools | output_packet, transmit callback, packet_sent | 6LoWPAN |
| CSMA receiver, `csma.c`, `mac-sequence.c` | last seqnos per neighbor | input | radio |
| unix radio, `ports/unix/nsport/radio.c` | tx state, one rx buffer | transmit, receive, ack wait | CSMA |
| neighbor table, `ns/net/nbr-table.c` | used and locked maps per table | add, remove, lock, evict | ND, RPL, CSMA |
| CoAP, `ns/net/app-layer/coap` | transactions, observers | new, send, check, clear, notify | applications |
| Python threads, `ns/lib/py/obj-process.c`, `obj-etimer.c` | table of slots | start, post, timer | Python programs |
| command line, `ns/services/cli` | receive line, transmit ring | receive, output | UART |
| 6LoWPAN, `ns/net/ipv6/sicslowpan.c` | tag, reassembly contexts and buffers | output, input | IPv6 |
| link statistics, IPv6 neighbors and routes, RPL parents | items in the neighbor table, pointers to them | add, remove, choose | IPv6, RPL |
| IPv6, RPL, TSCH | packet buffer, tables | packet processing | applications |

What is hard in it:

* **Re-entrancy instead of threads.** A process thread runs on the kernel's
  stack and may start, exit, call and poll processes while the kernel is walking
  the process list. Most of the kernel's correctness is that these walks
  survive it.
* **Interrupts.** `process_poll` and the ring buffers are used from interrupt
  handlers without locks.
* **Wrap.** Clock values, timer expirations, sequence numbers and ring indices
  all wrap.
* **Two lists for one thing.** A callback timer is on `ctimer_list` and, inside
  it, on the etimer's list, with an event between them in a queue that may be full.
* **Fixed pools.** Each of several allocations may fail, and a block that is
  taken again still has the content of its last use.
* **A lossy medium.** Frames and acknowledgements are lost, late or repeated; the
  radio has one receive buffer and one counter for it, and the main loop runs
  inside a transmission.
* **Crashes.** A node that restarts begins with its first tag again, while its
  peer still holds fragments of before.

`PROJECT.json` lists these hazards at their lines ("hazards") with the
properties that cover them.

## 2. The modules

| module | models | checked by |
|---|---|---|
| `Ring`, `Links` | contents of a ring; C linked lists, by their pointers and as the sequences `list.c` keeps | (used below) |
| `BoundedFifo` | what a bounded buffer promises | refined by `RingBuf` |
| `EventQueue` | what `process_post`/`process_run` promise | refined by `Process` |
| `RingBuf` | `ringbuf.c`, `ringbufindex.c` | `MCRingBuf`, `RingBufProofs` |
| `Process` | `process.c` | `MCProcess`, `ProcessProofs` |
| `Etimer` | `timer.c`, `etimer.c`, the ports' polling | `MCEtimer`, `EtimerProofs` |
| `Ctimer` | `ctimer.c`, over `Etimer` (EXTENDS) | `Ctimer`, `EtimerProofs` |
| `CsmaOutput` | `csma-output.c`, the pools it uses | `CsmaOutput`, `UnixLinkProofs` |
| `UnixLink` | `radio.c`, `csma.c`, `mac-sequence.c`, the unix main loop, over `CsmaOutput` (EXTENDS) | `UnixLink`, `UnixLinkProofs` |
| `Sicslowpan` | fragmentation and reassembly of `sicslowpan.c`, over `CsmaOutput` (EXTENDS) | `MCSicslowpan`, `SicslowpanProofs` |
| `NbrTable` | `nbr-table.c`, its users in `link-stats.c`, `uip-ds6-nbr.c`, `uip-ds6-route.c`, `rpl-dag.c`, `rpl-nbr-policy.c` | `MCNbrTable`, `NbrTableProofs` |
| `Coap` | `coap-transactions.c`, `coap-observe.c`, `coap-callback-api.c`, `coap_receive`, `coap-timer.c` | `Coap`, `CoapProofs` |
| `LibTheorems` | lemmas on remainders, rings, linked lists and lists as sequences | the proof modules |

**RingBuf.** `put_ptr`, `get_ptr` and `data` are the shared state. Each operation
is split at its accesses to it (test, store or load, advance), and one producer
and one consumer interleave freely. The consumer is either `ringbuf_get`, which
loads before it advances, or `ringbufindex_get`, which advances and leaves the
load to its caller (as `tsch-queue.c` does). `x & mask` is `x % Size`.

**Process.** `stack` is the C stack: a frame for the main program, for
`process_run`, for every kernel loop that calls processes (`do_poll`, a
broadcast in `do_event`, `exit_process`) with its loop variable, for
`process_post_synch` with its saved `process_current`, and for every running
thread. A frame's step acts on the pointers as they are then, so a list changed
by a nested call is seen as the code would see it. Threads are arbitrary: up to
`MaxCalls` kernel calls per activation, then a yield or an exit. `InterruptPoll`
is `process_poll` from an interrupt between any two steps. Event numbers and data
are abstracted to the receiver and the few events the kernel treats specially.
`due` is a history variable: whom the current broadcast has still to reach.

**Etimer.** The clock runs modulo `Wrap`; `age` is a history variable, the true
time since a timer's start, so that a property can say what the modular
comparison in `timer_expired` should mean. `ScanPost`, `ScanFull` and `ScanEnd`
are the etimer process's loop from its label `again`; the clock may tick between
two passes. `PollPeriod = 0` is the nrf port (each clock interrupt polls),
`PollPeriod > 0` the unix port (`etimer_pending_process` polls if the clock reads
a multiple of it). The event queue is that of `EventQueue`.
`etimer_adjust` adds any value of `Adjustment` to the start at any time, and may put it
into the future; `age` is then negative.
Three conditions bound the clock: with `Prompt` the etimer process looks at an
expired timer before the clock has gone round past it (without it the 64-bit
clock of the real program is not modelled faithfully by a clock of six values);
`timer_reset` is used only on expired timers, as the comment in `timer.c`
requires (`MayReset`); and adjustments do not make a timer a whole round of the clock
old (`MayAdjust`), since its true age would not be known then.

**Ctimer.** Adds `ctimer_list`, `initialized` and the delivery of TIMER to the
ctimer process. What a callback does to ctimers are the steps that follow it.

**CsmaOutput.** `csma_output_packet` is one action with one disjunct for each
outcome: accepted, no room in one of the four pools, no neighbor block. `held`
is the queue buffer `sicslowpan.c` keeps while it sends fragments. The callback
of a neighbor's timer is `transmit_from_queue` with any answer the radio can
give; `packet_sent`, the counters and `tx_done` or `rexmit` follow in the same
action, as in the code. `open` and `attempts` are history variables: reports
outstanding per packet, tries for the first packet.

**UnixLink.** One node runs the main loop step by step: `loop` says whether the
polled radio thread, one event or `unix_process_update` comes next. `sending` is
the frame `unix_transmit` was called for; while it does not return, the same
`unix_process_update` runs from inside it, so that a datagram may arrive, overwrite
the buffer and be counted in the middle of a transmission. `unix_radio_process` is
one action with its tests in the order of the code: receive, note an
acknowledgement, leave the wait (in time or timed out), count data, send. The counter
`radio_rx_pkt_counter` is an `int8_t` and wraps (`Int8`). `late` is the comparison of
`ack_timeout` with the clock. The transmit timers are those of
`CsmaOutput`, whose radio answers are now computed (`TxResult`) instead of chosen.
`unix_radio_transmit` sends each frame to all ports, acknowledgements too (`Sent`): it gets
to any subset of the other nodes and is lost to the rest. `sock` are the sockets of the node
and its peer, which delay a frame at will and keep the order, as a UDP socket on one
machine does. The peer's receiver is `input_packet` in one step. The peer and further nodes
send data to anybody with any sequence number (`OthersSend`), which pushes the sender out
of the peer's table and may be acknowledged by the peer, and further nodes acknowledge what
others sent them (`OthersAck`): the node hears these acknowledgements, which name nobody.
What the peer heard gets older than
`SEQNO_MAX_AGE` (`SeqnosAge`: the oldest entries first, at any time).
`given`, `delivered`, `since`, `confirmed` and `stray` (sequence numbers that were
acknowledged to others) are history variables.

**Sicslowpan.** `output` counts the queue buffers and takes a tag, then each
`fragment_copy_payload_and_send` cuts a fragment and gives it to
`csma_output_packet` with one queue buffer held; no transmit timer runs in between,
since the loop is one call. `Air` is the transmit timer of the composed CSMA sender;
what its answers mean for the receiver is taken from `UnixLink`: any frame may be lost,
even one reported OK (`OkDelivered` does not hold, see section 3), and a repeated frame may be passed up
again (`DuplicateExplained`). `First` and `Further` are `add_fragment` and the part of
`input` that follows it, with the freeing of expired contexts where the code does it.
The payload is abstracted to the part of the packet it is (`off`, `len`, `d`), so that
"whole" can be said; header compression to two lengths.

**NbrTable.** A neighbor is a key, its position in the tables' arrays; `item` is a
history variable, whose data a slot holds. `nbr_table_add_lladdr` has a disjunct for
a known key, a free one, an eviction and a failure. `rpl` in the initial state chooses
the build: the default IPv6 build is RPL classic, whose policy names the neighbor to
remove and even overrides locks; without it the least used unlocked one goes.
`remove_key` and the callbacks it makes are part of the eviction. Routes and the
preferred parent are pointers to slots; `meant` says which neighbor they were made for.

**Coap.** `trans` keeps the content of a block after it is freed, as `memb.c` does.
The functions of `coap-transactions.c` are operators on a record of the
transaction state, because one handler calls several of them: a received response
clears a transaction and its callback opens the next one. A notification is the loop over
the observers, as a function of the turns done (`Notified`). A timer may run out at any
time, any message that was sent may be answered at any time, several times or never,
and by a response under a message id of the peer's own, since
`coap_get_transaction_by_mid` does not compare endpoints.

`map` in `PROJECT.json` names the source lines of every definition. Operators
marked "mutant" or "mutation" are plausible bugs in the definition after
them; replacing the definition by its mutant makes a property fail, which shows
that the property depends on that code.

## 3. The runs

Passing runs:

| run | what it shows | bounds |
|---|---|---|
| `ringbuf` | pointers in range; no store into a slot still to be read (`NoOverwrite`); the ring is a FIFO of `Size - 1` places (`FifoSpec`) | 4 slots, 2 values: full, empty and wrapped in every phase |
| `process` | the list ends and holds nobody twice (`ListOK`); no thread is entered twice (`NoReentry`); `process_current` is right in a thread (`CurrentOK`); running means listed, listed but not running means being exited, CALLED means running now (`StateOK`); a broadcast skips nobody (`BroadcastComplete`) | 3 processes (head, middle and tail of the list), a queue of one, one kernel call per activation: nested activations give chains of calls as deep as there are processes |
| `process_live` | a poll requested at any time is served (`PollServed`); every event is taken, provided that processes are not started for ever (`EventTaken`); events are taken in the order they were posted, and refused only when the queue is full (`FifoSpec`) | 2 processes with two kernel calls per activation, enough for a poll handler to exit and restart the process a broadcast stands at; a queue of two so that the ring wraps, interrupts at any time |
| `etimer` | the timer list holds exactly the live processes' pending timers (`PendingListed`); no timer fires early in true time, unless an adjustment put its start two ticks or more into the future (`NeverEarly`) | 2 timers, 2 processes that may exit, clock modulo 6, intervals 1 and 2, adjustments by -1, 1 and 2 at any age, a queue of one that is often full, 3 calls |
| `ctimer` | a set callback is not forgotten (`CallbackKept`), runs in the end (`CallbackRuns`), and a due timer fires (`TimerFires`) although the queue may be full; a callback is early only if its timer was set again with the old event still queued (`EarlyOnlyWhenSetAgain`) | 2 ctimers, clock modulo 5, a queue of one, 3 calls |
| `csma` | blocks are conserved (`PoolsConserved`), no queue is left without a timer (`QueuesServed`), tries are bounded (`AttemptsBounded`), every packet is reported exactly once (`ReportedOnce`), it is the one that was sent (`ReportsFirst`), and in the end (`EventuallyReported`) | 3 packets, 3 addresses (one broadcast) over 2 neighbor blocks and pools of 2, so every allocation fails in some run; 2 seqnos, so that a queue holds the same seqno twice; 1 retry, 1 backoff |
| `link` | between transmissions the radio is ready to receive (`RadioReady`); MAC_TX_OK for a unicast means that the peer has passed up a packet with its sequence number, or that this number was acknowledged to another node (`ConfirmedDelivered`); a packet is passed up again only if the peer's table has forgotten it (`DuplicateExplained`); no received frame is counted twice, so that the `int8_t` counter cannot overflow before 128 frames of others have arrived (`CountedOnce`); `unix_transmit` returns, unless its acknowledgement comes after `ack_timeout`: whatever is sent, lost or overwritten, the main loop goes on (`TransmitReturns`) | 2 packets, a peer, a third node and broadcast, 1 retry, seqnos modulo 3 (0 is skipped, so the two packets have different ones), one remembered sender, 2 datagrams per socket, one frame or acknowledgement of another node, to anyone and with either seqno. The safety properties also hold with two foreign frames (3.4 million states), and with two packets of the same seqno (modulo 2, 11.7 million states) |
| `sicslowpan` | every fragment fits its frame, its offset is a multiple of 8 (`LowpanTypeOK`); a packet's fragments are queued all or none and are as many as were counted (`AllOrNone`); contexts count exactly the bytes they hold and free their buffers, and none is kept when it is complete, but for a context that holds fragments of before a restart (`ReassemblyAccounts`); what is delivered is one whole packet, unless a fragment was passed up twice or the sender restarted (`DeliveredWhole`) | packets of 226, 200 and 60 bytes and one of 225 bytes of another sender, with 102 bytes of payload per frame: one byte more than two fragments carry, less than two, one frame, and exactly two fragments; 5 queue buffers, 2 contexts, 2 buffers, 1 retry, 1 restart |
| `nbrtable` | one key per address (`NbrTypeOK`); a table finds only a neighbor's own data, also link statistics, which are not told of evictions (`ItemsOwned`); routes and the preferred parent lead to the neighbor they were made for (`PointersKept`); a locked neighbor is never evicted, not even by RPL's policy, which could (`LockedStays`) | 3 addresses for 2 keys, 2 destinations, 4 tables, both builds. With 3 keys and 4 addresses (542,250 states) the result is the same |
| `coap` | open transactions are confirmable, have distinct message ids and are exactly those whose timer is set (`TimersServe`); each is closed in the end (`TransactionCloses`), each request finished, if need be by its timeout (`RequestFinishes`) | 2 blocks, 1 request of up to 2 blocks, 2 endpoints, 2 observers of one resource, 1 retransmission, 4 message ids |

`Process.cfg` and `NbrTable.cfg` use a VIEW and symmetry: `MCProcess` and
`MCNbrTable` say which parts of the state the rest of a run does not depend on. (Of the
next pointers of processes `View` keeps those that a walk under way, or one from the head
of the list, can still meet.) `ProcessLive.cfg` uses the view
`LiveView`, which leaves out the slots outside of the queue, `due`, and which of the events
other than EXIT a thread handles: no action and none of its properties depends on
them (without it the run takes 5 minutes and 1.2 million states, with the same result). The other
liveness runs use neither. `Etimer.cfg`, `Ctimer.cfg` and `Sicslowpan.cfg` switch
deadlock checking off: calls and packets are bounded, and `Prompt` may hold the clock.
The `TypeOK` of `Process`, `Etimer` and `CsmaOutput` are proved (section 4) and are not among the
properties of these runs.

Runs that refute what the repository says (each a finding in `PROJECT.json`):

| run | what the code does |
|---|---|
| `link_stuck` | A frame that arrives while `unix_transmit` waits for an acknowledgement is counted in the pass that ends the wait, and `send_one_packet` reads it without decrementing `radio_rx_pkt_counter`; the radio thread decrements it once each time it runs, also when that is once for two frames. The counter stays above zero with nothing to read, `pending_packet` stays true, and every unicast is a collision from then on (`PendingIsReal`). |
| `coap_stray` | `coap_new_transaction` does not set the callback: a confirmable notification in a block that a request used before runs that request's callback (`CallbackOwn`). |

### Known deviations without a run

Met while modelling, stated in the modules, and refuted by TLC with the change of
configuration named here:

* `StateOK` of `Process` with `ExitOnStack = TRUE`: `process_exit` of the executing
  process, which `process.h` allows, leaves it RUNNING but off the list when its
  thread yields afterwards (`process.c:196`). The runs leave this use out.
* `ExitInformsAll` of `Process` (invariant, `Process.cfg`): a process that waits in a
  synchronous call is not told that another one exits, although the comment at
  `process.c:142` says all are.
* `EventTaken` of `Process` without `StartsEnd` (with `ProcessLive.cfg`): between two steps
  of a broadcast `do_event` runs the requested polls (`process.c:277`); a poll handler that
  exits the process the broadcast stands at and starts it again puts it at the head of the
  list, and the broadcast goes round once more. With a poll in each round, for ever, the
  next event is never taken.
* `NextExpirationOK` of `Etimer` (invariant, `Etimer.cfg`): `next_expiration` is stale
  after a process with timers has exited (`etimer.c:91`, `etimer.h:242`).
* `DuePolled` of `Etimer` (with `FairSpec`): on unix the etimer process is
  polled only if the main loop reads the microsecond clock at a multiple of 1000
  (`clock.c:45`); a due timer may wait for ever.
* `PendingListed` of `Etimer` with `NULL` among `Callers`: a timer set twice outside
  of any process makes the list a cycle (`etimer.c:157`).
* `OnlyCompleteDelivered` of `Sicslowpan` (invariant): bytes are counted, so a
  fragment passed up twice, or fragments of before a restart of the sender, complete a
  packet that has a hole (`sicslowpan.c:409`). `DeliveredWhole` says that these are
  the only ways, for senders that cut packets as `output` does.
* `ReassemblyAccounts` of `Sicslowpan` without its exception for restarts: `input`
  compares the bytes of a context with `frag_size` of the fragment just received, not
  with the length the context was opened with (`sicslowpan.c:1868`). After a restart
  of the sender a tag is used again for a packet of another length, and a context may
  then count more bytes than its packet has.
* An acknowledgement received after `ack_timeout` satisfies neither exit of the
  wait at `radio.c:292`: `unix_transmit` does not return (`Spinning` in `TransmitReturns`).
* `OkDelivered` of `UnixLink` (invariant, `UnixLink.cfg`): an acknowledgement carries a sequence
  number and nothing else, and every node hears it: that of a third node for somebody
  else's frame makes a unicast MAC_TX_OK that the peer never received
  (`csma-output.c:236`; the comment at `csma-output.c:240` says "ack not for us: collision").
* `AdjustedExpiry` of `Etimer` (property, `Etimer.cfg`): a timer put off by two ticks right
  after it was set has its start in the future; the unsigned difference in `timer_expired`
  wraps, and the timer fires at once (`etimer.c:208`, `timer.c:126`). `NeverEarly` allows just that.
* A callback timer that is set again while its TIMER event is queued is called at once
  (`ctimer.c:75`); `EarlyOnlyWhenSetAgain` allows just that.
* The loops of the `coap_remove_observer_by` functions end after the first match, because
  `list_remove` clears the pointer they go on with (`coap-observe.c:116`).

**Fairness.** The main loop calls `process_run` for ever and kernel loops and
threads are finite, hence weak fairness of the kernel's steps and of a thread's
return; nothing is assumed of the calls threads make or of interrupts. In
`Etimer` and `Ctimer` the clock goes on and the etimer process runs when polled
(weak fairness); `TakeEvent` has strong fairness because `process_run` takes an
event after each poll (`EventTaken` of `Process` shows it, for programs that do not
start processes for ever). In
`CsmaOutput` a timer that is set calls back: `CallbackRuns` of `Ctimer`, which is
checked for the nrf port's polling; on unix it may fail (`DuePolled` above). Nothing
is assumed of the radio's answers. In `UnixLink` the main loop goes on (weak fairness
of its steps) and time passes, so that a wait is late in the end (weak fairness of
`unix_process_update(TRUE)`); nothing is assumed of the transmit timers, the medium or
other nodes. In `Coap` each
retransmission timer that stays set runs (weak fairness): `coap_timer_run` serves the
first of a list ordered by time, driven by an event timer; nothing is assumed of
peers. `Sicslowpan` and `NbrTable` state safety only.

## 4. The proofs

Every theorem holds for all values of the constants that satisfy the named
assumptions of the module, which TLC evaluates on each run.

| theorem | statement | from |
|---|---|---|
| `RingBufProofs!TypeCorrect`, `ReadSafe` | `Spec => []TypeOK`, `Spec => []NoOverwrite` | size a power of two, `None` not a value |
| `RingBufProofs!Refinement` | `Spec => FifoSpec` | the same |
| `ProcessProofs!QueueTypes` | the event ring's indices and slots stay in range | a queue of 1 to 128 places |
| `ProcessProofs!EventOrder` | `Spec => FifoSpec` | the same |
| `ProcessProofs!Typed`, `ListKept`, `CurrentKept` | `Spec => []TypeOK`, `[]ListOK`, `[]CurrentOK` | finitely many processes |
| `ProcessProofs!BroadcastReachesAll` | `Spec => []BroadcastComplete` | the same |
| `ProcessProofs!StateKept`, `NotReentered` | `Spec => []StateOK`, `[]NoReentry` | also `~ExitOnStack` |
| `EtimerProofs!TimersTyped`, `PendingKept`, `ServedInTime` | `Spec => []TypeOK`, `[]PendingListed`, `NeverEarly` | `TimerAssumption`, `NULL \notin Callers` |
| `EtimerProofs!CallbackNotLost`, `EarlyExplained` | `CSpec => []CallbackKept`, `EarlyOnlyWhenSetAgain` | `TimerAssumption` |
| `UnixLinkProofs!Served`, `Bounded`, `SentReported` | `Spec => []QueuesServed`, `[]AttemptsBounded`, `ReportsFirst` | `CsmaAssumption` |
| `UnixLinkProofs!Conserved`, `Reported`, `Typed` | `Spec => []PoolsConserved`, `[]ReportedOnce`, `[]TypeOK` | the same |
| `UnixLinkProofs!LinkSends` | `LinkSpec => Spec` of `CsmaOutput` | `LinkAssumption` |
| `UnixLinkProofs!Ready`, `Confirmed`, `Explained` | `LinkSpec => []RadioReady`, `[]ConfirmedDelivered`, `DuplicateExplained` | the same; any number of packets, so seqnos may repeat |
| `UnixLinkProofs!FramesCounted`, `LinkTyped` | `LinkSpec => []CountedOnce`, `[]LinkTypeOK` | the same |
| `SicslowpanProofs!Delivered`, `Accounts` | `LowpanSpec => []DeliveredWhole`, `[]ReassemblyAccounts` | `SicslowpanAssumption` |
| `SicslowpanProofs!AllOrNothing`, `LowpanType` | `LowpanSpec => AllOrNone`, `[]LowpanTypeOK` | the same |
| `SicslowpanProofs!LowpanCorrect` | `LowpanSpec => []LowpanInv`, the inductive invariant of the four above | the same |
| `NbrTableProofs!Typed`, `Owned`, `Kept`, `Locked` | `Spec => []NbrTypeOK`, `[]ItemsOwned`, `[]PointersKept`, `LockedStays` | `NbrAssumption` |
| `CoapProofs!CoapTyped`, `TimersServed` | `Spec => []CoapTypeOK`, `[]TimersServe` | `CoapAssumption` |

Two hypotheses are about use, not size. `~ExitOnStack` leaves out `process_exit` of a
process that is in the middle of a call; with it `StateOK` is false (section 3, known
deviations). `NULL \notin Callers` leaves out timers set outside of any process, which
can make the timer list a cycle. Three parts of `SicslowpanAssumption` are about the
configuration: the uncompressed header is a multiple of 8 bytes long (IPv6 and UDP are
40 and 8), a neighbor's queue is as large as the pool of queue buffers (the default of
`MAX_PACKET_PER_NEIGHBOR`), and there are fewer packets than tags, so that a tag comes
back only with a restart.

*RingBuf.* `NoOverwrite` is not inductive: a side's test of the other side's
pointer is old when it acts. `IInv` says what remains true of it: after the
producer's test the ring is not full, after the consumer's it is not empty,
because the other side can only move in the favourable direction; and the slot
`ringbufindex_get` has handed out is the one just behind `get_ptr`, which only a
producer in a full ring could reach. The refinement maps the ring to the
sequence of its slots (`Contents`) and a get to the moment its value is fixed
(`Obtained`); the lemmas of `LibTheorems` say what one step does to that sequence.

*Lists.* What a walk along the next pointers meets is a recursive function
(`Walk` of `Links`). `Chain(head, nxt, nil, s)` says that the pointers spell the
sequence `s`; `WalkChain` shows that the walk then is that sequence, and the other
`Chain` lemmas what pushing, unlinking and dropping nodes do to it. Induction is not
available for the provers in its usual form; the proofs take the least number for
which a claim fails (`Least`) and derive a contradiction.

*Process.* Only `process_post` and `do_event` touch the ring, whatever the stack
looks like; `QueueSteps` says so, and each is then a step of `EventQueue`.
`KernelInv` gives types to frames and says which frame may lie on which: a thread
frame remembers the process its caller had made current, so `process_current` is
right again after every return; and the process list is a chain. For `StateOK`
and `NoReentry` each frame must also fit the states of the processes (`Fits`: a
process is CALLED exactly while a thread frame of it is on the stack), and the next
process `do_poll` remembers must still be listed. `BroadcastComplete`
depends on what the list looks like from inside a loop that others have changed: an
exited process keeps its old next pointer, and a loop may stand on it. `BcastInv`
says that everybody still due is reachable from where the broadcast goes on, along
listed and stale pointers; reachability is the least set closed under `next`.

*Etimer and Ctimer.* `ListInv`: the timer list is a chain of exactly the timers
that name a live process; a timer that is served or stopped names none. `AgeInv`: the modular
difference `timer_expired` computes is the true age up to whole rounds of the clock, also
for a start in the future; it is the age itself between 0 and one round, and at -1 the 1
that is added makes up for it; hence `NeverEarly`. `CallbackKept` needs that an entry of `ctimer_list`
whose event timer has fired still has its event in the queue, which is lost by no
step since the queue is full only for the poster; `EarlyOnlyWhenSetAgain`
that events in the queue for a timer that was not set since are of an expired timer.

*CsmaOutput.* `IInv` is `QueueTypes /\ QueuesServed /\ Paced`. The bound on tries
needs `Paced`: the tries so far are at most `transmissions * (MAX_BACKOFF + 1) +
collisions`, so each try is paid for by a counter, and the counters of a neighbor
block start at zero when it is taken again. `SoughtFirst` shows that the search by
seqno finds the head of the queue even when a wrapped seqno occurs twice.
`Books` counts the places of the queues: every pool has as many blocks out as there are
places taken, and a report is open for a packet exactly while it has a place, one only.

*UnixLink.* `LinkSends` is a refinement with the identity as its mapping: each
step of the link is a step of the CSMA sender or leaves it alone, so that the theorems
about the sender hold in the link. `LinkInv` has five parts. `RadioPhase`: the radio's
flags in each phase of a transmission (`RadioReady` is one case). `Numbered`: a queued
packet has the seqno it was given, which is not 0. `FramesOK`: what is on its way to the
peer is a packet with its seqno or a frame of another node, and every
acknowledgement on its way to the node, or in its buffer, is for a seqno of a packet the
peer has passed up, also when it is old, or for one that was acknowledged to another. `TableOK`, `SinceOK`: a packet the peer has passed up
is in its table behind none but senders heard since, or has been pushed out.
`CountedOnce` needs to know where the frames of others are: each is counted, or lies in
the receive buffer not counted yet, or is still in the socket, and these together are at
most the frames sent (`UnreadCount` in `UnreadOK`). Overwriting the buffer loses a frame,
which only lowers the sum; the delicate step is the end of a transmission, where the
frame in the buffer may or may not have been counted (`Uncounted`, `Polled`).

*Sicslowpan.* `LowpanInv` follows a packet through the system. `CutOK`: what has been
cut so far is a prefix of the pieces the packet is made of (`Offset`, `Bytes`), all with
one tag; the lemma `Pieces` is the arithmetic, that `fragment_count` pieces start at
multiples of 8, do not overlap and end where the packet ends. `TagsOK`: no two packets
of one run of the sender have the same tag. `OutOK`: while a packet is cut, enough queue
buffers are free for the rest of it, hence `AllOrNone`. `QueueOK`, `PassedOK`: what CSMA
holds was cut, and what the receiver holds was passed up, once unless it was repeated.
`RecvOK` says of each context that its count is the sum of the lengths it holds; sums are
the partial sums of `Total`, and storing or freeing a buffer changes one term
(`TotalChange`). A complete context holds as many bytes as the packet is long; if all of
them are distinct pieces of one packet, a missing one would make the sum smaller
(`TotalLess`), which gives `DeliveredWhole`.

*NbrTable.* `IInv` ties the keys to the tables' maps (`KeysOK`, `MapsOK`), routes and
the parent to items and locks (`LinksOK`) and items to their neighbors (`ItemsOK`).
`LockedStays` follows from it: what RPL's policy may name is neither a next hop nor
the preferred parent, and only those are locked.

*Coap.* `Good(x, m, S)` says of a state of the transactions that all of them are
served but those in the blocks `S`, which the handler at work has still to send or
clear, and that their message ids are different and at most `m`. Opening a transaction
leads from `S = {}` to its block, sending or clearing it back; each handler is put
together from these. The loop over the observers is shown to be defined for any number
of them, and to keep `Good`, again by the least turn that would not.

The inductive invariants were checked with TLC on the runs' instances before they
were proved.

Only model-checked is liveness (`EventTaken`, `PollServed`, `TimerFires`,
`CallbackRuns`, `EventuallyReported`, `TransmitReturns`, `TransactionCloses`,
`RequestFinishes`): it needs ENABLED and fairness, which these provers do not handle.
Every invariant and action property of a passing run is a theorem.

## 5. What is not modelled, and the plan

Not modelled: the MicroPython core, drivers and libraries (third-party, and nearly
all of the repository's lines); header compression and IPv6 packet processing (data
transformation on one buffer, no interleaving); RPL beyond its parents and its
neighbor policy (a distributed protocol of its own); TSCH beyond its use of
`ringbufindex` (no port builds it); logging and formatting; UART and socket I/O.

Left out of the modelled parts: in `Process` event queues of more than 128 places, whose
slot would be computed in an `unsigned char` (`process.c:346`; the default is 32); in
`Etimer` a process that is started again after its exit (`resolv.c:460`); in `UnixLink` a
failure of the framer and restarts (a
sender whose random first seqno equals the remembered one loses its first frame), and in
its run, though not in its proofs, more packets than seqnos; in
`Sicslowpan` timing, packets larger than `uip_buf`, and frames that `output` does not make
(for which `input` may return after `add_fragment` has opened a context, whose
`reassembled_len` is then that of an earlier packet: `sicslowpan.c:1889`, `1908`, `1924`); in `NbrTable` the single entry
without a link address that neighbor discovery may add, the limit on routes,
ranks, and DAGs that are not joined; in `Coap` the blocking API, separate responses,
requests that are not confirmable (the client API sends what it is given; such a
request is sent and its block freed at once), the observing client
(`COAP_OBSERVE_CLIENT` is off), the wrap of the 16-bit message id, the tokens of observers
(a cancelled observation is found by its resource, not by its token), the order of the
timer list, and an application that
takes the last block inside a callback between two blocks of a response.

What could be added, by what it would say about the system: the slots of Python
threads, which hold one event's data each and are overwritten by a second post
(`obj-process.c:208`); `rtimer.c`, whose second `rtimer_set` leaves the hardware
programmed for the first; the command line's line buffer; restarts of a node in
`UnixLink`. The hazards in `PROJECT.json` without a property name the lines.
