# A verification project for the RapidIO subsystem

This directory holds TLA+ models of the RapidIO kernel subsystem (core,
channelized messaging, enumeration, the Tsi721 PCIe-to-RapidIO bridge driver, the mport
character device, Ethernet over RapidIO), the TLC
configurations that check them on small instances, and TLAPS proofs about the
message paths, channels, DMA channel, doorbells, port-writes and the mappings and transfers of the character device. `PROJECT.json` lists the components, the runs, the
mutants that show that each property can fail, the hazards of the code, and the
source lines each definition stands for.

    tlc -workers 2 -config CmTx.cfg CmTx      # one run
    tlapm CmTxProofs.tla                        # the proofs of one component

## 1. Inventory of the system

| Component | State | Operations | Talks to |
|---|---|---|---|
| Channelized messaging, outbound (`rio_cm.c`) | `cm_dev`: `tx_slot`, `tx_ack_slot`, `tx_cnt`, `tx_buf`, `tx_reqs`, under `tx_lock` | `riocm_post_send`, `riocm_queue_req`, `rio_txcq_handler` | outbound mailbox of the mport driver, called with `tx_lock` held; completion callback in interrupt context |
| Channelized messaging, channels (`rio_cm.c`) | `ch_idr` (number to object), per channel: `ref`, `state`, `comp`, `comp_close`, `accept_queue`, `rx_ring`, owner file; `cm_dev.peers` | create, bind, listen, accept, connect, send, receive, close, file release; RX worker (REQ, ACK, NACK, CLOSE, DATA); device and port removal, reboot notifier | threads sleeping on `comp`; the single-threaded `rx_wq`; the remote side |
| Tsi721 outbound mailbox (`tsi721.c`) | `omsg_ring`: `tx_slot`, `wr_count`, `sts_rdptr`, buffers; OBDMAC registers | open, close, `tsi721_add_outb_message`, `tsi721_omsg_handler` | CM and rionet through `mport->outb_msg` |
| Tsi721 inbound mailbox (`tsi721.c`) | `imsg_ring`: `rx_slot`, `fq_wrptr`, `desc_rdptr`, `imq_base` | open, close, `tsi721_add_inb_buffer`, `tsi721_get_inb_message`, `tsi721_imsg_handler` | CM and rionet through `mport->inb_msg` |
| Tsi721 doorbells and port-writes (`tsi721.c`) | `idb_base` queue with read and write pointer; `pw_fifo`, `pw_discard_count` | `tsi721_dbell_handler`, `tsi721_db_dpc`, `tsi721_pw_handler`, `tsi721_pw_dpc` | `mport->dbells`, `rio_inb_pwrite_handler` |
| Tsi721 block DMA (`tsi721_dma.c`) | per channel: free list, queue, `active_tx`, descriptor ring, `wr_count`, `wr_count_next`, `active`; engine registers | the dmaengine operations, interrupt, tasklet, stop and stop-all | dmaengine clients (`rio_mport_cdev.c`), their callbacks |
| Tsi721 mport (`tsi721.c`) | windows, maintenance DMA, `pdev` | maintenance reads and writes, window mapping, probe, remove, shutdown | core, PCI |
| Core (`rio.c`) | `rio_mports`, `rio_nets`, device lists, `rio_scans`, resources of mports, port-write handlers | registration and removal, mailbox and doorbell requests, route operations, DMA glue | everybody |
| Port error management (`rio.c`) | port status of switches | `rio_inb_pwrite_handler`, `rio_clr_err_stopped`, `rio_chk_dev_route` | configuration access over the fabric |
| Enumeration and discovery (`rio-scan.c`) | destination ID table, host device ID locks, component tags, routing tables, the net's device list | `rio_enum_mport`, `rio_enum_peer`, `rio_disc_mport`, `rio_disc_peer` | other hosts, through locks in the devices |
| Mport character device (`rio_mport_cdev.c`) | per file: filters, event FIFO, DMA channel; mappings; transfer requests and their references | ioctls, mmap, read, poll, release; DMA callback; doorbell and port-write callbacks | core, dmaengine |
| Ethernet (`rionet.c`) | active peers, `nact`, TX ring, RX ring | open, close, transmit, doorbell join and leave, device add and remove | mailboxes and doorbells |
| Configuration access, driver binding, sysfs, switch drivers | none, or one register sequence each | | |

### What is hard in it

* Two rings in two drivers describe the same messages, each under its own lock,
  and only counting keeps them together; completions cross the boundary after
  the lock is dropped (outbound path).
* One completion object per channel serves connect, accept and receive; a
  channel is closed by whoever takes its number, while others sleep on it, and
  the packets that name it may be late (channels).
* A DMA transfer is fed to the engine in rounds by whoever finds the engine
  idle: submitters, or a tasklet scheduled by an interrupt; termination and
  release cut in at any point (block DMA).
* Two hosts may enumerate at once, and locks live in the devices being
  enumerated (enumeration).
* Objects are shared by reference counts between ioctls, DMA callbacks and
  file release (character device).

`PROJECT.json` lists the hazards one by one, at the line where each bites, with
the properties that cover it or the reason why none does yet.

### What makes each part correct

* Outbound path: a message accepted is sent once and in order, no unsent buffer
  is overwritten, the count of messages in flight never undercounts, and a full
  ring is always drained.
* Channels: references add up on every path, an object is never used after it is
  freed, close comes to an end, an accept that goes on has a request and a
  receive a packet, the mark of a close is not lost but to an answer under way.
* Block DMA: a descriptor is in one place; the engine executes the entries of
  the active transfer in order; completion means that every entry was executed;
  no wake-up is lost.
* Enumeration and discovery: every device is set up once, every end point
  reaches every other, the kernel's picture of the fabric is right, locks are
  released, hosts do not wait for each other in a circle.
* Inbound mailbox: messages are fetched in the order received, each once; the client's
  record of its buffers agrees with the mailbox; no message waits for the next one.
* rionet: `nact` never falls below the number of active peers, a packet is freed with
  its last copy and not before, a stopped queue is started again.
* Character device: mappings, requests and DMA channels are counted exactly, nothing
  outlives a closed file but what others still use, an address never has two translations.
* Doorbells and port-writes: in order, delivered to at most one queue, none left behind;
  `port_ok` and the lockout of a switch port follow its link; a file with a filter has its
  handler registered.

## 2. The modules

### CmTx: the outbound path

`CmTx.tla` composes `riocm_post_send`, `riocm_queue_req` and `rio_txcq_handler`
with `tsi721_add_outb_message` and `tsi721_omsg_handler`. `tx_slot`,
`tx_ack_slot`, `tx_cnt` and `tx_reqs` are the fields of `cm_dev`; `o_slot`,
`wr_count` and `omq` those of `omsg_ring`. The engine is external: it reads
descriptors from `hwp` on until its counter equals `wr_count`, appends the
descriptor's address to the status FIFO `sts` and raises the DONE bit (`HwStep`),
or stops on a message and raises the ERROR bit (`HwError`).

`riocm_post_send` is atomic (`tx_lock` held throughout, the ring lock inside it).
`tsi721_omsg_handler` has three steps per interrupt vector: the register is read
and cleared (`OmsgIrq`), the FIFO is drained and an abort handled under the ring
lock (`OmsgDrain`), and the callback runs with the lock dropped (`OmsgCall`).
`DoneVec` and `ErrVec` are the vectors: equal in legacy and MSI mode, different
with MSI-X. The mailbox stays open; message contents are model values.

`OutbQueue.tla` is the abstract specification: a bounded FIFO from which the
head is sent, and a backlog of requests that are moved into it as room appears.
`OutbRefined` states that CmTx implements it, under the mapping of the unread
part of the descriptor ring to the queue and of `tx_reqs` to the backlog.

### CmChannel: channel objects

`CmChannel.tla` has one action per critical section of the ioctl operations, of
the RX worker's packet handlers and of the removal callbacks; each thread has a
program counter. `ref`, `state`, `comp`, `closed`, `acceptq` and `rxcnt` are the
fields of `rio_channel`, `idr` is `ch_idr`. `mem` records the life of an object:
allocated, published, `riocm_ch_free` run, memory freed. A channel object is
allocated at most once, so that a stale pointer is told apart from a new object;
numbers are used again. Completion tokens are counted; `complete_all` makes
every later wait succeed. Packets in flight form a queue in mailbox order and
name a number; the remote side (external) sends requests, answers, data and
CLOSE packets, bounded by `MaxPkt`, and answers late.

A number is in the model as it is in the code: packets, closers and threads that
guess it find it as soon as `riocm_ch_alloc` has published it (`rio_cm.c:1400`), before
`kref_init` (1416) has run; such an object is `raw`. The lookups have no guard against it. `Astray` says
that this has led somewhere: an actor has taken a reference to a raw object or closes it,
or a channel that an accept is still making is being closed, or used by another thread that guessed
its number. The step that gets there is a step of the model, for packets, for close
and release, for the removal callbacks and the notifier; what follows
(`kref_init` over a count, a second put of one reference, an access to freed memory) is not,
and the safety properties of channels are claimed up to that state.

### Tsi721Dma: a block DMA channel

`Tsi721Dma.tla` is one channel: descriptors on the free list, prepared, queued
or active; the ring of `BdNum` buffer descriptors and its link; the engine
(`rd`, `hwp`, `run`, `abort`, `int`), the interrupt handler, and the tasklet in
three steps (interrupt register read, error or done part). `sg` is the number of
entries of a descriptor still to be written to the ring, `moved` the number the engine has
executed. `gone` and `corrupt` record that `active_tx` names a descriptor that was
given back and that a descriptor is linked twice: after the second the list
structure is no longer defined. `lock` is there because two calls hold it across
other steps: terminate while it waits for the engine, and a client callback that
asks for the status of its transfer and never returns (`stuck`).

A channel may be released with transfers queued and under way, as `mport_cdev_release_dma` does after a timeout or a
signal. The descriptors are freed then and the list head `queue` is not reset (`tsi721_dma.c:820`): `left` says that it still
names their nodes, and `UseLeftOver` is the first later call that follows them, where the model ends.

### RioScan: enumeration and discovery

`RioScan.tla` has the registers of the devices (lock, ID, component tag,
DISCOVERED bit, routing table) and any number of walkers: hosts, which run
`rio_enum_mport`, and agents, processors without a host ID, which run
`rio_disc_mport`. The recursion of `rio_enum_peer` and `rio_disc_peer` is a stack
of open calls per walker; the hop count is its depth. A maintenance request is
forwarded by the routing tables as they are at that moment (`Path`, `Trip`, `Target`), and
is answered if the tables lead the response back (`Answers`), so that a walk
depends on the routes it has set itself and on those that others change.
The fabric, `wire`, is chosen in the initial state from the constant `Fabrics`.

Steps are split where another walker can come in: the probe of a device, the write to the
lock register, the two reads after it, the set-up, each port, each
lock release and each DISCOVERED mark. Memory may be short and a device may fail to answer (`SetupFail`,
`Probe`). `rio_lock_device` may time out, and its callers go on (`LockTimeout`).
The lock register is hardware and modelled from how the code uses it: the first
writer's value sticks, the owner's second write frees it, 0xffff is free.

### InbMbox and InbClient: the inbound mailbox

`InbMbox.tla` is `imsg_ring`: the free queue (`imfq`, `fq_wrptr`), the descriptor queue with
its HO bits (`desc`, `desc_rdptr`), the queue of client buffers (`imq`, `rx_slot`), and the
engine (external), which takes message memory, writes a message and hands over a descriptor. The driver
keeps no counts, so the module has none either; `nmsg` and `got` number the
messages for the properties. `InbClient.tla` adds the client: `rio_cm`, whose interrupt handler queues
work items that fetch under `rx_lock`, or `rionet`, which fetches in the interrupt
and refills afterwards. Which one is chosen initially. Opening and closing are split where an event can come in between.
`calm` is false in a session with a failed allocation or with an event outside the
time between open and close, where the code does not keep the two records together.

### Rionet

`Rionet.tla` has `nets[].peers`, `active` and `nact`, kept by the bus callbacks and by
inbound doorbells under `nets.lock`, and the transmit side (`tx_skb`, `tx_slot`, `ack_slot`, `tx_cnt`,
the queue state, `skb->users`), under `tx_lock`. A transmission is a step per entry of `active` tested
and a step per copy queued, because doorbells and removals come in between.

The outbound mailbox is the Tsi721's: the engine sends (`HwSend`), passes the link descriptor (`HwLink`) or aborts
(`HwError`), with the messages to send (`left`), the content of the status FIFO as far as the handler tells it apart (`sts`) and the two
interrupt bits. `tsi721_omsg_handler` has two halves, the one under the ring lock that
computes the slot to report, or restarts the engine behind an abort (`OmsgHandler`), and the callback after the unlock
(`OmsgCall`), per vector, so that an older slot may be reported last with MSI-X. The slot is computed from the
number of unsent messages (`DoneSlot`) instead of the addresses in the FIFO; CmTx has that detail.
An open that fails keeps the doorbell range, and a doorbell may find no net device (`DbellStray`). `raced` records a JOIN accepted during
a multicast and a handler that outlives its mailbox.

### MportMap and MportDma: mappings and transfers of the character device

`MportMap.tla` has the mappings (inbound and outbound windows, DMA buffers) with their
reference count, owner and window, their destination or translation (`to`), for an inbound window the window of the hardware
that serves it (`hw`), and the areas of user memory they are mapped into (`vma`: each has an identity, its file and its mapping). `MportDma.tla` extends it with
transfer requests, DMA channels (a file's own, or the shared default), their reference
counts, and opening, closing and removing the device. A call is one step up to the point where it
gives up the lock under which it looked. `own` is a history of how the owner's reference was put;
`oops` records the first use of something given back, after which only the windows are spoken of.

Creating a window includes the tests of the Tsi721. `tsi721_map_outb_win` takes aligned powers of two (`OutbWin`); the character device
compares outbound windows to one destination only. `tsi721_rio_map_inb_mem` (`MapInb`) serves a direct request from a direct window that
holds it, whoever made that, or from the smallest window of the hardware that holds it and overlaps none in use; a request that leads elsewhere
must be a window of the hardware as it is.

### CdevEvents, Doorbell, PortWrite and Events

`CdevEvents.tla` is the event queue of a file: mask, FIFO, read, release. `Doorbell.tla` has the
inbound doorbell queue of the Tsi721 and `tsi721_dbell_handler` in steps (clear the interrupt, read the write pointer,
fetch, call, give back the read pointer), `mport->dbells` and the files' filters. `PortWrite.tla` has
the capture register, `tsi721_pw_handler`, the FIFO and its work item, `rio_inb_pwrite_handler` with route
check, status and lockout, on a chain of switches whose links come and go, and the registration of the
handler by files. `Events.tla` composes the two over the files they share.

## 3. The runs

| Run | Module | Expect | What it shows |
|---|---|---|---|
| CmTx | CmTx | pass | the two rings agree, the window of descriptors ends at the producer and `tx_cnt` is exact at rest (`RingsInStep`); `tx_cnt` never undercounts (`TxCountTracks`); refinement of OutbQueue (`OutbRefined`); a full ring is reported (`FullRingReported`) |
| CmTxVectors | CmTx | pass | with MSI-X and refused messages: the indices of the CM ring stay in range and consistent whatever slot is reported (`CmRingConsistent`) |
| CmServer | MCCmChannel | pass | passive side, with removal of the device and of the port under an accept: references add up and held objects are live (`RefSafety`), `AcceptNonEmpty`, `ReceiveValid` |
| CmClient | MCCmChannel | pass | active side with timeouts, late packets, numbers used again, port removal, shutdown: `RefSafety`; the mark of a close is lost only to an answer whose handler read the state before it (`MarkKept`) |
| CmClose | MCCmChannel | pass | threads, the RX worker (on a CLOSE) and the removal of the port close a channel with up to two sleepers: every close ends without its timeout (`CloseFinishes`) |
| CmAcceptFreed | MCCmChannel | violation | a CLOSE right after the ACK frees the channel that accept is returning |
| Dma | MCTsi721Dma | pass | `OnePlace` per descriptor, entries executed in order (`HwInOrder`), completion is complete (`CompletedWhole`), the tasklet always has a descriptor and a broken free list never belongs to a channel in use (`TaskletContained`), no lost wake-up (`QuietIsEmpty`) |
| Scan | MCRioScan | pass | in every fabric of the family: any-to-any routes (`AnyToAny`); each device set up once, addresses, tables and nextdev right (`PictureRight`); path locked while walking (`PathLocked`), `LocksReleased`, discovery finds the same fabric (`DiscoveryMatches`), both walks end (`WalksEnd`) |
| Inb | MCInbClient | pass | `InboundInOrder`, `BuffersMatched`, `MessagesFetched`, for both clients, with failing allocations and reopening |
| Rionet | Rionet | pass | `NactCovers`, `SkbRefs`, `QueueResumes`, with peers that join, leave, are removed and added, the interface going up, failing to and going down, aborts, and callbacks that come after other messages |
| Cdev | MCMportDma | pass | `MapRefsExact`, `NothingLeftBehind` by a closed file, `DmaCounts`, and no address with two translations (`WindowsDisjoint`), with two files, timeouts and removal |
| Events | Events | pass | `IdbInOrder`, `DeliveredOnce`, `PortPicture`, `PwArmed`, `EventsServed` |

### Bounds

* `CmTx`: a ring of 2 (128 in the driver), counters modulo 5, two messages. Two
  slots reach every relation between the indices: empty, partly filled, full,
  and the wrap of the slot, of the link and of the counter at different moments.
  The proofs remove this bound. `MaxReqs` bounds the backlog. Two vectors are
  all that a mailbox has.
* `CmChannel`: two or three objects, two numbers, two threads, an RX ring of one
  packet, up to three packets from the remote side. Two threads and the worker
  are enough for every pair of operations on one channel to overlap; a third object
  allows the listening channel, an accepted one and a failed allocation. The runs
  divide the operations (`Ops`) between the passive side, the active side, and
  close against sleepers, because their product is out of reach. `CmClose` has one channel, two threads and three packets: enough
  for both threads to sleep on the channel, for a request, an answer or data before the CLOSE, and for any two closers to meet. Chan, Id and
  Thread are symmetric in the runs without liveness properties.
* `Dma`: two descriptors, a ring of two buffer descriptors and the link, lists of
  up to three entries (so that a transfer needs a second round, with the ring full
  and partly filled), counters modulo 6. Ring positions are computed from counters
  modulo `BdNum + 1`, so the instance takes a counter width that 3 divides; with a
  width it does not divide (as in the driver: 129 and 2^32) TLC finds `HwInOrder`
  violated at the wrap, after 2^32 descriptors. The proofs remove the other bounds.

* `Scan`: two switches with three ports, in all wirings of one host, an agent and a
  leaf, and of one host and an agent with up to two links between the switches
  (a redundant link, or a switch that leads nowhere); and two hosts with a leaf, where
  the first host and the trunk take the first port of their switch. Port order
  decides the order of the walk, of the IDs and of the routes, which is why the
  wirings are enumerated. Two switches are enough for a route that is set before, during and
  after the visit of another switch. Seven IDs: the table is not exhausted.
* `Inb`: a ring of three, five messages a session (so that every ring turns more than once), three
  queued work items, the mailbox opened twice. With three entries, empty, partly filled and full
  differ, and so do the walks of rionet that stop, that wrap and that go all the way round.
* `Rionet`: two peers, two packets, a transmit ring of three: a multicast fits, fits partly, and does not fit.
  `nact` is bounded by 3, above the number of peers, because shutdown leaves it too high. One vector, and the interface is
  brought up once; reopening and MSI-X are covered by the proofs. About 1.3 million states.
* `Cdev`: two files, two mappings, two areas, two requests, two channels (any of which others may have taken), windows `<<0, 8>>`
  and `<<4, 4>>` which overlap and are windows of the hardware too, one destination, and at most three objects held at once (`MaxHeld`), which allows a mapping with two
  users, or two mappings and a transfer. All sets but the windows are symmetric. About 1.5 million states. Windows that need a larger one of the hardware, and three files, which a lost race
  for the default channel needs, are covered by the proofs.
* `Events`: two files with a queue of one event, a doorbell queue of three entries (two usable) and
  three doorbells of two values; three switches, a FIFO of two port-writes, five changes of
  links, or two with files that add and remove filters for the middle switch. A
  behaviour has one kind of traffic: the two meet only in the queue of a file. About 1.3 million states.

Deadlock is checked in the `CmTx` runs. The others say CHECK_DEADLOCK FALSE:
objects, messages and packets are bounded, walks end, a DMA channel whose lock is stuck
really does stop, and nothing is said after the use of memory that was given back.

### Fairness

* `CmTx`: the engine makes progress, a raised interrupt is served and its
  handler runs to the end, a sender that saw -EBUSY goes on to queue its request.
  All three are what hardware and an interrupt-driven kernel guarantee; nobody is obliged to send.
* `CmChannel`: a thread, the worker and the removal callbacks continue an operation
  they started as long as it can continue. Starting an operation, a packet from the
  remote side and a timeout are never assumed.
* `RioScan`: a walker that has started goes on, and `rio_lock_device` gives up after its
  attempts. No host need start, no failure need happen.
* `InbClient`: an interrupt that is signalled is served, the work item, the interrupt handler and the opening
  thread run to their ends. Messages need not arrive, allocations need not succeed.
* `Rionet`: the engine goes on or aborts, its interrupt is served and the handler runs to its end, and a transmission that holds
  `tx_lock` ends.
* `Events`: interrupts are delivered and the work queue runs what is scheduled.
* `Tsi721Dma` and `MportDma` are checked for safety only: lost wake-ups are the state property
  `QuietIsEmpty`.

### What the violation shows

`CmAcceptFreed`: the accepting thread holds no reference on the channel it returns, whose number is in the ACK already; see
the finding on `rio_cm.c:1274`.

### Seen while modelling

The properties above hold with these behaviours in the model, and say so where they make an exception for one.

Channelized messaging and the outbound mailbox:
* `tsi721_omsg_handler` drops the ring lock before its callback (`tsi721.c:1881`), and under MSI-X two
  vectors run it. The handler that drained first may call last; `rio_txcq_handler` takes the old slot for a
  whole turn and releases unsent entries. With `DoneVec` and `ErrVec` of `CmTx.cfg` set apart TLC finds `TxCountTracks` violated.
* An ACK that comes after connect has timed out leaves a token on `ch->comp`, which receive takes for a packet (`rio_cm.c:998`): with connect,
  receive and timeouts in `Ops`, `ReceiveValid` is violated.
* A number is published before its object is initialised (`rio_cm.c:1400` and `1416`). A request for a pre-defined number, or a late packet for one that
  is used again, takes a reference that `kref_init` then overwrites, or closes the object; so does a thread or a file that guesses it.
* `riocm_resp_handler` reads the state and exchanges it in two critical sections (`rio_cm.c:513`): a close in between is overwritten, and
  the channel is CONNECTED while it is being closed.
* accept has consumed the token of a request when the allocation of the new channel fails (`rio_cm.c:1231`). The request stays queued, and no accept is
  woken for it.
* A request queued after the last completion is not promoted until new traffic completes (`rio_cm.c:812`).
* `riocm_ch_listen` puts a channel it did not find (`rio_cm.c:1310`).
* `riocm_remove_mport` may close the channel that an accept under way has just made; when accept then does not find the device it
  puts the same reference again (`rio_cm.c:1283`). The properties stop there (`Astray`).
* Inbound events can come before `rx_wq` is created and after it is destroyed.

Block DMA:
* `active_tx` is not cleared where a transfer is given back by `tsi721_dma_tx_err` outside the tasklet
  (`tsi721_dma.c:579`); the queue is not served afterwards. A tasklet after a termination links a descriptor twice.
* The error callback runs under `bdma_chan->lock` (`tsi721_dma.c:401`), and `dma_xfer_callback` asks for its
  status, which takes that lock. An aborted transfer is completed without its callback (`tsi721_dma.c:664`).
* A channel released while the engine runs keeps its ring and cannot be used again. One released with transfers queued keeps a list head that points
  into freed memory (`tsi721_dma.c:820`): the next submission links its descriptor behind a freed one.

Enumeration:
* `rio_clear_locks` marks devices DISCOVERED also after a retreat (`rio-scan.c:232`), and an agent may start in the middle of the other host's enumeration.
* A host that reads 0xffff from a lock released between its write and its read retreats although no higher
  host is there (`rio-scan.c:572`); a retreat that releases the nearest switch first can leave locks behind that a waiting
  host then spins on. That is why no property claims that some host always wins.
* With three hosts the register is read twice for one decision (`rio-scan.c:572`): a host releases a switch between another's write and
  first read, and a third with a lower ID locks it before the second read. The one in the middle then sets the switch up without its lock.
* An agent may be given the number that is the host ID of another host. Its lock request then releases a lock of that host
  (`rio_lock_device`); it takes two hosts and an agent. The proof of `PathLocked` met both; the run has neither.

rionet and the inbound mailbox:
* When rionet walks its whole ring in one event it refills nothing; the next message finds no buffer and
  `tsi721_get_inb_message` searches for ever. After a failed allocation the entries of the two rings no
  longer correspond, and the skb passed up is not the one that was filled. Events before `rionet_rx_fill`, or after
  `rionet_close` has freed the skbs, use stale entries.
* `nact` is not lowered by close and shutdown, so that multicasts need more room than they use and, in the end, never fit;
  the WARN at `rionet.c:717` can be reached. A JOIN during a multicast overfills the ring ("BUG! Tx Ring full").
  `active[i]` is read twice, and may be NULL the second time.
* A full ring that completes in one event, or is aborted, reports `ack_slot`, releases nothing and the queue stays stopped (`RingStuck`). With MSI-X an older
  slot that is reported last takes the ring for a whole turn and frees packets that are not sent. Close does not
  free the packets in the ring; a packet to an address that is not of RapidIO is not freed; a failed open keeps the doorbell range, no
  later open succeeds, and a doorbell after the removal of the net device uses it.

Character device:
* RIO_FREE_DMA does not clear `filp`: a second free, or closing the file, puts the mapping again while others use it. A fault while copying the
  result of RIO_MAP_INBOUND puts a window that existed before. Removal puts every mapping, and the owner
  closes later. mmap uses a mapping after unlocking.
* The default channel is chosen under the file's lock (`rio_mport_cdev.c:678`); it may be gone, or not counted yet, when it is shared.
  With three files more goes wrong: a second file that also found no default replaces the first one's channel although a third
  shares it already, or sets the count of users back to one. The proof of `DmaCounts` met this first; no run with two files does. `SetDefault` and
  `ShareDefault` record the lost race in `oops`.
* Closing a file stops waiting for transfers after a timeout or a signal, and frees what the callback uses.
* The list of inbound windows can hold windows that overlap: two files pass the test before either is listed (`rio_mport_cdev.c:1434`), or
  RIO_MAP_ANY_ADDR names reserved memory; `tsi721_rio_map_inb_mem` then serves the second from the window of the first (`tsi721.c:1198`). The address has
  one translation all the same. `tsi721_rio_unmap_inb_mem` looks a window up by its local memory: with the same memory behind two windows, one of them leading elsewhere, it
  closes the wrong one (`oops` is then "memory mapped twice").
* The overlap test of the map functions is off by one byte; it is exact only because outbound windows are aligned.
* DMA buffers in reserved memory are checked, and created after the lock is given up. `do_dma_request` returns without a put
  when the scatter list cannot be mapped (not in the model).

Doorbells and port-writes:
* `tsi721_dbell_handler` walks `mport->dbells` without `mport->lock`, and does not reset `found` between doorbells (`tsi721.c:457`): it can call
  through a freed entry or the list head. The model stops there (`wild`).
* Closing a file leaves its doorbell ranges and the port-write handler with its count behind; added again, the handler delivers every
  port-write twice. A RIO_DISABLE_PORTWRITE_RANGE without a matching filter, with no filter listed, lowers the enumeration's
  `pwe_refcnt` or removes another file's handler.
* A lockout that could not be written is not written again while `port_ok` stays as it is.
* `mport_read` of more events than there are waits in a loop until they come.

## 4. The proofs

The theorems are about the specifications the runs check, for every value of the constants that the named
assumptions of the modules allow. Proof modules extend the module they are about; the
four that are about rings start with a section on indices modulo a ring size.

| Module | Theorem | Property | For every |
|---|---|---|---|
| CmTxProofs | `TxCountSafe`, `TxRingsInStep` | `TxCountTracks`, `RingsInStep` | ring size, counter width, set of messages and senders |
| | `CmRingSafe` | `CmRingConsistent` | and every interrupt mode, with refused messages |
| | `OutbImplemented` | `OutbRefined` | the refinement of OutbQueue |
| CmChannelProofs | `RefCounted` | `RefSafety` | set of channels, numbers, threads, files; ring size; number of packets; where accept is not mixed with connect |
| | `RefCountedWhileQueued` | `RefSafety` | and every set of operations, where accept finds the request it takes |
| | `AcceptFindsRequest`, `ReceiveFindsBuffer` | `AcceptNonEmpty`, `ReceiveValid` | the same constants, without connect |
| | `MarkLostToAnswer` | `MarkKept` (an action property) | every set of operations, where accept finds the request it takes |
| RionetProofs | `NactSafe`, `SkbSafe` | `NactCovers`, `SkbRefs` | finite set of devices, set of packets, ring size, every interrupt mode |
| InbProofs | `InboundOrdered` | `InboundInOrder` | ring size above one, both clients |
| | `BuffersStayMatched` | `BuffersMatched` | and a pool of more than twice as many buffers |
| EventsProofs | `DoorbellsInOrder`, `DoorbellsOnce` | `IdbInOrder`, `DeliveredOnce` | queue size above one, finite set of files |
| | `PortWritesArmed`, `PortsPictured` | `PwArmed`, `PortPicture` | finite set of files; chain of switches, depth of the FIFO |
| MportProofs | `MapRefsExactHolds`, `NothingLeftBehindHolds` | `MapRefsExact`, `NothingLeftBehind` | finite set of files, mappings, areas and requests |
| | `DmaCountsHold` | `DmaCounts` | set of channels |
| | `WindowsDisjointHolds` | `WindowsDisjoint` | set of windows and of windows of the hardware, destinations |
| Tsi721DmaProofs | `OnePlaceHolds`, `TaskletContainedHolds`, `QuietIsEmptyHolds` | `OnePlace`, `TaskletContained`, `QuietIsEmpty` | finite set of descriptors, ring size, counter width, length of lists |
| | `HwInOrderHolds`, `CompletedWholeHolds` | `HwInOrder`, `CompletedWhole` | the same, where the ring divides the counter width or the count has not wrapped |
| RioScanProofs | `PathLockedHolds` | `PathLocked` | finite set of devices, wiring, number of ports, IDs; where no two walkers use one ID and no two reads of a lock disagree |
| | `HostsLocked` | `PathLocked` | set of hosts with different IDs, without agents; where the reads agree |
| | `OneHostLocked` | `PathLocked` | one host, with any number of agents; no condition |
| | `LocksReleasedHolds` | `LocksReleased` | the same constants; no condition |
| | `PictureRightHolds` | `PictureRight` | and fabrics that are one network (`OneNetwork`) |
| | `AnyToAnyHolds` | `AnyToAny` | and fabrics that are one network (`OneNetwork`) |

`TxInductive`, `TokensInductive`, `RionetInductive`, `InbInductive`, `BuffersInductive`, `EventsInductive`, `MportInvariant`, `DmaInvariant`, `RingInvariant` and `WalkInductive` state the inductive invariants.
Each was checked by TLC as an invariant of the runs' instances before it was proved. The assumptions on constants are sizes
the driver has (a queue of at least two entries, a ring of more than one; memory for both rings of buffers and one more, so
that an allocation which succeeds returns memory that is not in use; windows that are not empty; at least one port of a switch, links that join two plugs, fewer devices than IDs) and that threads, files and
devices are finitely many, so that they can be counted.

### Outbound path (CmTxProofs)

All but `CmRingSafe` assume `OneVector` (legacy or MSI interrupts) and `~Rejects` (no message is refused by the
mailbox), under which the run CmTx works too; without the first `TxCountTracks`
fails (the first item of "Seen while modelling"), without the second `RingsAgree`, a part of `RingsInStep`.

`TxCountTracks` is not inductive: the number of entries a callback releases is
fixed when the status FIFO is drained, one or more steps before it happens. `IInv` adds
that the FIFO holds consecutive descriptors ending just behind the engine
(`FifoConsecutive`), that unsent entries and entries reported by a handler in flight
together are counted in `tx_cnt`, with one to spare while the FIFO holds a message
(`Accounted`), that an aborted engine stands on a message until the handler that read the error bit
restarts it (`HaltedOnMessage`), and that the window of unread
descriptors ends at the producer (`WindowEndsAtProducer`). Arithmetic facts about the two rings
are lemmas of their own; then there is one lemma per action.

The refinement maps the state to the queue of messages the engine has not sent, and the backlog. Its steps are the
steps of OutbQueue or leave it alone: what has to be shown is that the descriptors in the window carry the messages in the order of their
posts (which is where the invariant comes in: a post writes outside the window), and that releasing entries changes nothing
that is still to be sent.

### Channels (CmChannelProofs)

`RefAccounting` counts actors by where they are, so the invariant `IInv` says who may be where: what an actor's place says of its own
variables (`Local`), that a number names a channel in use and that one actor closes a channel (`Owners`), that a channel under construction belongs to
one actor, is untouched until it is initialised and, until an accepted channel is connected, is held by nobody but the RX worker, looking at it (`News`), that held channels are live (`Held`), and the count
(`Counts`), in which the initial reference belongs to the number or to the closing actor. A step either moves one actor between places of
the same kind, takes or puts one reference, makes a channel, or takes numbers out; there is a lemma for each of these, and
every action is an instance of one of them.

Nothing keeps a packet, a closer or a guessing thread from a channel under construction. `Sound` is `IInv` up to the state in which one got
there (`Astray`), and every action is shown to preserve it: an action either keeps `IInv` or leads to `Astray`. The removal of the port under an accept is one of these
cases, and needs no premise of its own any more.

One exception is left. A
late answer to connect leaves a token that can lead accept past an empty queue: `RefCountedWhileQueued` has `[]AcceptNonEmpty` as a premise where
a process mixes connect and accept. `RefCounted` has no such premise where it does not.

`AcceptNonEmpty` and `ReceiveValid` need the tokens counted: in a LISTEN channel the threads that have taken a token, the ones that will take
a request and the tokens left are together no more than the requests queued (`AcceptOK`), and likewise for a CONNECTED channel and its ring
(`ReceiveOK`); a channel not yet in use has no token and no user, and `complete_all` comes after the mark (`MarkOK`, `PlaceOK`). A thread that
took a token of `complete_all` sees the mark, because without connect no answer is written over it. This holds without connect (`ServersOnly`); with it, receive can take
a stray token, as "Seen while modelling" says.

`MarkKept` follows from `Sound` for every set of operations: the only step that writes another state over the mark is the exchange of `riocm_resp_handler`, which
is inside its reference, so the channel is live (`Held`).

### rionet, inbound mailbox, events

* `NactCovers` is inductive together with what the stages of a multicast have left to send; `SkbRefs` speaks of the moments between
  transmissions, and `IInv` says what is true during one: copies made and copies still to be made make up the references. None of this
  depends on which slot a handler reports. With one vector `ReportsSent` adds that what is unsent is counted, and that a slot on its way to the callback
  reports nothing unsent (`Behind`), whatever is queued, sent or aborted after the handler's unlock.
* `InboundInOrder` follows from four pointers that turn in step (`PointersInStep`), the free list and the descriptors being the two
  parts of one ring (`DescriptorsInOrder`, `BuffersApart`).
* `BuffersMatched` (`BufInv`) needs the shape of the queue of client buffers: empty for some entries from `rx_slot` on and full behind (`Vacant`), so that the
  search of `tsi721_get_inb_message` ends at the oldest buffer and the next one is never refused. For channelized messaging the number of
  these entries is `rx_slots`, the record holds the same buffers and no buffer twice (`CmInv`); failed allocations are included. For rionet the two rings agree entry by entry
  but for a gap behind the walk, which the refill closes again, or the mailbox went dry after a whole turn (`RionetInv`); that is so in a
  session without failed allocations or events outside of it, which is what the property says too.
* The doorbell queue is in order because what lies behind the handler, before it and free adds up to the ring (`Enclosed`, `Contents`);
  `DeliveredOnce` needs that a range is registered before it is listed, also in the halves of the calls (`RangeInv`); `PwArmed` counts the files that are between adding
  and enabling (`RegInv`); and `PortPicture` says of every port with a wrong picture that a port-write of it is on its way
  through the register, the FIFO or the handler (`PictureInv`). The proof also showed that the picture is right for a switch that does not answer, which the property had excepted.

### Character device (MportProofs)

`IInv` is the conjunction of the types, `WindowsDisjoint` with the alignment of outbound windows (`Apart`) and, as long as nothing was used after it was given back, four counts. A request is
held by its callback and by the list or the one call that waits (`ReqsHeld`). A mapping is held by its owner, who is open, by areas of files
that are not being closed, and by requests (`MapsHeld`). The DMA state of a file counts its requests and its calls, and is there whenever a request
points to it (`FilesCounted`). The default channel has a user, is counted, or is about to be counted from one with a single user, and a file about to
make its channel the default is the only user of that (`DefaultInv`, `ChannelsOwned`). An owner that unmapped a window is forgotten,
which is why such a mapping is never put twice while the device is there. Lemmas say what each kind of step does to each count
(a request put, a callback, an area more or less, the owner's reference given up), and there is one lemma per group of actions. That
`Clash` leaves no overlap of outbound windows needs their alignment: it lets windows pass that have a single byte in common. Inbound windows need nothing but the test
of the driver, whatever the list under `buf_mutex` said before.

### DMA channel (Tsi721DmaProofs)

There are two inductive invariants. `ListInv` is about the lists and who will look at them next. At most one of the engine, the interrupt
register and the tasklet has something to do, and whenever one has, a transfer is active (`EngineState`); an abort and a DONE are
never both to be served; what a channel that is gone, or not yet allocated, looks like (`GoneState`, `UnusedState`: after a release under a running engine only the
engine moves); and the places of descriptors are disjoint and cover all (`Places`). A queue that a release left behind stays recorded (`left`), and no step but
`UseLeftOver` goes into it. The callers of `tsi721_advance_work` reach it in the
same few situations, so its outcomes (nothing to start, a start that is refused, a start) are lemmas used by all of them.

`RingInv` is about the ring. The entries the engine has not moved lie in order from its place, and the write count is the read count
plus that many (`RingFilled`, `Counters`), so a round fills the free part exactly and the count after it is that of the whole list. It
holds under `[]Unwrapped`: either `BdNum + 1` divides the width of the counters, or the write count has not come within a ring of the wrap. In the driver
(129 and 2^32) the second is the case: the theorems hold until the count is 2^32 - 129 without a reset in between.

The proof showed two things about the code. `tsi721_issue_pending` never finds anything to start: submission, the tasklet and the abort
always have started what was queued already (`IssueIdle`). And the write count never rests on the link descriptor.

### Enumeration (RioScanProofs)

A request of the walk carries RIO_ANY_DESTID and a hop count, and nothing in the code remembers where it will arrive. `WalkInv` says where: the open calls of
a walking host follow the wiring, each switch having been entered by the plug that the port before it leads to (`Follows`, with the first call at the host's own plug); each open switch routes
RIO_ANY_DESTID to the port the call is at; its lock holds the host's ID (`Owns`); and the steps of `rio_enum_peer` between the probe and the
set-up know what the lock of the device in front of them may be (`Approaches`). Along such calls `Path` visits the open switches in
order (`TripAlong`), so the device that answers is the one behind the current port (`HereIsBeyond`). A device in the list is locked, and
a device that is locked by the host is not set up again, so the calls are never deeper than there are switches and a hop count never
comes near the 0xff of an end point (`StackBound`). IDs are given in order and never run out (`Numbered`).

With several walkers it takes two premises. `IdsApart`: no other walker has the ID of a walking host. `ReadsAgree`: when `rio_enum_peer` reads the lock register for the
second time, its value has not become lower than the host's ID since the first. TLC finds both true in every state of the run Scan.
Neither holds in every fabric, as "Seen while modelling" says. With one host neither is needed: `OneHostLocked` derives them, because agents wait for the
DISCOVERED mark that a walking host has not set, and no lock but the host's own is taken (`Quiet`, part of `SoloInv`).

What is said after the walk is said of a host that walked alone (`Solo`), and rests on the tree the walk builds (`TreeInv`). The list of devices is a
tree along the wiring, each device being entered by the plug of a port of an earlier switch, one hop further (`Grown`); the core's copies of the tables are the
tables (`Tables`); an ID that has been given leads from each switch above the device that has it to the port it hangs below, and the host's ID leads
back by the port of entry (`Opened`, `Routed`, `Counted`, `Fresh`; together `Kernel`). A switch has no ID before it is left: it gets the first of
the IDs given behind it, shared with the device that has it, or one of its own if nothing was found there, which is why `Routed` speaks of open and of closed switches. From `Kernel` a request for a listed ID visits
the switches of the tree and stops at the device with that hop count, and its answer comes back (`SettledReached`).

`LocksReleased` then needs that nothing outside the list holds the host's lock (`Held`), that `rio_update_route_tables` leaves these ways alone,
and that `rio_clear_locks` writes each lock once, as a second write would take it again (`Apart`, `Left`). `PictureRight` needs `SeenInv`: the component tag of a device is its place in the list (`Tagged`), so that a device met again over a
redundant link is found by it, and the ports a call has passed are all in the picture (`Explored`, and `Pictured` at the end).
A list with all its ports in the picture is closed under links (`ListClosed`), so in one network it has every device that is plugged
in; `OneNetwork` says of the fabrics that they are one network, and is evaluated by TLC for the family of the run.

`AnyToAny` needs the way down as well. `Spread`, part of `Kernel`: what a switch leads down by a port is taken further by the device found
behind that port (`Leading`), a switch that shares an ID with an end point leads to that end point (`Named`), and when a call returns, the IDs given since are
behind the port it returns to (`Found`). During the walk a closed switch does not know the IDs given later; `rio_update_route_tables` sends each of them up
(`Joined`, established by `UpdateJoined`), so at the end each switch leads an ID down or sends it by its port of entry. A request then goes up to the first switch
that leads its ID down and from there only down (`ParentLeads`, `StepDown`, `StepUp`). Each switch on its way has a higher `Weight` than the one before
(`Rising`), so it passes none twice and arrives before its hop count runs out (`Arrives`).

### Only model-checked

Liveness (`FullRingReported`, `CloseFinishes`, `MessagesFetched`, `QueueResumes`, `EventsServed`, `WalksEnd`), which is out of the prover's reach; and
of RioScan what agents find (`DiscoveryMatches`). Its proof would need a second inductive invariant, for the walk that follows the tables
instead of writing them: which ports an agent has already seen routed, and that it comes by every port of the host's tree. `AnyToAny` and
`PictureRight`, which are proved, give the tables it reads; the walk itself is checked in every fabric of the family and by `DiscEnds`.

## 5. What is not modelled, and the plan

Every safety property of the other modules that a run checks is proved, under the conditions section 4 names.

Not modelled, in components that otherwise are: core registration and removal of mports, nets and scans; `rio_clr_err_stopped` and the clearing
of error registers; the lifetimes of peers and CM devices in CmChannel; in the character device, maintenance
access, creation and deletion of devices, and sending doorbells; outbound doorbells and the other interrupt sources of the Tsi721.

Left out for good: register layouts and hardware initialisation (probe, window
setup), the register sequences of the switch drivers beyond their effect on a
routing table, sysfs formatting, configuration access wrappers, argument copying of ioctls.
