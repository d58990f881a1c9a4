# TLA+ models of the LinkedSemi BLE SDK

This directory holds TLA+ models of parts of the SDK under `src/dev`, the TLC
runs that check them on small instances and proofs, checked by TLAPS, of what
holds for every instance. Paths below are relative to `src/dev`.

## 1. The system

The SDK runs on a small single-core chip. One main loop (`ble_loop`) runs the
callbacks of a BLE stack that is delivered as a binary; interrupts come between
any two instructions unless they are masked; there are no threads. What the
repository holds as source, and where its state and its difficulties are:

| part | source | state | operations | hard because |
|---|---|---|---|---|
| tinyfs | `module/tinyfs` | flash sections, page cache, tree of nodes, list and byte count per section, free count | write, delete, mkdir, delete directory, write through, init | log with garbage collection, power loss at any program or erase, counts kept by hand |
| UART driver | `peripheral/src/uart.c` | handle state, remaining counts, FCR, interrupt enables | `HAL_UART_Transmit_IT`, `_Receive_IT`, `HAL_UARTx_IRQHandler`, the polling `HAL_UART_Transmit`, `_Receive` | main program and interrupt share the handle and FCR; flags are latched |
| UART over DMA | `peripheral/src/uart_dma.c` | MCR.DMAEN, the channels | `HAL_UART_Transmit_DMA`, `_Receive_DMA`, their callbacks | a transfer ends by three interrupts in a row; DMAEN is one bit for both directions |
| DMA controller | `peripheral/src/dmac.c` | channel descriptors, completion interrupts | start, abort, handler | callbacks start channels again while the handler goes through those done |
| SysTick timeouts | `soc/arm_cm/systick.c` | 24-bit counter | `systick_poll_timeout` | the counter wraps, and is read at any distance |
| BLE to UART bridge | `examples/ble/ble_uart_server` | receive buffer, two busy marks, MTU, connection | stack events, timer, UART callbacks | interrupt fills the buffer the timer empties; marks set here are reset by events that may not come |
| AT command bridge | `examples/ble/ble_at_proj` | receive buffer, one posted message, modes, tables of links, two timers | `at_recv`, the loop's handlers, timers, stack events | one buffer and one message between interrupt, posts, timers and mode changes |
| multi-link bridges | `examples/ble/ble_master_slave_combine`, `ble_uart_server_mult_link` | receiver of frames, buffers per link both ways, marks per link | UART callbacks, timer, stack events | what the timer has looked at changes before it masks interrupts; places are reused by other links |
| I2C driver | `peripheral/src/lsi2c.c` | handle state, remaining counts | master transfers, polled and by interrupt | first byte against the handler, reload, error path |
| SPI driver | `peripheral/src/lsspi.c` | handle state, lock | full and half duplex, polled and by interrupt | lock and state set in different orders |
| SSI, ADC, timers, PDM, AES, QSPI, RTC, watchdog, TRNG, cache | `peripheral/src` | registers | configuration, one-step handlers | little beside the hardware |
| static buffers, lists, request queue | `module/static_buffer`, `module/common` | indices, reference counts, a queue | alloc/release, put/get, start/end | used by the binary stack only, but for the linked buffer |
| BLE stack | binary; `module/ble/ll_buf.c` sizes its buffers | | | not in the repository |
| SoC support, boot loader | `soc`, `bootloader` | registers | start-up, sleep | effects are the chip's |
| other examples | `examples` | none of their own to speak of | start-up, services | |

How they interact: tinyfs calls the flash driver (program a page, erase a
section, read) and the linked buffer for its pool of node handles. The bridges
call the UART driver from callbacks of the stack and timers; the UART driver calls
them back from the interrupt. The UART driver calls the DMA controller, which
calls it back from its own interrupt, and waits through `systick_poll_timeout`
when it polls. Timers and the stack call the bridges from `ble_loop`.

What makes each part correct:

* tinyfs: after any sequence of calls the records read back as written; the log
  never runs into its own oldest section; every call returns; after a power cut
  the volume holds a state the application has been told of, or the one it was
  about to be told of.
* UART: the bytes handed over leave once each and in order; a transfer ends, and
  only after its last byte has left; the last byte of a reception raises the interrupt.
* timeouts: no wait ends before its time, and none hangs on.
* bridges: bytes are neither lost, doubled nor reordered once they are in a
  buffer, and reach the link or the host they are for; commands are answered; all
  directions keep going.

`PROJECT.json` lists every component with its status, and under `hazards` what in
this code is hard to test, at its line, with the properties that cover it.

## 2. Modules

| module | models | 
|---|---|
| `TinyFsLayout` | the volume: sections, pages, the kinds of log entries, their lengths and images, section heads |
| `TinyFs` | tinyfs while power lasts |
| `TinyFsRecovery` | `TinyFs` and a power cut between any two of its steps, then `tinyfs_init`; instantiates `TinyStore` |
| `TinyStore` | abstract: a store of records and directories, and what a reset may bring back |
| `TinyFs_proof`, `TinyFsLog_proof` | theorems about `TinyFs`: the cache, lists, tree and pool; the log and the collector |
| `TinyFsRecovery_proof`, `TinyFsReset_proof` | theorems about `TinyFsRecovery`: the log and what it says at every step; the reset, and the implementation of `TinyStore` |
| `MCTinyFs`, `MCTinyFsRecovery` | instances for TLC |
| `Uart` | the interrupt-driven UART driver, its registers and FIFOs |
| `UartDma` | `Uart` with transfers by DMA beside it |
| `SysTick` | `systick_poll_timeout` |
| `UartPolled` | `UartDma` and the calls that poll, with `SysTick`; instantiates `UartLine` |
| `UartLine` | abstract: bytes accepted, sent and reported as sent |
| `Uart_proof` | theorems about the driver, all its ways to transfer together, about the waits, and that it implements `UartLine` |
| `MCUart` | instances for TLC |
| `UartServer`, `UartServer_proof` | the bridge; theorems |
| `AtServer`, `MCAtServer`, `AtServer_proof` | the AT command bridge; instance; theorems |
| `MultiLink`, `MCMultiLink`, `MultiLink_proof` | the multi-link bridges; instance; theorems |

Definitions whose names end in `_Something` directly before a definition
(`PadLen_NotCounted` before `PadLen`) are plausible slips in that definition; no
specification uses them. Each is paired in `PROJECT.json` with the property that
detects it.

### tinyfs

*State.* `flash` is the volume, one cell per unit of a few bytes. A cell holds a
unit of a log entry's image, a section head, `Erased`, or `Garbage` when it is
programmed twice. The CRC is not computed: a reader that finds cells
`<<n,1>> ... <<n,k>>` in a row has found node `n` with a good CRC. `buf` and
`bufAddr` are `tinyfs_write_cache.c`; `avail`, `headSec`, `tailSec`, `tailCount`,
`free`, `dirIdMax` are `tinyfs_env`; `list` and `size` are `tinyfs_list[]`. The
tree in RAM is the set of nodes on the lists, their parents being part of the nodes.

*Actions.* An API call (`Write`, `DelRecord`, `Mkdir`, `DelDir`) checks its
arguments, does what it does before `garbage_collect_try`, and leaves the entries
it will append in `todo`. From there on its steps follow the code between any two
accesses of the flash:

    idle -> gc -> (copy -> emit)* -> erase -> gc ... -> emit -> idle

`CollectStart`/`EntryStart` are the two outcomes of the loop condition of
`garbage_collect_try`; `NodeCopy`, `DataCopy`, `NodeCopied` are `node_copy` with
the piecewise `record_data_copy`; `CollectSync` the write-through, `CollectErase`
the erase and the move of the head; `SectionHeadWrite` and `NodeWrite` are one
round each of `node_write`, which splits an entry at page and section ends;
`EntryDone` brings the lists up to date. `Sync` is `tinyfs_write_through`. The
order of siblings in a recursive delete is left open (any order with a directory
after what it holds); calls come one at a time, since the mutexes of the code are
empty and its users call it from one context.

*Recovery.* `Reset` may come between any two steps. `Load` is `tinyfs_init`:
valid sections, `find_head_tail_section` with its 16-bit difference, the walk of
`nodes_info_load` with its page skipping, `node_metadata_parse[]` with what
overrides what, and the free count. The history variables `vol`, `kept`, `risk`
are what `TinyStore` speaks of. `torn` is set, for good, when a reset cut a record so that
its metadata is found and its data is not: the code trusts `data_length` without
the data, so nothing is promised from there on and the runs stop (see 6).

### UART

`HAL_UART_Transmit_IT` in the main program is split at every access to what the
handler also accesses: the read and the write of FCR, ICR, IER, the read and the
write of `XferCount`, TBR, the last test. The handler runs to its end before the
main program goes on; the hardware (`Load`, `Sent`, `Arrive`) goes on during both.
Called from a callback, the same function is one step. `txPtr` and the bytes in
the FIFO are pairs of transfer and index, so that order and loss show. Registers
are modelled from how the driver uses them: IER and IDR enable and disable; TXS
and TC stay raised until cleared through ICR, which is why the driver clears them
before it starts; RXRD, which it never clears, stands while the FIFO holds what
the trigger level asks for.

What the application does is the constant `Uses`: one record for each way of using
the UART, chosen at the start. `txFromIsr` starts transfers in callbacks and not in
the main program, `dma` by DMA, `polled` by the polling calls, and `rxSizes` are the
receptions it asks for.

`UartDma` adds MCR.DMAEN and two channels. The controller moves a byte whenever the
UART has room or data; the channel's interrupt (`DmaIsrEnter`, one `DmaIsr` for each
channel done) enables TXS, whose branch of the UART's handler enables TC, whose
branch calls the application, which may start either channel or neither.
`HAL_UART_Transmit_IT` resets DMAEN and may be used between two transfers by DMA;
the application does not mix the two kinds at a time, which the driver does not
look after (a hazard).

`SysTick` follows `systick_poll_timeout` from read to read of the counter. `now`
counts the ticks since `start` and exists for the properties; the code sees it
through `Counter` only. `turns` and `bottom` are `i` and `wrap_stat`. Each step takes
1 to `Stride` ticks. `UartPolled` waits so for every byte and for the last to leave;
a call that gives up ends its transfer there, and what is in the FIFO leaves all the
same (`GiveUp` of `UartLine`).

### Bridge

Callbacks run one after the other (`pc`), in steps wherever the UART interrupt
can come in between; the timer callback masks it. `buffer` holds the numbers of
the bytes received. Of the driver it uses what the `Uart` runs show. The stack is
external: it connects, changes the MTU, writes, and reports each notification.

### AT command bridge

`at_recv` is one step of the receive interrupt per token (`AT+`, a command, its end,
or a byte of data), which may come between any two steps of a callback in the loop
(`pc`). What `func_post` queues is a count: every entry is a pointer to the one
message `at_cmd_event`, so an entry is whatever `event` and `cmd` say when the loop
runs it (`RunCmd`, `RunStartTimer`, `RunData`). Commands that change this state are
modelled (`+++`, `SEND`, `AUTO`), with the two ways into transparent mode, the two
timers and the tables of links of each role. A callback is split where the interrupt may
come between two of its accesses to what both use:

| callback | steps |
|---|---|
| `at_cmd_recv_cb`, data | `RunData`; `DataSend`, the critical section; `DataEnd` |
| a command that changes the mode | `RunCmd`; `Answer`, which clears the buffer |
| `transparent_timer_handler` | `TransparentTimer` looks at `data_sending`; `PostData` |
| `exit_trans_mode_timer_handler` | `ExitTransTimer`; `Exit` leaves the mode; `Clear` |
| `dev_connected_fun` | `Connect` enters the link in its table; `ChangeMode` after the answer; `Enter` or `Clear` |
| `dev_disconnected_fun` | `Disconnect`, with the test of the one-slot transmission; `Drop`; `Abort` |

`SendDone` is the stack's report: a write of the master that failed is not marked done.
Tokens carry the number they came with.

### Multi-link bridges

`RxIdle`, `RxSync`, `RxPayload` are the three cases of `HAL_UART_RxCpltCallback`, unit
by unit of the frames the host sends. The timer's callback is the list `Steps`: hand
over what is held for each link, then look for a waiting buffer and start the UART,
for each role. `Look` and `UartTx` are two steps, since the interrupt is masked only
from the second on. So are `PeerData`, which looks at the buffer and fills it, and
`PeerStart`, the critical section after it: the end of a transmission may come in between.
The other callbacks are one step (`Idle`). A frame leaves in two parts; `mixed` notes that the buffer of the
frame on the UART was written over (a pattern) or was not waiting (`SentWaiting`).
`Pattern` is the message at a link's change. Places keep what was held for a lost
link and hand it to the next one, as the code does.

## 3. Runs

| run | instance | checks |
|---|---|---|
| `pages` | 3 sections of 3 pages of 4 units, 2 names, entries of 4, 2 and 1 units | the log wraps and is collected repeatedly; entries end at every offset of a page and section |
| `dirs` | pages of one unit, 2 directories, 3 nodes | recursive deletes |
| `recovery` | heads of 3 units, 2 names, one value, until the log has wrapped | power cut at every step; implements `TinyStore` |
| `recovery_dirs` | pages of 6 units, a directory, one name, two values | the same for removals of several entries |
| `uart` | FIFOs of 2, transfers of 1, 2 and 4, receptions of 1 to 3; a counter of 6 ticks, timeouts of less than a turn, about one, and more | the four uses: main program against handler, callbacks, DMA, polling; implements `UartLine` |
| `server` | buffer of 3, MTU 1 and 2, 5 bytes, 2 connections | both directions |
| `at` | buffer of 8, 2 connections, 3 lines out of six | modes, commands and bursts over the buffer's size |
| `multilink` | 2 places for slaves and 1 for a master, frames of 2 and 3 units | the one way, the other, and both at once |
| `overfull`, `uart_shared`, `at_command`, `multilink_again` | | see 5 |

*What the properties say.* `CacheAligned`: cache and tail never drift apart.
`FreeExact`: the running free count is what a count of the volume gives, after
every step. `RoomLeft`, `ErasedAhead`: the log never reaches its oldest section,
and everything it is going to program is erased. `LiveReadable`: every live node
reads back as written, at every step of a collection, wherever its units are.
`ListsExact`: each live node is on one list, and the sizes add up. `WipeAsserted`:
the first assertion of `garbage_collect_try`; the second, `RoundsAsserted`, is what
`overfull` refutes (in `pages` no call collects a second section, so it says nothing
there). `TreeSound`: no node
without its directory. `CallsReturn`: every call returns. `Recovered`: all of this
holds again after `tinyfs_init`. `CopyFits`: what is left to copy of the section being
collected fits what is free, also when collections before it were cut short. `SyncedResetExact`: a reset between calls with an
empty cache changes nothing. `StoreSpec`: what a reset brings back is a state since
the last write-through, a record being replaced possibly missing, directories never
separated from their parents' removal.

`LineSpec`: bytes leave once each and in order, before the transfer ends.
`EndedWhenSent`: when the application is told that a transfer has ended, nothing of
it is left in the FIFO or the shift register, whichever of the three kinds it was,
though TXS and TC are latched and three interrupts end a transfer by DMA.
`TransmitEnds`: every transfer ends. `RxServed`: a reception whose last byte is in
the FIFO has its interrupt. `DmaServed`: a channel that is done has its interrupt,
also when a callback started it again. `NotEarly`: no wait gives up before its
timeout since the call's start, also when the wait begins long after the start.
`WaitBounded`: no wait lasts two turns longer than its timeout.

`InOrder`: bytes are notified once each and in order, none lost that was stored.
`NtfFits`: no notification exceeds what the link in force carries. `BusyMeansBusy`:
the busy mark stands only while a transfer runs that will clear it. `Drained`,
`WritesAccepted`: both directions keep going.

`NotSentTwice`: what is in the AT bridge's buffer came after all that has been
handed to the stack. `OneLinkOnly`: transparent mode ends with the second link.
Only while a new connection is being answered may it still stand.
`SlotEnds`: a one-slot transmission ends once its bytes have come. `CommandKept`
(refuted): a command that was taken is still posted or being answered.

`Conserved`: bytes stored for a place are handed over or held, in order. `InStep`: the
receiver is where the host is in its frame. `FrameWhole`: the parts of a frame are of
one message. `SentOnce`: no waiting message was sent before. `SentWaiting` (refuted):
what the UART sends was waiting. `Forwarded`: both directions empty when the peers pause; a
message counts as gone also when another was written over it or the end of a frame sent
again (`SentWaiting`) cleared it.

*Bounds.* `CountMax` stops new calls once the log has opened so many sections: 3 or
4 with 3 sections, so every section is collected and reused. Three sections is the
least the collector works with (tail, head, one buffer). Pages of 4 and 6 units with
heads of 1 and 3 make entries start at every offset and cross pages and sections.
The names of `recovery` and the values of `recovery_dirs` are symmetric: nothing in
the code or the properties orders
or distinguishes them.
`CountRange` stands for 2^16 and is not reached. `MaxTx`, `maxRx`, `MaxLinks` bound
transfers, bytes and connections: three transfers chain twice, five bytes fill the
FIFO of two and the buffer of three while one is being emptied. `Half` = 3 and
`Stride` = 2 make every distance between two reads short of half a turn, as the code
needs it, occur at every place of the counter; the timeouts of 2, 5 and 9 ticks end
in the turn of the start, the next and the one after. Two polling calls with two bytes
each begin a wait after the timeout of the wait before was used up in part. The AT
bridge's buffer of 8 with `DownLevel` 4 is overrun by a line of five while data are being
sent; three lines are enough to enter a mode, leave it and go on. Two connections are
the least that end transparent mode. Both are links as master, whose writes may fail: what a
slave does is the case in which none does. `Budgets` of `multilink` splits the traffic in
four; each by itself is small, all at once were not finished in the time of a run. A place
given to another link while bytes are held in it is not among them, but is covered by
`BytesConserved` (§4).
Runs that stop at their bounds are checked without deadlock.

*Fairness.* tinyfs: weak fairness of `Work`, the steps of a call: nothing but power
loss stops it. UART: weak fairness of the main program inside the call, the handlers, the
transmitter, the DMA controller and a call that polls; not of arrivals. Bridge: a
callback runs to its end (weak); the timer, which starts itself again, the stack's
report of a notification, and the end-of-transfer interrupt, which stays pending
while masked, are strongly fair, since other callbacks come in between. AT bridge:
a callback runs to its end (weak, `Continue`), and the loop runs what is posted (`Run`, strong,
since other callbacks come in between); nothing is assumed of the two timers. Multi-link bridge: the
callbacks under way, the timer and the UART are weakly fair, the stack's reports strongly: links change in
between. None is assumed of the peer, the host, new calls or arriving bytes.

## 4. Proofs

Each theorem holds for every value of the constants its module's assumptions allow.

| module | theorems | besides them the inductive invariant says |
|---|---|---|
| `TinyFs_proof` | `TypeCorrect`, `CacheAlignment`, `Invariance`; `ListsAreExact` (`ListsExact`), `TreeIsSound` (`TreeSound`), `WipeFindsRoom` (`WipeAsserted`) | `PageAddress`, `CallShape`; `NoRepeat`, `Single`, `Sound`; `Pool` |
| `TinyFsLog_proof` | `FreeIsExact` (`FreeExact`), `LogMeetsErased` (`ErasedAhead`), `LiveIsReadable` (`LiveReadable`), `RoomIsKept` (`RoomLeft`), `RoundsAreEnough` (`RoundsAsserted`), `AmpleLog` | `ErasedPlaces`, `Clean`, `Untouched`, `Phases`, `Kept`, `Emitting`, `Original`; `Room` |
| `TinyFsRecovery_proof`, `TinyFsReset_proof` | `RecoveryInvariance`, `VolumeIsRecovered` (`Recovered`), `TreeIsRecovered`, `SyncedResetIsExact` (`SyncedResetExact`), `StoreIsImplemented` (`StoreSpec`) | `Shape`: `Kinds`, `Follows`, `Padded`, `PagesUsed`, `Begins`, `Headed`, `Counted`, `HeaderAhead`; `Meaning`: `Recoverable`, `LiveIs`, `VolIs`, `KeptIs` and four more |
| `Uart_proof` | `UartTypes` (`TypeOK`), `Ended` (`EndedWhenSent`), `ChannelsServed` (`DmaServed`), `ReceptionServed` (`RxServed`), `TimeoutNotEarly` (`NotEarly`), `WaitsEnd` (`WaitBounded`), `ThreeWaysOneLine` (`LineSpec`) | `UInv`; `Counted`, `OneEnd`; `BInv`; `LineInv` |
| `UartServer_proof` | `TypeCorrect`, `BytesInOrder` (`InOrder`), `NotificationFits` (`NtfFits`), `BusyWhileTransmitting` (`BusyMeansBusy`) | `Masking`, `Room`, `MtuKnown` |
| `AtServer_proof` | `TypeCorrect`, `InOrderOnce` (`NotSentTwice`), `TransparentMeansOneLink` (`OneLinkOnly`) | `Fresh`, `Texts`, `LinkThere`, `OneLink` |
| `MultiLink_proof` | `TypeCorrect`, `BytesConserved` (`Conserved`), `ReceiverInStep` (`InStep`), `FramesWhole` (`FrameWhole`), `MessagesOnce` (`SentOnce`) | `HeaderKnown`, `SeenPlace`, `Numbered` |

*tinyfs.* `TypeOK` and `CacheAligned` are not inductive. `PageAddress` says that `bufAddr`
is the start of a page, without which a read through the cache may run out of it;
`CallShape` that a call in progress has an entry, that the entry being written is the
one asked for or a live one being copied, and that what is left to copy fits a
section, without which the copied data have no type. There is one lemma per action
(`...Inv`), over lemmas about the operators (`SectionOffsetType`, `ReadNodeType`,
`ListDelType`, `WipeCountType`, ...). At the bottom stand facts about `%` with a
variable modulus that the solver does not find (`ModUnique`, `PageStep`): the page of
the tail, and so `CacheAligned` over `NodeWrite`, depends on them. The assumptions say:
at least 3 sections, sections a whole number of pages, a head that fits a page,
entries that fit a section. The last is left to the callers by the code, which checks
no length.

*tinyfs: lists and tree.* These theorems assume nothing beyond the above. `ListsExact`
needs that a list holds no entry twice (`NoRepeat`: else taking one off would leave its
double) and that two live entries never have the same node (`Single`), a copy under way
included. For `TreeSound` the invariant speaks of the tree as it will be: `Sound` says of
the live nodes, the copied one and what the call has still to do that the entry to be
added clashes with nothing, and that the entries to be removed are a subtree in an order
in which a directory comes after what it holds. That a subtree never holds its own root
follows from `Younger`: an id is given out once, so a directory's is greater than its
parent's; `Below` is the least closed set, and the ids from d on are a closed set. What a list
adds up to (`Total`) and what `section_wipe_check` adds up are recursive functions; what they
say is proved by looking at the least length at which it would fail (`Least`).

*tinyfs: the log.* `Stored` says that the first units of a node are in the log from a
place on, over the ends of pages and sections, in flash or in the cache; `Kept` says so of
every live node, `Emitting` of as much of the entry under way as has been written, and that
what is to follow is what follows; `Original` that what is copied is still in the head
section, where `source` says. `ErasedPlaces` says what is erased by section and offset, so
that programming a page (`CacheProgramLog`) and erasing a section (`CollectEraseLog`)
are about places and not about addresses. Three theorems follow: `FreeIsExact`,
`LogMeetsErased` and, with a lemma about the one read over the end of a section,
`LiveIsReadable`. They assume `Roomy`, that the volume exceeds what a collection keeps free by any
node (three sections with one of them buffering, `tinyfs.c:28`, `tinyfs_config.h:7`, since a
node fits a section); that `RoomLeft` holds; and `NoWrap`, that `tail_count` has not come to
the end of its 16 bits, where the order of the sections breaks (a hazard).

*tinyfs: room.* `overfull` shows that `RoundsAsserted` depends on how full the
volume is, and no condition for it is stated in the code. `Ample(M)` is one: a section
holds the nodes of the pool and one more, none longer than M, and two pages, and
two sections are no buffering sections. With `TINYFS_NODE_MAX` at its default of 18
(`tinyfs_config.h:5`), sections of 4 KiB and pages of 256 bytes it allows nodes of up to 188
bytes, with the 63 of examples that set `SDK_USER_TINYFS_NODE_MAX` to 50 up to 55. `Pool`
bounds the live nodes by the pool, so no list adds up to more than a section less two pages
and a node (`Sizes`). `Room` then says for each phase of a call how much is free at least:
a collection costs what the head section's list holds and less than a page on top, and
the erase gives back a section, which is enough for the entry and for the next collection. So
at most one section is collected for an entry (`RoundsAreEnough`), `free_bytes` never runs below
zero (`RoomIsKept`), and the three theorems of the log hold without assuming `RoomLeft`
(`AmpleLog`). `Room` and `Pool` were checked by TLC before the proof on the instance of
`overfull` with sections of 14 units, pages of 2 and one node, which is ample for M = 4; the
runs are not ample, and check `RoomLeft` beyond the theorem.
`WipeFindsRoom` needs much less, that the pool and one node more fit the volume: the sum over
the sections from the head on of what is dead is at least what the volume has beside them.

*tinyfs: power loss.* `RInv` is the invariant of the log (`IInv`, `TInv`, `LInv`) and of two more
things. `Shape` says what the log looks like unit by unit: each unit belongs to a node or is
padding to the end of a page (`Kinds`, `Follows`, `Padded`), no page of it is empty, every node
that begins is there as a whole, or cut by an earlier reset within its metadata and so never
taken for a node, or under way (`Begins`), and each section says in its head where the first
node begins in it and what its count is (`Headed`). `Meaning` says what the log means: the live
nodes are the entries that no later one overrides (`LiveIs`, `VolIs`), and whatever part of the
cache has reached flash, what that part of the log says is a store `TinyStore` allows
(`Recoverable`: for every prefix of the log from what is in flash on). The last is what
makes a step from the cache to flash harmless; it is kept by `EntryDone`, because an entry
takes away what it overrides only together with what is added to `kept`, and by
`CollectErase`, because every entry of the head section has been copied or overridden by then.

Of the reset (`TinyFsReset_proof`): what is in flash of the log is a prefix of it, since the cache
is its last page (`FlashPrefix`). The 16-bit differences of the counts find head and tail
(`Countable`), and the walk of `nodes_info_load`, with its skipping of pages and of what no CRC
confirms, finds in each section the nodes that begin there and are in flash (`SectionFound`), and at
most one more, the last, of which the metadata are in flash and the data are not:
`torn'` just then (`TornIs`). What no later entry overrides is then on the lists as it was in the prefix,
and the tail is where the log in flash ends, at the start of a page or in a section of its
own, so `RInv` holds again (`ResetStep`); `Recoverable` makes the step one of `TinyStore`. The
recursion of the walk, of the filter (`Among`) and of the search for the head are recursive functions; what they
give is proved by the least length at which it would fail, as before.

The five theorems hold for every geometry and as many resets and calls as one likes, between any two
steps, under these conditions: `Roomy` as above; `Countable`, that 2^16 (`CountRange`) is at least
twice the number of sections, so that a distance of two counts survives `int16_t`; `MetaInPage`,
that the metadata of the first node of a section (9 bytes) are in its first page with the
section's head (6 bytes); and `Steady` at every step: until a record is torn, `tail_count` has not come to
the end of its range (`NoWrap`), and what the collector has left to copy fits what is free
(`CopyFits`). The last follows from `Room` while power lasts (`AmpleLog`), but not from
`Ample` once power may be cut: each collection that is cut short leaves padding and perhaps the
beginning of a copy behind, and
`garbage_collect_try` begins again with less than it had, by more than the two pages `Ample`
allows for when this happens often. Which condition on the volume is enough is not settled; so it is a
condition of the theorems, and an invariant the `recovery` run checks (`NoWrap` holds in it by `CountMax`;
both recovery instances meet the conditions on the constants).
Without it the copy could run into the head, and nothing could be said of what is read
then. A reset that tears a record ends what is promised (§6).

*UART driver.* The theorems are about `PolledSpec`, in which all the ways to transfer share
registers and wire, and assume `Prompt` (see §5) and `UsesApart`: the application uses
interrupts, DMA or polling at a time, and receives more than one byte only where
transfers start in callbacks. Without the second half `RxServed` is false
(`uart_shared`). None of the four properties is inductive. For `EndedWhenSent` one needs
that TC is never raised before the last byte: `Filling` (by interrupts) and `Moving` (by DMA)
say that while there is more to fill in and the FIFO is empty, a byte is being shifted out
and TXS is raised or being served, so that a prompt handler comes before the byte has left;
`Starting` says the same of the steps of `HAL_UART_Transmit_IT` before it hands over its
byte, where an interrupt may come between any two accesses; `Raised` that the flags a
handler has read still stand when it uses them. For `RxServed` one needs `TriggerRight`: the
trigger level fits what is still to be received, also in the middle of the read-modify-write
of FCR. `Rest`, `Kept`, `OneWay` and `OneCall` say what a way to transfer leaves alone while
another is at work. There is one lemma for each action and conjunct it can disturb. The
assumption on the constants is that a count holds more than the trigger level.

*Timeouts.* `NotEarly` is about the end only. `Counted` adds what is true on the way:
as many turns have passed as have been counted off, and half a turn more when the
counter was last seen in its lower half. A step of the count then moves to the next
turn (`Above`, `CounterPlace`), and the loop for the end starts after `Rounds` whole
turns, from where a value of the counter no higher than `end_tick` means that `timeout` ticks
have passed (`LinearEnd`). No bound on the distance between two reads is used: a read
that comes too late makes a wait longer and never shorter.

`WaitBounded` does need such bounds: `EndSeen` (§5), and `ReadOften`, that three reads
come in a turn of the counter. Without the second it is false: with a `Half` and a
`Stride` of 3 and a timeout of 1 TLC finds a wait that lasts up to a stride longer than two turns, since
half a turn may pass between the read that sees the counter low and the one that sees it
reloaded. `BInv` says in which turn the one counted from began, no later than the one after
the call was entered, and where the counter is between two reads.

*UART line.* `ThreeWaysOneLine` is the refinement the `uart` run checks, for all constants.
`LineInv` links the driver and the abstract line: what has been asked for is what has left,
what is in the shift register (one byte at most), what is in the FIFO and what the handle
has still to send, in that order. Each step of the three ways then takes the same byte from one to the
next, and is a step of `UartLine` or a stutter. That a transfer ends after its last byte has left
comes from the invariant behind `Ended`.

*Bridge.* `Masking` (the interrupt is masked exactly while the timer works on the
buffer) is why `InOrder` survives the interrupt; `Room` and `MtuKnown` carry the length
of a notification from the step that computes it to the step that sends it.
`BusyWhileTransmitting` assumes that no write is empty.

*AT bridge.* `Fresh` says of every element of the buffer that it is younger than the
one before it and the first younger than all that was sent: the interrupt appends the
youngest, and every path that empties or hands over the buffer keeps it. `OneLink`
extends `OneLinkOnly` to the way into transparent mode (`Single`): between `ChangeMode`, which
found one link, and `Enter` no other callback runs.

*Multi-link bridge.* `InStep` needs `HeaderKnown` (how much of the header has come in each
state); `FrameWhole` and `SentOnce` need `Numbered` (messages are numbered in the order
they are written) and each other, and hold although `SentWaiting` does not.

Only model-checked: liveness (`CallsReturn`, `TransmitEnds`, `Drained`, `WritesAccepted`,
`SlotEnds`, `Forwarded`), which this prover does not reach; `CopyFits`; `RoomLeft` and what rests on it
where the volume is not ample; the UART where `Prompt` or `UsesApart` does not hold;
`WaitBounded` where reads are further apart than `ReadOften` says.

## 5. Disagreements found

1. `overfull`. `section_wipe_check` counts the sections to collect until their dead
   bytes exceed the size asked for (`tinyfs.c:966-980`); the loop of
   `garbage_collect_try` goes on until `free_bytes` exceeds that size, the live bytes of
   the head section and a buffering section (989), and the padding of each round is
   charged on top. With two live records in sections of two pages the loop outruns the
   count it asserts (993); without assertions it moves live data from section to
   section. `Ample` (§4) is a condition under which it cannot.
2. `uart_shared`. The read-modify-write of FCR in `HAL_UART_Transmit_IT`
   (`uart.c:185`) can undo the trigger level `UART_Receive_IT` has just lowered; the
   end of the reception is not reported. Receptions of one byte, and transfers
   started only in callbacks, are not affected: these are uses of `uart`.
3. `at_command`. Leaving transparent mode leaves its flush timer running. When it
   expires it overwrites the one message the loop is to run (`at_recv_cmd.c:82`); a
   command in it is neither run nor answered.
4. `multilink_again`. The timer looks for a waiting buffer before it masks interrupts
   (`ble_master_slave_combine/main.c:446`): a frame that has just been sent is sent
   again, without its sync byte.

Where a property holds only on a condition, the condition is a constant of the runs:

* `Prompt`: the UART's and DMA's interrupts are served within the time of a byte.
  Without it `EndedWhenSent` fails: TC is latched when the shift register runs empty
  before a late TXS interrupt is served, is not cleared before it is enabled
  (`uart.c:282`), and ends the transfer with bytes in the FIFO. So no property here
  would catch that hazard.
* `WriteLens` without 0: an empty write marks the bridge busy for good
  (`ble_uart_server/main.c:193-196`).
* `DoneWhenLost`: the stack reports what it was given when the link is lost. If not,
  nothing resets the mark, and `Drained` and `Forwarded` fail.
* `WritesFail` FALSE: a write of the master that fails is never marked done. The AT bridge
  is run with writes that fail.
* `ReadOften`: three times the distance of two reads of the counter is at most a turn
  and a tick, as in the `uart` run. Otherwise a wait may be up to a stride longer than `WaitBounded` says.
* `EndSeen`: `end_tick` is not so near zero that the counter reloads between two reads;
  otherwise the wait goes on for a turn or more and `WaitBounded` fails. That a wait
  may be up to a turn late in any case is in its bound: `end` counts turns from the
  reload before `start`, `wrapping_check` counts them from `start`.

## 6. Limits

* The runs of `recovery` end at a reset that tears a record. What `nodes_info_load`
  makes of its `data_length` afterwards, and what is then written, is listed as a hazard;
  `SyncedResetExact` shows only which resets cannot tear one.
* The offset of the first node in a section head written while a copied record runs
  over into the section (`HeadNodeOffset` with data still unread) is not told from a
  wrong one by the recovery runs at these bounds.
* `dir_tree_build`, which links the loaded nodes into the tree, is not modelled.
* The wrap of `loop_count` after 65536 turns is beyond the bounds.
* UART: baud rate detection, line errors and a second context that transmits. An
  application that mixes transfers by DMA and by interrupt at a time, or polling with
  either, is left out: the driver does not guard against the first and the
  documentation forbids the second (`getting_started/peripherals/uart.rst`).
* A timeout whose product with the clock overflows 32 bits is left to the callers. A call of
  n bytes waits up to n times: `WaitBounded` is about one wait.
* DMA: ping-pong descriptors and `HAL_DMA_Channel_Abort`; the UART uses neither.
* AT bridge: a link lost between the last byte of a one-slot transmission and its
  handling, after which nothing ends the mode, is excluded from `SlotEnds` (`lost`); so is
  `AT+SEND` with length 0. What commands answer is left out.
* Multi-link bridges: a failed header is searched for a sync byte, and `InStep` says
  nothing from there on. `FrameWhole` says nothing of a frame a message of a link's change is
  written over, nor `SentOnce` of one sent again; the second is `SentWaiting`. Discovery of
  the peer's service is taken as done.
* Start-up, advertising, scanning and the CCCD storage of all bridges.

## 7. Not modelled

* I2C: what a step of its handler does depends on flags (TXE, TC, TCR, NACKF) whose
  setting and clearing the source does not describe; a model would be of a guessed
  chip. The same holds for SPI, whose handlers are driven by RXNE/TXE around `lock` and
  `State`; hazards that can be read off the source are listed in `PROJECT.json`.
* `fifo.c`, `linked_async_framework.c` and the list it uses are called by the binary stack
  only, so the inputs they meet are not known.
* SSI repeats the UART's transmit path. ADC, timers, PDM, AES, QSPI, RTC, watchdog,
  TRNG and cache configure registers and have handlers of one step.
* SoC support and the boot loader are sequences of register writes whose effect is the
  chip's, run once. The rest of the tree is vendored (CMSIS), generated or data.
* The other examples add services and advertising to calls of the stack.

What could be modelled next, given the inputs: `dir_tree_build`, the wrap of
`loop_count`, and what follows a torn record (tinyfs); ping-pong descriptors with the
PDM driver. What could be proved next: `CountMax` against `NoWrap`; a condition on a volume under
which `CopyFits` holds whenever power is cut.
