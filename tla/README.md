# TLA+ models of the XD-B8600 Linux port

This directory models the parts of the Casio EX-word XD-B8600 Linux port whose
behaviour depends on interleavings, failures and long sequences of events.
TLC checks the models on small instances; TLAPS proves the main invariants for
every value of the parameters.

## 1. Inventory

| Component | State | Operations | What is hard | What makes it correct |
|---|---|---|---|---|
| Keypad driver `kernel/overlay/drivers/input/keyboard/exword-keypad.c` | keys down, mouse mode, sources of each pointer button, touch debounce/latch/repeat counters, LCD row, applied mode | one scan thread: sample, report edges, repeat motion, poll the pad, apply `subpad_mode`, paint a row | two sources of one button, keys shared by two devices, mode writes from sysfs at any moment, ADC timeouts | nothing stays pressed, one Return per press, a latched zone is stable, modes take effect |
| Framebuffer driver `drivers/video/fbdev/exwordfb.c` | draw generation, refresh work, PRDR | draw, queue, coalesce, refresh, pan (drain) | worker against drawers, PRDR shared with the sub-LCD | the last draw is presented, panning leaves no refresh behind |
| Touch helper `x11/apps/subpad-mouse.c` | flock, register snapshot, clock gate, ADC, X buttons, signal mask | setup, sample, emit, shutdown | stop signals during MMIO, ADC timeouts, kill -9, a second instance | exit 0 means the hardware is as it was found |
| Sub-LCD tool `x11/apps/sublcd-test.c` | flock, console mode, PRDR | quiet console, drain framebuffer, draw, restore | main LCD refresh during drawing | no main refresh while it draws |
| Touch diagnostics `x11/apps/touchdiag.c` | flock, pin snapshot, clock gate, ADC | pen, clock-on, adc-once | started beside the helper, ADC that does not finish, kill -9 | a reported restore is one; nothing is moved under its own conversion |
| X start gate `x11/apps/x11-start-gate.c`, `startx`, `Xfbdev`, `subpad-awesome` | process states, readiness pipe, X socket | stop startx, fork waiter, exec server, continue startx | every error path after SIGSTOP, server death, signals | startx is always continued |
| Terminal wrapper `x11/config/usr/bin/xterm` | lock directory, pid file | take, recover, run, clean up | test and removal of a stale lock are separate commands | at most one terminal, lock released |
| Loader `loader/src/main.c`, `payload/pack_payload.py` | staging memory, payload header and status, armed flag, key state | inspect (load and verify), arm, execute, return | files cut short by a broken transfer, header ranges, keys held down | only a whole build runs, nothing outside the pool is written, three presses |
| `tools/libexword` buffers and OBEX (`databuffer.c`, `obex.c`) | head/data/tail room, rx/tx buffers, transfer units, sequence number, object in progress | build, fragment, send, verify sequence, read, parse, report progress | coalesced, split and empty transfers, answers after a timeout, unplugging | buffers stay accounted for, packets fit, a success means the whole file |
| `tools/libexword` sessions and tool (`exword.c`, `content.c`, `main.c`, `util.c`) | connection, disconnect reason, claim on the interface; path shown, authentication, event flag | connect, disconnect, poll, every request, every command and add-on operation | one call of several refused, lost answers, internal server errors, unplugging at any point | the device is where the prompt says, locked, with its add-ons; sessions do not leak into each other |
| `tools/libexword/src/crypt.c` | none | byte transformations | - | not modelled: fixed table arithmetic |
| Desktop (`exdesk.c`, `snake.c`, `holostatus.c`, `file-lite.c`) | windows, game board, notification file | event loops | read-then-unlink of notifications | Snake's rules |
| Boot scripts, vendored kernel files, build scripts, experiments | - | - | - | not modelled |

Interactions: the keypad driver and the touch helper both produce pointer
buttons; sub-LCD drawing, the keypad driver and the framebuffer driver share
the PRDR port; the touch helper and the sub-LCD tool serialise on the flock
`/tmp/exword-subpad.lock`; `startx` starts the Xfbdev wrapper, which draws the
pad and then becomes the gate and the X server; `subpad-awesome` supervises the
touch helper and the window manager. `touchdiag` shares the flock, the pins, the
clock gate and the ADC with the touch helper. The transfer tool calls the
session library, which calls the packet layer; what it stores on a medium is what
the loader later opens.

## 2. Modules

| Module | Models | Proofs |
|---|---|---|
| `ExwordKeypad` (`MCExwordKeypad`) | the keypad, pointer and sub-pad driver | `ExwordKeypadProofs` |
| `XtermLock` (`MCXtermLock`) | the xterm wrapper's lock | `XtermLockProofs` |
| `ExwordFb` | the framebuffer driver | `SublcdTestProofs` |
| `SublcdTest` (extends `ExwordFb`) | the sub-LCD tool beside the framebuffer driver | `SublcdTestProofs` |
| `SubpadMouse` | the userspace touch helper | `TouchProofs` |
| `TouchDiag` (extends `SubpadMouse`) | the diagnostics tool beside the helper | `TouchProofs` |
| `Session` | startx, start gate, X server, window-manager script | `SessionProofs` |
| `DataBuffer` | the transfer library's byte buffer, as operators | `ObexProofs` |
| `Obex` (extends `DataBuffer`; `MCObex`) | the packet layer and a device | `ObexProofs`, `ObexTransferProofs` |
| `FileTransfer` | what a request promises its caller; `Obex` implements it | `ObexTransferProofs` |
| `Loader` | the payload loader and the files it reads | `ExwordToolProofs` |
| `ExwordTool` (extends `Loader`) | sessions, prompt and add-on operations of the transfer tool, then the loader | `ExwordToolProofs` |

A definition whose comment begins with "Seeded fault" is not part of a model: it is
a plausible mistake in the action it precedes, and putting it in that action's
place makes the property it is aimed at fail. Every checked property has one.

### ExwordKeypad

One thread (`exword_scan_thread`) and userspace writing `subpad_mode`. `pc` is
the thread's position in a pass: `scan` (`ReadState`, the matrix is sampled),
`keys` (one step per table entry whose state changed: `KeyEdge`, split into
`ToggleKey`, `MouseKey`, `EnterKey`, `ReportKey`), `motion`, `touch`
(`TouchIdle` or `exword_touch_poll`), `turn` (`exword_service_subpad_mode`) and
`draw` (`exword_sublcd_draw_next_row`). A write of `subpad_mode` may fall
between any two. `down`, `button_sources`, `touch_*`, `sublcd_*`,
`applied_mode` carry the names of the driver's statics without their
`exword_` prefix; `kbd` and `btn` are what the input core believes is pressed;
`taps`, `boot_enter` and `clicks` (the keys pressed as pointer buttons and held
since) are history. Left out: failures of probe, the clock
gate register and the ADC register sequence (a sample is a zone, no contact, or a
timeout), and pixel contents.

### XtermLock

One process per launch; each shell command that touches the file system or a
process is a step. Left out: reuse of process ids, a partial write of the pid
file, a second signal while cleanup runs.

### ExwordFb and SublcdTest

Each drawing operation is three steps (change pixels, count itself in
`refresh_generation`, schedule the work item), the worker four
(`WorkStart`, `ReadGeneration`, `CheckGeneration`, `WorkRefresh`), a pan two.
A frame is the number of drawing operations in it, so "the panel shows the
framebuffer" is `shown = content`. The work item follows the Linux rules the
driver relies on (external): scheduling a pending item is a no-op, a running item can be queued
again, and an item being cancelled cannot. The transfer runs with interrupts
off and is one step; the DMA is assumed to finish within its poll limit.

`SublcdTest` adds runs of the tool: lock, console check, `KDSETMODE`, pan, second
check, `lcd_command` in four steps (read port, line low, command, line high),
row data, and the three places where the console is restored. Port R is the set of
lines that are high. The seven commands that select a row stand as one.

### SubpadMouse

`main` of the helper with its locals. The pins are two fields: `route` (set by
`normal_rest` and `read_pen`) and `mux` (changed by `read_adc`, put back
only by `restore_pfc`). The ADC may be busy when the helper starts, may not finish,
and may settle later. Stop signals are steps that are disabled while
the code blocks them. X may refuse a request or die at any time. Several runs are
started independently; each may be killed.

### TouchDiag

The commands of the tool that write: `pen`, `clock-on` and `adc-once`, one step per
register sequence, on the hardware variables and the lock of `SubpadMouse`. The
helper's actions run unchanged between its steps. `force_rest_high` moves the pins
without a look at the ADC, unlike the helper; that is why `HelperMovesWhenIdle`
speaks of the helper's steps only. `info`, `pfc` and `clock` read and print and are left out.

### Session

`startx` up to its exit, the wrapper and gate up to `exec`, the notifier and the
waiter with the pipe's write ends, the server (external: listens, becomes
ready, may die), the window-manager script, and the helper reduced to what
`SubpadMouse` checks of it (it exits when stopped or without X). SIGTERM may reach
`startx` - pending while it is stopped, deferred while a foreground command
runs, at once when the polling is over and the window manager not yet started - and
the script. `kill -0` is taken to be accurate; killing the gate or the
waiter from outside is not modelled, and would leave `startx` stopped.

### DataBuffer, Obex and FileTransfer

`DataBuffer` holds one operator per function of `databuffer.c`, on a record of the
block size, the three counters and the bytes in use. `buf_reserve_*` and the
copy that follows it at every call are `buf_insert_*`.

`Obex` is one `obex_t` from CONNECT to the end of a session. A byte is a cell that
says what it stands for, so a byte read in the wrong place is seen to be one;
lengths and buffer counters are the code's. Each turn of the loops of
`obex_object_send`, `obex_verify_seq`, `obex_bulk_read` and of header parsing
is a step. `self`, `object`, `send` carry the C structures and locals;
`session` and `file` are history. The device (external) answers packets in
order, with the sequence number and the response in one or two transfers,
perhaps after empty ones, perhaps later than the host waits, and may refuse or be unplugged.
`obex_verify_seq` compares one byte: a response code or a data byte left by
an earlier request can pass for a sequence number (`Matches`).

`FileTransfer` is the promise of `obex_request`: the file moves from the front, and
success means that all of it, and nothing else, has arrived. A transport error ends the
promise, because unread bytes stay in `rx_msg` (`obex_request` does not clear
it). `TransferExact` is the refinement, with `moved` mapped to what has arrived at
the device or in the receive object.

Left out: malformed responses, names longer than a packet, failed allocation,
text encoding.

### Loader and ExwordTool

`Loader` counts memory and files in blocks of one `sys_read`; a checksum stands for
the blocks it was computed over. `storage` is the payload file of each medium, `ram`
what was written where, `ld` the loader's locals and loops. A file on a medium is a
packed build, one cut short by a broken transfer, or an unrelated file (`Unknown`): its magic,
load address, entry, size and checksum, right or wrong, are chosen when it is opened,
from all addresses below `Top`, where the arithmetic of the range check wraps around as
`uint32_t` does at 2^32. A payload may return to the menu whether or not it was packed with
`--returns`: for `main` the flag only decides which message is shown. What a running payload
writes is its own affair; the model has it use its image. Drawing is left out.

In `ExwordTool` a command is the sequence of library calls its function makes, each
with the number of calls skipped on success and on failure (`content_remove`,
`content_install`, `content_auth`, ... are such sequences); one request is
one step with a result, as `Obex` justifies. A request may be refused, its answer
may be lost before or after it took effect, it may end the session with an
internal server error, and the device may be unplugged between any two. `env.lost` keeps the
kinds of request (path, lock, challenge) whose last one in this session got no answer: what the tool
cannot know of the device then, the properties except by name. `exword_poll_disconnect`,
the notification and `disconnect` are one step, as they are one call of `do_events`.

The interrupt transfer, the only way the library learns that the device is gone, is `lib.urb`:
"flying" or "over". `exword_handle_interrupt` is its callback, run by `do_events` and, while a
request waits, by `HandleEvents`. `Stall` ends it without anybody submitting it again, or its first
submission failed (`exword.c` 316-322, 484); in `Unplug` it may have completed just before the
device went, so that submitting it again fails unseen (`exword.c` 313-315).

What the device does with a request (external) is taken from how `exword.c` and
`content.c` use it and what they say of it: unlock needs an accepted challenge, `authinfo` registers a new
key for the medium the device is at and deletes all add-ons of the device
(`exword.c` 1245, `protocol.txt` 181-182), a refused path leaves the device at its root, and a list shows
what is where the device is, so that after a lost path no card is found (`cards`).
Left out: CD mode, contents of host files (`users.dat` may hold any key), conversions
of names. Following the installation guide, the loader runs after the tool has exited and
the cable is out.

## 3. Runs

Bounds are small because the counters only need to reach and pass their limits:
2 stands for "below the limit once, then at it".

| Run | Question | Instance |
|---|---|---|
| `keypad_keys` | do keys stick, does Enter repeat, over all orders of edges and mode toggles? (`NoStuckKey`, `OneTapPerPress`) | ordinary key, toggle, Enter, Back, Up |
| `keypad_touch` | touch latch, sharing a button with the keypad, ADC failure, LCD rows, and that modes are applied and the pad painted (`TypeOK`, `NoStuckButton`, `LcdRowInPanel`, `TouchLatch`, `PadServed`) | toggle and Enter, two zones, modes off, touch, all |
| `keypad_touchfail` (violation) | "touch disabled, keypad unaffected" | one zone, six mode values |
| `xterm_lock` | does mkdir exclude, is the lock released? (`OneXtermUntilRecovery`, `LockReleased`) | three launches, signals and kills |
| `xterm_exclusion` (violation) | "Only one xterm can be open at a time" | three launches |
| `exwordfb` | is a drawing operation ever left off the panel? (`NoLostRefresh`, `LastFrameShown`) | two drawers, three operations, pans at any time |
| `sublcd` | do tool and driver race on port R, does the console come back? (`NoRefreshWhileWriting`, `OneWriter`, `ConsoleRestored`, `LinesInPhase`) | two runs, the console, a writer of `/dev/fb0`, kills |
| `subpad` | is the hardware put back by helper and diagnostics tool, are pins moved under a busy ADC, do clicks stick, does the helper stop? (`HardwareRestored`, `NoStuckClick`, `DiagLeavesAsFound`, `HelperMovesWhenIdle`, `StopsWhenAsked`) | two helper runs, the tool any number of times, kills, one direction and one button |
| `session` | is a stopped startx continued, does startx finish and clean up, is the helper gone? (`StopIsAnswered`, `StartxContinued`, `StartxProgress`, `SessionCleanedUp`, `HelperGoneUnsignalled`) | two polls, signals to both scripts |
| `obex` | does the packet layer implement a file transfer, are its buffers sound, does every request end? (`BufferSound`, `PacketFits`, `CleanBetweenRequests`, `StaleOnlyByCollision`, `ProgressMatches`, `RequestEnds`, `TransferExact`) | four requests of a session, a command without data and a file of two packets each way, one late answer or unplug, two empty transfers |
| `exword` | does the prompt agree with the device, is it locked, are sessions separate, add-ons kept, drops noticed; does the loader run only what is whole and write only in its pool? (`PathAgrees`, `LockedWhenIdle`, `SessionsSeparate`, `AddonsKept`, `DropNoticed`, `RunsWholeBuild`, `StaysInPool`, `PressesCounted`) | internal storage and a card, two keys, library and text mode, one fault (lost answer, internal error, stalled transfer, refused connect) at any point and any number of unplugs, two builds of two blocks and files with any header, a pool of three blocks among six |
| `exword_auth` (violation) | "authenticate without changing anything on the dictionary" | library mode, no faults |

Deadlock checking is off where processes end (`xterm_*`, `sublcd`, `subpad`,
`session`).

Two launches suffice for most lock races; the stale-lock race needs the owner, the
recovering launch and the one that takes the lock between them, hence three.
Two helper runs show what one leaves for the next. Three drawing operations let
one find the item idle, one pending and one running or being cancelled.

In `obex` the first packet of 20 bytes has room for name, length and 3 body bytes,
so a file of 9 takes a fragment and a rest; reads of 13 bytes split a
longer response. Sequence numbers start below the response bytes and meet them
later in a session, so both the clean case and the collision happen. The pool of
the loader is one block larger than a build, so a load address can be in
the pool with its end outside; there is a block below the pool and two past it, so that a
header can ask for less, for more, and for so much that the sum wraps into the pool again.
The largest runs have 1,422,741 (`exword`), 627,561 (`keypad_keys`) and 621,828 (`keypad_touch`)
distinct states.

Fairness. `PadServed` assumes the scan thread keeps running: it
never sleeps, it only yields. `LastFrameShown` assumes the worker, a
drawing task in the middle of an operation and a task in pan run on.
`StopsWhenAsked` assumes a running helper runs on. `StartxContinued` and
`StartxProgress` assume that processes run, that the server becomes ready or
dies, and that a helper told to stop ends. `RequestEnds` assumes that the host goes on (a
transfer ends with data or after its timeout) and that a device that is there
answers what it was sent; `MaxEmpty` bounds the empty transfers in front of an answer, as
`obex_bulk_read` has no bound of its own (`obex.c` 46-47). `DropNoticed` assumes that calls return, and strong fairness of
`do_events`: readline calls it whenever it waits for input, so a user who types
without ever letting it wait is excluded. Nobody is obliged to draw, to
press, to signal or to quit. `StartxProgress` is conditional on signals ceasing:
the trap returns to the polling loop, so a stream of signals keeps `startx` there.

## 4. What disagrees with the code's own words

1. `keypad_touchfail`: a mode change after an ADC failure leaves the touch source
   holding a pointer button for ever; keypad clicks of it are swallowed.
2. `xterm_exclusion`: stale-lock recovery can remove a fresh lock.
3. `exword_auth`: `content_auth`, once the internal storage has accepted the key,
   registers a card anew that refuses it, and by `exword.c`'s own words (line 1245) that deletes
   all add-ons of the device.

Cases the models contain and the properties exclude by name, for a reader of the code:

- Enter pressed as a mouse click and released after mouse mode is switched off
  types a Return (`ExwordKeypad`).
- A signal between starting the touch helper and `mouse_pid=$!` leaves it
  unsupervised (`HelperGoneUnsignalled`).
- After an internal server error `obex_ctx` is not cleaned up: the interface stays
  claimed and `connect` fails until the device is replugged or the tool restarted
  (`SessionsSeparate`).
- When the way back from a refused `setpath` (`main.c` 642), or from a content operation, gets no answer,
  the device stays where it is and the prompt shows another path (`PathAgrees`).
- When the lock request of an installation or removal gets no answer, the device may stay unlocked
  at the prompt (`LockedWhenIdle`).
- An interrupt transfer that has completed just before the device went, has stalled or
  overflowed, or could not be submitted in the first place is not there to tell that the
  device is gone: the prompt stays connected until the user types `disconnect` (`DropNoticed`).
- `content_auth` takes a challenge without an answer for a refused one, and does not look at
  the results of its path requests: after a lost one of either kind `auth` may reset a medium that
  would have accepted the key, and `remove` may work on another medium than the one
  shown (`AddonsKept`).
- `disconnect` typed before the poll has run leaves the event for the next session,
  which is then dropped.
- `connect` ignores the result of `_setpath`: one that fails or gets no answer leaves no current path, and
  a `content` command then works on NULL (`Crash`).
- `exword_free_list` is called on a list that a failed `exword_list` never set (`Crash`).
- A refused install leaves the add-on registered by `cname` (`exword_cname`).
- A payload that has returned to the loader can be run again without another check
  of its memory (`RunsWholeBuild`).
- A request after a transport error can take an answer of an earlier one
  (`StaleOnlyByCollision`, `CleanBetweenRequests`).
- `seq_num` is a `uint8_t`: when 256 requests in a row have timed out and the device
  then answers them all, the next request takes the answer to the first for its own
  (hypothesis `Young` of `StaleOnlyAfterCollision`).

## 5. Proofs

TLAPS proves the following for every value of the constants, from the named
assumptions in the modules (limits at least 1, request values are integers,
console drawers are drawers, ...).

- `ExwordKeypadProofs`: `TypeOK`, `NoStuckKey`, `NoStuckButton`,
  `OneTapPerPress`, `LcdRowInPanel`, `TouchLatch`. The inductive invariant
  `IInv` adds what each source of a button stands for (`ButtonInv`: the keypad source a key in
  `clicks`, the touch source the latched zone) - without
  it a release by one source says nothing about the other - and that a tap during
  a held Enter came from its own press (`TapInv`).
- `XtermLockProofs`: `TypeOK` and `OneXtermUntilRecovery`, over `MutexInv`: the
  launches between mkdir and rmdir are at most one, and they keep the directory in place.
  `LockReleased`, over `CleanupInv`: whatever directory or pid file is there, some launch
  still has its removal ahead, or was killed.
- `SublcdTestProofs`: `NoLostRefresh` of the driver, over `FbInv` (the item is
  unschedulable only while a pan, which transfers the frame at its end, is in
  progress); `LinesInPhase` and `OneWriter`, over `LockInv` and `PhaseInv` (a byte read for write-back had
  the main line high); `NoRefreshWhileWriting`, over `QuietInv` (a quiet console
  has finished its operations, and after the pan nobody is left to queue one);
  `ConsoleRestored`, over `ConsoleInv` (the console is in graphics mode only while the
  run that switched it is still to close it, or after restoring failed or that
  run was killed).
- `TouchProofs`, the helper: `HardwareRestored` and `PinsMoveWhenIdle` for the helper's own
  specification (the run composes it with `touchdiag`), over the lock and
  `HwInv`: the holder's snapshot is the firmware's unless a run was killed or gave up,
  the pins are original outside the sampling part, and the ADC is idle at every
  step that moves pins without waiting. `NoStuckClick`, over `ClickInv`: what X
  holds down was pressed by the one run that is past its setup, is still connected and
  has not released its zone. Only a kill or a request that X refuses is excepted: a run that gives the
  hardware up releases its zone first.
- `TouchProofs`, the diagnostics tool: `HardwareRestored`, `NoStuckClick`, `DiagLeavesAsFound` and
  `HelperMovesWhenIdle` for the composed specification `DiagSpec`. The invariants of the
  helper are kept by every step of the diagnostics tool, given `DiagInv`: the two never
  hold the flock together (`DiagLock`), what the tool saved is what it found and
  is put back or still due (`PinsSaved`, `SavedInv`, `PutBack`, `GateInv`), and a
  conversion it started is over before pins or gate move (`AdcInv`).
- `SessionProofs`: `SessionCleanedUp`, `HelperGoneUnsignalled` (over `ScriptInv`)
  and `StopIsAnswered` (over `GateInv`: nothing is forked before the stop, and a
  successful notifier leaves a waiter behind).
- `ObexProofs`: first what each operator of `DataBuffer` returns and that it keeps
  `Sound`; then `BufferSound`, `PacketFits` and `CleanBetweenRequests`. `ObexInv`
  says which header queues a request can have, which transfer unit is in force
  at each label (`MtuOK`), and that while a packet is filled, `tx_left` and what
  is in `tx_msg` stay within it and leave room for the headers still queued before
  the body (`FillOK`): without that, the length check of a header says nothing
  about the packet. `CleanInv` says where in a request `rx_msg` may hold bytes.
  `ObexAssumption` asks that the transfer unit before a connection has
  room for the fixed headers (11 bytes; `OBEX_DEFAULT_MTU` is 4096) and the one after
  it, which the code sets to 0x4006 whatever the device announces (`obex.c` 405), for the
  name header as well (`NameLen + 15`). A longer name is refused by
  `obex_object_send` ("header to big for MTU"), a case outside the theorems. It also asks for
  `NameLen` above zero: a name has at least its terminating zero, without which the
  first packet of a GET would look like a later one.
- `ObexTransferProofs`, whole transfers: `ProgressMatches` and the refinement
  `TransferExact`, for every file, transfer unit, chunk, way of cutting an answer into
  transfers, refusal and loss. `Cut(r, a, b)` is bytes a + 1 to b of the file of request r. `LiveInv`
  says, until a request has ended with an error, for each place of `obex_request` which
  cuts are queued, loaded in the packet, got by the device, on the wire, in `rx_msg`, in the
  body received, and reported (`AtIdle`, `MaySend`, `AtFill`, `AtVerify`, `AtRead`, `Parses`,
  `Finished`), and that they meet: without all of them at once, one step's bytes
  cannot be told to be the next ones of the file. The lemmas say what a packet
  carries (`PutLoadIs`, `CarriedIs`), what the callback reads from it (`PutReports`,
  `GetReports`), how transfers are put together again (`SeqTaken`, `BulkReadLive`) and what
  a body header adds. `StepAllowed` then shows that every step is a step of `FileTransfer` or a
  stutter: those that move a cut are the device's answer to a PUT and `ParseBody` in a
  GET, and a broken session promises nothing.
- `ObexTransferProofs`, late answers: `StaleOnlyByCollision`, from the hypothesis `Young`: no answer
  still to be read is `SeqRange` or more packets old. `LateInv` says that the packets
  not yet answered carry consecutive numbers (`Queued`), that a sequence number occurs on the
  wire only at the front of an answer and only of a packet that was answered (`Pieces`),
  and that a broken session owes its next request a late answer, which that
  request reads before its own (`Owing`, `Behind`): so it either ends in an error
  again, or takes a byte that is no number for one. The hypothesis cannot
  be dropped: with `SeqRange` 2 TLC finds two timeouts after which the third request takes
  the first one's answer. It is stronger than needed where a failed request
  has left bytes in `rx_msg`, which no later response gets in front of.
- `ExwordToolProofs`, the loader: `RunsWholeBuild`, `StaysInPool` and `PressesCounted`, for the loader
  together with the transfer tool, for every pool below `Top` and every header. The lemma `InRangeIs`
  shows that the six comparisons of `load_payload`, computed with wraparound, put the image
  into the pool and the entry into the image. The inductive invariant says what a file on a medium can be
  (`Good`: one that passes the range check carries the checksum of a build, even if its
  transfer stopped, of a whole file from elsewhere, or none that fits), that the header in use is `Sealed` from the
  range check on, that the image stays as the checksum saw it until it has run (`PoolInv`), and that
  every key the loops act on was counted (`PressInv`). Without `Good` the
  checksum would not say whose blocks it was computed over.
- `ExwordToolProofs`, the sessions: `PathAgrees`, `LockedWhenIdle`, `SessionsSeparate` and the
  action property `AddonsKept`, with or without a card, for all modes and keys, any number of
  unplugs and any bound `MaxFaults` on lost answers, internal errors and stalls. The cases a lost
  answer leaves open are the ones the properties name (section 4). A command is the sequence of calls it
  still has to make, each skipping some on success and others on failure, so the
  invariant `ToolInv` is about what is left of it. The lemmas show that every command
  starts with a script of the right form and that every way through it leaves one
  (`TodoInv`): after an unlock the lock is ahead and nothing skips it
  (`UnlockSafe`), the call that makes the prompt authenticated is reached only through the
  first challenge (`AuthGuarded`), deleting calls belong to their commands
  (`CallsOf`), a reset by `auth` has its challenges and paths in front
  (`ResetsCard`), and `remove` goes to the root of its medium and nowhere else before it
  removes (`Towards`). On top of it `LockInv` (an unlocked device has its lock ahead, or a lock request got no
  answer), `PathInv` (the rest of the command ends at the path shown, `Homeward`, or does not move, unless a
  path request got no answer), `SessionInv`, `RemoveInv` (`remove` is at the root of the medium shown, `AtRoot`) and
  `AuthInv`. The last says, for each number of calls between here and the reset, what
  `content_auth` has found out by then (`Tried`): that the key was accepted, that the device is at
  the card, that the card refuses the key. The list of cards is part of it: only if the path to the root was
  answered does the loop over the cards begin.

The inductive invariants were checked with TLC before they were proved, on
the instances of section 3 (`ObexInv` and `CleanInv` on 519,033 states; `LiveInv` on 64,551 states and `LateInv`, under `Young` with
three packet numbers, on 145,978, both with their quantifiers over the bytes of a message
cut to finite sets).

Only model-checked: the seven liveness properties (`PadServed`, `LastFrameShown`,
`StopsWhenAsked`, `StartxContinued`, `StartxProgress`, `RequestEnds`, `DropNoticed`). They
rest on fairness, which is out of the prover's reach.

## 6. Plan

1. `StaleOnlyByCollision` from a hypothesis on consecutive timeouts alone, with the
   bytes left in `rx_msg` as part of the invariant.
2. The rules of Snake and the read-then-unlink of the notification file in the
   desktop suite.
3. The zone geometry shared by driver, helper and diagnostics tool as operators
   checked against each other.

Not modelled:

- `crypt.c`: byte arithmetic over fixed tables, without state or order; a model
  would repeat the tables.
- The desktop programs: drawing and event loops of single windows.
- Boot scripts and build scripts: sequences of commands that stop at the first failure.
- Vendored kernel files (`setup-sh7724.c`, `renesas_sdhi_core.c`, ...): upstream
  Linux with register values changed for this board.
- Experiments: superseded by the programs above.
