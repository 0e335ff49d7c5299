# A TLA+ model of mmlcd

mmlcd is a USB device with a 2x16 character display and three buttons, built on
a Raspberry Pi, together with the software on both ends of the cable. This
directory models the parts of it that carry state, checks them with TLC on small
instances and proves what it can of their safety, for every size, with TLAPS.

## The system

| part | source | state | operations | interacts with |
|---|---|---|---|---|
| mmlcd daemon | `common/daemon/src/daemon_ipc.c`, `cmds.c`, `ipc_helpers.c`, `main.c` | listening socket, epoll set, event array, `is_running` | `epoll_wait`, accept, read one request, run it, reply, close, stop, clean up | clients over a Unix stream socket; the HAL by calls; signals |
| request format | `common/lib/inc/libmmlcd_ipc.h` | none | a header, then a parameter block for three of four commands | library, daemon, host HAL, kernel module |
| libmmlcd | `common/lib/src/libmmlcd.c` | one socket, the button callback, a polling thread | connect, print, clear, backlight, get button state, register callback, close | daemon |
| mmlcdctl | `common/cli/src` | none | connect, one command, close | libmmlcd |
| device HAL | `common/daemon/src/hal/rpi` | I2C handle; the display controller's state is outside the program | set up, print, clear, backlight, read a button | daemon; HD44780 through I2C, buttons through GPIO |
| host HAL | `common/daemon/src/hal/x86/hal.c` | none | open, write and close `/dev/mmlcd<addr>`; open, scan and close `/proc/mmlcd<addr>_btn<n>_state` | daemon, kernel module |
| kernel module | `host/src` | one context per display: URB, last button states, proc entries | load, unload, probe, disconnect, interrupt, open, write, read, release | USB core, devfs, procfs |
| functionfs daemon | `gadget/daemon/src/ffs-mmlcd.c` | two connections to the daemon, two threads and the library's polling thread | forward USB commands to the daemon, button events to USB | daemon, USB gadget endpoints |

A command on the host goes mmlcdctl - libmmlcd - mmlcd daemon - host HAL -
`/dev/mmlcd0` - kernel module - USB - functionfs daemon - mmlcd daemon on the
Raspberry Pi - device HAL - controller. A button goes the other way, polled on
the device, as an interrupt transfer over USB, and polled again on the host.

What is hard here, and what makes each part correct:

- The daemon is one thread, but its clients are not. It closes and accepts
  sockets while its event array still names descriptors; a client may write,
  exit or be killed between any two of its steps; mmlcdctl always exits before
  its command is handled. Right means: commands run at most once, unaltered, in
  order, none is lost when its writer leaves, and no client can stop the others.
- A reply has no number: it must be the one to the call that waits for it.
- The kernel module's probe, disconnect, interrupts and file operations overlap,
  and every step of a probe can fail. Right means: whatever runs finds its
  context alive and its own, and nothing is left behind.
- The controller keeps power and state when the daemon is killed between two
  I2C bytes, and I2C errors are ignored. Right means: the next start brings both
  back into step, and then what a command line asks for is what the cells show.
- The library's polling thread and its application share three variables without
  a lock. Right means: one thread exactly while a callback is registered, every
  change reported once, and no call that hangs.
- A display can be unplugged in the middle of a command or an event, and threads
  on the device end for good on some errors. Right means: the host daemon, one
  thread, never stays in a call, what it reports as written arrives, and its idea
  of a button becomes right again.
- The daemon may be killed and started again, and its clean-up runs twice. Right
  means: a start succeeds whatever was left behind, and an exit leaves nothing.

`PROJECT.json` lists the hazards line by line, with the properties for each.

## Modules

| module | what it is |
|---|---|
| `MmlcdIpc` | requests, and requests as they lie in a socket, whole or cut off |
| `MmlcdDaemon` | the daemon's loop and the clients' library calls |
| `CommandService` | what the daemon promises, without sockets, events or descriptors |
| `MmlcdDaemonProofs` | types and events of `MmlcdDaemon`, proved |
| `MmlcdServiceProofs` | requests, replies and the refinement of `CommandService`, proved |
| `MmlcdDriver` | the kernel module with the USB core and procfs around it |
| `MmlcdDriverProofs` | who holds which context in `MmlcdDriver`, proved |
| `MmlcdDriverUseProofs` | what opens, reads, writes and interrupts of `MmlcdDriver` find, proved |
| `LcdController` | `lcd.c` byte by byte and the HD44780 that receives the bytes |
| `Mmlcdctl` | command lines, parsed and sent to `LcdController` (extends it) |
| `LcdProofs` | theorems about `Mmlcdctl` and `LcdController` |
| `LibMmlcd` | callback registration and the polling thread of libmmlcd |
| `LibMmlcdProofs` | theorems about `LibMmlcd` |
| `DaemonLifecycle` | the mmlcd daemon's process from start to exit |
| `DaemonLifecycleProofs` | theorems about `DaemonLifecycle` |
| `HalX86` | the host daemon's HAL on top of the kernel module (extends `MmlcdDriver`) |
| `FfsDaemon` | the functionfs daemon on top of the library (extends `LibMmlcd`) |
| `UsbPath` | both ends and the bus (extends `HalX86`, instantiates `FfsDaemon`) |
| `UsbPathProofs` | theorems about `UsbPath`, the driver's and the library's carried over |
| `MCDaemon`, `MCDriver`, `MCLcd`, `MCLib`, `MCLifecycle`, `MCUsb` | instances for TLC; constants are in the `.cfg` files |

### MmlcdDaemon

`cl[c]` is what client c is doing, `backlog` the kernel's queue before `accept`,
`rx[c]` and `tx[c]` the two directions of its socket, `conOf[fd]` the connection
behind a descriptor. `events` and `hups` are the part of the event array not yet
handled and the entries in it that carry a hang-up. `pc` and `cur` say where in
its loop the daemon is. `sent`, `done` and `before` are history: requests
written in full, requests handed to the HAL, and the clients that were gone when
one connected.

Actions carry the names of the functions. A daemon step ends wherever a client's
step in between makes a difference: after `epoll_wait`, after each event, between
reading a request and acting on it (the killed client of finding 1), and between
a request and the close after it. `cmds_handle_display` stands for the three
commands without a reply. The order of the array is left open: `events` is a set
that is drained in any order. `epoll_wait` with more ready descriptors than
`MaxEvents` goes round robin, as the kernel's ready list does (`passed`).

Data is abstracted: a parameter block is a number, 0 being the all-zero block
that the handlers initialise. The reply to a button request carries the button's
index, so that a reply to the wrong request is visible. The address field is left
out: the daemon passes it to the HAL untouched.

Requests arrive whole, except the last one of a client that dies inside it: cut
in the header, after it, or in the parameters (`Cuts`). `libmmlcd` writes a
request with one call, so only a client that does not use it can die there. A
request of which not one parameter byte was written is executed with zeroes
(`ipc_helpers.c:19-21` returns success); `DoneAsWritten` names this exception.

### CommandService

Per session: open, submit, execute the next submitted request, leave, end; and
the service shuts down. `ImplementsService` maps a session to the daemon's end of
a socket (queued or accepted) and says that every step of the daemon is a step of
this service or none. In particular only the session of a client that has left is
ended, and requests are executed once and in order.

### MmlcdDriver

Every probe that gets a context gets a new number from `1 .. MaxProbes`; `live`
are the contexts not freed, `intfdata`, `minor`, `proc`, `submitted` what the
interface, the USB core, procfs and the host controller hold. `mmlcd_probe` and
`mmlcd_disconnect` are split into the calls that others can observe (`phase`), so
that opens, reads, writes, interrupts, unplugging and unloading fall between any
two of them. A handler that uses a freed context is recorded in `stale`; a write
that does may reach any display, since the memory can be the next one's context.
`mmlcd_proc_open` finds a context in one step and stores it in another
(`mmlcd_proc_open_store`), with anything in between that `proc_remove` of the file's
own entry does not hold up. `dev_open` is one step: the USB core calls it under the
lock that `usb_deregister_dev` takes. The USB core's and procfs's part (lowest free
minor, URBs killed before disconnect, calls on a proc entry waited for and its files
released when it is removed) is modelled from how the module uses them and marked
external. Two variables are history: `reported`, the last event of each button since
the display was bound, and `kept`, the files whose display has been bound ever since
they were opened.

### LcdController and Mmlcdctl

`queue` holds the calls of `lcd_write_mode` the current function has still to make,
each as its six I2C bytes, or the one byte of `lcd_backlight`; `at` is the next byte
of the first. The bytes come from operators with the functions' names. `hd` is the controller: interface
width, pending nibble, address counter, RAM, modes. A nibble is latched when
enable falls. `Kill` may happen between any two bytes; the controller keeps its
state and `hal_init` runs again. A write may be lost (`lost`, `garbled`); until
the next start nothing is claimed then. In 8-bit mode the four unwired data lines
read `LowLines`.

`Mmlcdctl` has one action, `main`, that takes an argument count and a word through
`cli_parse` and its handlers to the library call and the HAL; `want` and `lit`
are set from the words of the command line alone, by `Shown`, so `ShowsWanted`
compares the user's text with the cells, past truncation, 8-bit line and column,
addresses, nibbles and latches. A request is executed when the HAL is idle; how
it gets there is `MmlcdDaemon`'s subject.

### LibMmlcd

`cbk`, `running`, `id` and `prev` are the library's four static variables, `th[t]`
a thread with its button and the state it read. A registration is the step that
swaps the callback, then `Start`, or `Stop` and `Join`; each access of the thread
to a shared variable is a step, so every interleaving of the two is there. Where
the code reads `g_btn_ev_cbk` twice, a compiler may read it once or twice: both
outcomes are in `CallCbk`. `told` is history: what the callback has been called
with. `dead` says why a process died: SIGPIPE, a NULL callback, a join of a thread
that was never created (undefined, so it may also be harmless).

### DaemonLifecycle

`pc` is the call `main` is at; every call that can fail is a step with a failing
branch (`Fails`). `path` is the process whose socket the file names, so a stale
file is told from a fresh one. `off` counts how often `lcd_deinit` wrote the
backlight byte through an initialised pigpio. The next process starts after the last
has ended.

`hal` is the HAL the daemon is linked with. With the host's (`x86`) a signal runs
`sig_handler`, which logs before it clears `is_running`, and waits for ever (`hung`)
if it has interrupted a log message: the one before the loop, those of the loop
(an interrupted `epoll_wait`, and the errors of the events at hand, of which `left`
are still to come), those after it, and `closelog`. With the device's (`rpi`)
`gpioInitialise` takes both signals over from `main.c`; its handler runs
`gpioTerminate` and `exit`, so `cleanup` runs in the middle of whatever `main` was
doing, and finds pigpio gone. An interrupted message keeps its lock then (`locked`),
for which `closelog` waits. pigpio's handler is external: it is modelled as pigpio's default
configuration has it, which `lcd_init` does not change.

### HalX86, FfsDaemon, UsbPath

`hal` is the one call the host daemon has in progress, step by step: open, write
or scan, close. Its files are `MmlcdDriver`'s files. Commands are numbered
(`cmds`); `acked` is the last for which the call returned 0. `FfsDaemon` adds
`main`, the command thread (`cmdth`, `buf`) and the function's state as the host
sets it (`enabled`); `fwd` is the last command written to the mmlcd daemon.
`UsbPath` joins them where USB does: a button event is one step of
`btn_event_callback` and `mmlcd_proc_int_in_irq`, a command one step of
`dev_write` and the command thread's read; a write through a freed context may or may
not reach the device. While the device's side is not reading,
the write fails after its five seconds; when the display leaves, the command
thread's read and the event's write fail on the device.

## Runs

| run | instance | shows |
|---|---|---|
| `DaemonCtl` | 3 clients with one command each, 2 descriptors, backlog 2 | `NoRequestLost`, `EventFdStable`, `SequentialOrder`, `CommandExecuted` |
| `DaemonLib` | a library client that may be killed while waiting and the forwarder, 2 requests each, replies fill a socket after one | `TypeOK`, `DoneAsWritten`, `ReplyMatches`, `ImplementsService`, `OpenClientServed` |
| `DaemonRaw` | 2 clients that may die inside a request or send unknown commands, event array of 1, registration may fail | `DoneAsWritten`, `FdsReclaimed` |
| `DriverSingle` | 2 displays that take turns at 1 minor number, 3 contexts, failing allocation, submission, resubmission and transfer, unplug, unload | `TypeOK`, `ContextsOutliveUse`, `ProcEntriesOwned`, `OpenedLive` |
| `DriverFaults` | 2 displays, 2 minor numbers, 2 buttons, failing submission and `proc_create`, unplug | `UnboundHoldsNothing`, `ReadsOwnDevice`, `WriteReachesOpened` |
| `LcdRestart` | command lines of 1 to 5 words, 3 HAL calls, starts included, killed at any byte, one lost I2C write; text as long as a row and longer | `LcdTypeOK`, `InStep`, `ShowsWanted`, `DarkOnlyIfAsked` |
| `LibCallback` | 2 callbacks, 3 registrations, 2 threads, 2 buttons, `pthread_create` may fail, the daemon may exit | `LibTypeOK`, `ThreadFollowsRegistration`, `NullOnlyUnregistering`, `EventsAlternate`, `ChangeTold`, `RegisterReturns` |
| `Lifecycle` | either HAL, 3 processes, 2 signals each, up to 2 errors logged per round of the loop, every call may fail, kill at any step | `TypeOK`, `Reachable`, `NoFileLeft`, `LightsOutOnce`, `StartServes`, `SignalEnds` |
| `UsbPath` | 1 display with 1 button, bound up to twice, 2 commands, 1 mishap (unplugged, or the device's mmlcd daemon exits), every failure of the functionfs daemon's start | `UsbTypeOK`, `NoFileLeaked`, `AckedForwarded`, `HalReturns`, `HostCatchesUp` |

Three further runs end in a violation; each is a disagreement between the code and
what it says of itself, listed in `PROJECT.json` under `findings`:

1. `DaemonAbandoned`: a client killed while it waits for a reply takes the daemon
   down through SIGPIPE.
2. `DaemonNoReply`: no reply is sent when the HAL fails, and the library call
   never returns.
3. `DriverUnplug`: a device file that stays open over a disconnect writes through
   a freed context.

### Limits of the code that bound what the passing runs claim

- A client that writes several requests and closes at once loses all but the
  first, because one request is read per event and the hang-up of the same event
  closes the socket: `NoRequestLost` and `CommandExecuted` are checked for one
  request per client, which is what mmlcdctl sends.
- When `mmlcd_proc_init` fails, the context is freed with its URB submitted, and
  entries already created stay in `/proc`: `ContextsOutliveUse` and
  `ProcEntriesOwned` are checked without that failure.
- A proc file of a second display is opened with the first one's context, and
  reads of it return end of file. It also keeps that context over the first
  display's disconnect; so `ContextsOutliveUse` has one minor number, and
  `ReadsOwnDevice` speaks of reads that find their context alive.
- For the same reason an open of a second display's proc file, or of one that a failed
  probe left behind, may store a context that was freed after it was found: the
  disconnect of the first display waits for opens of its own entries only.
  `OpenedLive` speaks of device files and of proc files of minor number 0, and is
  checked and proved without a failing `proc_create`.
- A device file that outlives its display may write to whichever display's context has
  taken the freed memory (finding 3). `WriteReachesOpened` speaks of the time while the
  display the file was opened on stays bound, whatever the others do.
- Print and clear switch the backlight on again: `DarkOnlyIfAsked` is one way only.
- A column that carries a text out of its row's 40 cells of controller memory, from
  64 on in particular, reaches other cells or is another instruction: `ShowsWanted`
  is checked for columns 0, 2 and 3 of a row of three and proved for texts that stay
  in their row. mmlcdctl cuts line and column to eight bits and does not check them.
- Unregistering a callback races the thread's call of it, which then may call NULL;
  after a failed `pthread_create` the callback stays registered without a thread.
- `main.c:25` says of its handler "On SIGINT, exit the main loop". Three things keep
  it from that, and the model has them all. A signal before `daemon_ipc_run` sets
  `is_running` is forgotten. One that interrupts a log message, also one of the loop's
  errors, hangs the host's daemon, since the handler logs before it clears the flag. On
  the device pigpio's handler ends the process instead, the backlight stays on, and a
  message it interrupted makes the exit wait in `closelog`. So `SignalEnds` speaks of
  signals during the loop and allows for the hang. A signal that interrupts the
  handler's own message would hang as well and is not modelled.
- `LightsOutOnce` speaks of processes that exit without a signal pigpio has caught, which
  is after a call of the start failed. A second signal may cut the exit off and leave
  the socket file; `NoFileLeft` speaks of exits that complete.
- A second daemon started beside a running one takes over the socket file and
  removes it when it ends; `DaemonLifecycle` has one process at a time.
- After the display was unplugged, the functionfs daemon's command thread is gone:
  buttons work again after plugging in, commands only time out, until the
  functionfs daemon is restarted. Likewise if that thread could not be created.
- A change of a button that is reported before the kernel module has bound the
  display, or lost when the display leaves, is not reported again: the host shows
  the wrong state until the button's next event. `HostCatchesUp` starts there.

### Bounds, and why they are enough

- Clients and descriptors: three clients with two descriptors make a descriptor
  change hands while an event waits, fill the table, and let two programs finish
  before a third connects. Requests per client (`MaxSent`): two, to have one
  queued behind another. `SequentialOrder` needs an event array that holds every
  ready descriptor, since the model drains a batch in any order: EPOLL_MAX_EVENTS is
  10 in the code and in that run, so it covers up to nine clients at a time; the
  theorem has the same hypothesis.
- `TxCap` is 1: what matters is that the socket can be full.
- `MaxProbes` bounds contexts, since each is new; three let a display be bound,
  leave, and another take its number twice. One file is enough, as no file's
  operation looks at another file. Symmetry over displays and files is used only
  with safety properties.
- `MaxCalls` is 3: start and two calls, or start, call and restart. `StrSize`
  scales the row of 16 cells and its terminator to 3 and 1; the texts are one
  longer than a row, and one of codes that are instructions when taken for one
  (clear, function set). `MaxLost` is 1: a second loss has nothing to add, as
  nothing is claimed between a loss and the next start.
- `MaxRegs` is 3: register, replace or unregister, and once more. Two threads let
  a second one start beside a leftover.
- `MaxStarts` is 3: a killed process, one that gives up, one that serves. `MaxErrors`
  is 2: a signal may hit a message with another one still to come.
- `OpenedLive` is checked with two displays that take turns at one minor number, and
  proved for any number of them; `WriteReachesOpened` is checked with two displays that
  are bound at a time.
- `UsbPath` takes what other runs have covered as small as it can: one display and
  button. `MaxProbes` is 2 to have it come back, `MaxCmds` 2 to have an order of
  commands, `MaxMishaps` 1 to bound the product of the two sides.
- Deadlock checking is off where the system may come to rest: clients that are
  done, bounds that are used up.

### Fairness

`Fairness` is weak fairness of the daemon as a process, whose calls all return
(the HAL's included, `epoll_wait` when something is ready), and of a library call
returning once its read can. Nothing makes a client connect, write or close;
`CtlSpec` adds that mmlcdctl exits, since `main` calls `liblcd_deinit` whatever
the command did. The driver and controller runs check safety only.

`LibFairness`: the application's call and the polling thread run, the daemon
answers while it is there (which `OpenClientServed` shows), callbacks return. In
`DaemonLifecycle` the process runs; nothing starts or signals it. In `UsbPath` the
USB core runs probe and disconnect to their end, an event that can be delivered is,
the host daemon and the device's threads run, and somebody on the host keeps
asking for every button; nothing plugs, unplugs or presses.

## Proofs

The theorems hold for every value of the constants that satisfies the named
assumptions of the modules (`DaemonAssumption`, `DriverAssumption`, ...), which only
say that a bound is a number and a set is what its name says: any number of clients,
descriptors, requests, displays, files, buttons, processes and registrations. What a
theorem assumes beyond them is in its statement and below. A property is seldom
inductive; what had to be added to each is the content of this section.

### The daemon: `MmlcdDaemonProofs`, `MmlcdServiceProofs`

| theorem | property | beyond the assumptions |
|---|---|---|
| `TypeCorrect` | `TypeOK` | |
| `EventFdsStable` | `EventFdStable` | |
| `ExecutesAsWritten` | `DoneAsWritten` | |
| `RepliesMatch` | `ReplyMatches` | |
| `DaemonImplementsService` | `ImplementsService` | no request cut off between header and parameters; `epoll_ctl` succeeds |
| `CtlRequestsKept` | `NoRequestLost` | one whole, valid request per client |
| `ServesInOrder` | `SequentialOrder` | fewer client descriptors than entries in the event array |

- `LoopInv` (with `TypeOK`: `IndInv`) says what the loop knows: every event in the
  array names an open descriptor, a listening event means that a connection waits,
  and the descriptor in hand is open and has left the array. Without it a read of the
  head of a socket is not even well typed. Accept then cannot hand out a descriptor
  with an event, and close only closes the one in hand.
- `ConnInv`: a connection is in one place, either once in the backlog or behind one
  descriptor, and once it is closed nothing is left in its socket. `HupInv`: a hang-up
  in the array belongs to a client that is gone for good.
- `HistInv` numbers what lies in a socket: there is a function that counts the whole
  requests up to each entry, from those taken to the last one written
  (`Numbered`). Each step moves that function by one at one end. Without it
  nothing says that the request at the head is the next one of `sent`.
- `ReplyInv`: at most one reply is due to a client of the library, in one of three
  places (still in the socket, in hand, answered), and it is the one to its last
  request.
- `OrderInv`: a client that had gone when another connected is ahead of it, in the
  backlog, then with its hang-up in the array, then closed.

The refinement is proved step by step: every action is a step of `CommandService` or
leaves all sessions alone. Its two hypotheses are where the code breaks the promise: a
request that ends after its header runs with zeroes, and a connection whose
registration with epoll fails is closed under a live client. `CtlRequestsKept` has the
limits stated above for `NoRequestLost`. `ServesInOrder` needs one batch to hold
every ready descriptor; with three descriptors and an array of two, TLC finds the
order reversed. EPOLL_MAX_EVENTS is 10, so the theorem speaks of up to nine clients at
a time.

### The kernel module: `MmlcdDriverProofs`, `MmlcdDriverUseProofs`

| theorem | property | beyond the assumptions |
|---|---|---|
| `NothingLeaks` | `UnboundHoldsNothing` | |
| `DriverTypes` | `TypeOK` | |
| `WritesReachOpened` | `WriteReachesOpened` | |
| `ReadsAreOwn` | `ReadsOwnDevice` | |
| `OpensFindLiveContexts` | `OpenedLive` | `proc_create` succeeds |
| `EntriesHaveDisplay` | `ProcEntriesOwned` | `proc_create` succeeds |
| `UsesFindContexts` | `ContextsOutliveUse` | `proc_create` succeeds; one minor number |

- `CtxInv` ties the records of who holds what together: a display between probe
  and disconnect has a live context of its own, any other has neither context nor
  minor number, and a live context is the one its display holds. Steps are of three
  kinds, each with a lemma: a display moves on and keeps its context (`KeepStep`),
  gives up all it holds (`ReleaseStep`), or gets a new context (`CreateStep`).
- `MinorInv`: no two displays have the same minor number. `FileInv`: the context in a
  device file belonged to the display that was opened, alive or not.
- `KeptInv`: a file whose display has stayed bound still has that display's context.
  A write through a freed context is not among those then, wherever it goes; and a new
  display's context is another one (`WritesReachOpened`).
- `UseInv`: entries in `/proc` have a display whose entries are being created, used or
  removed; a URB the USB core holds is that of a live context; a proc file of minor
  number 0, also one that is being opened, has the context of the display with that
  number, whose `mmlcd_proc_deinit` waits for the open. The hypotheses are the two
  limits listed above: a failed `proc_create` leaves entries and a URB behind, and a
  second display's proc file is opened with the first one's context.

### The library and the process: `LibMmlcdProofs`, `DaemonLifecycleProofs`

| theorem | property |
|---|---|
| `LibTypes` | `LibTypeOK` |
| `OneThread` | `ThreadFollowsRegistration` |
| `NullCallsConfined` | `NullOnlyUnregistering` |
| `ReportsAlternate` | `EventsAlternate` |
| `LifeTypes` | `TypeOK` of `DaemonLifecycle` |
| `DaemonsReachable` | `Reachable` |
| `ExitsRemoveFile` | `NoFileLeft` |
| `ExitsSwitchOffOnce` | `LightsOutOnce` |

None has a hypothesis beyond the assumptions. `ThreadInv` says where the application can be for each state of
the thread, `EventInv` that a button's last report is the last state seen unless the
thread is just about to call: together they exclude a report of an old state by a new
thread. `FileInv` follows the socket file through `main` and through the exit, whichever
of them a signal jumps to. `LightInv` counts: as long as pigpio has caught no signal, an
open display has pigpio to reach it, and writes of the backlight byte and an open
display make one, from the moment it was opened.

### Both ends: `UsbPathProofs`

| theorem | property |
|---|---|
| `UsesDriver` | `UsbSpec => Spec`: the whole is a behaviour of `MmlcdDriver` |
| `HalClosesFile` | `NoFileLeaked` |
| `AckedCommandsForwarded` | `AckedForwarded` |
| `UsbTypes` | `UsbTypeOK` |
| `FfsPollsSafely` | `FfsPolls` |

`UsesDriver` carries every theorem about the kernel module over to the composition,
where its files are opened by the host HAL and its interrupts come from the device.
The library's part goes the other way round: a step of the
whole is a step of the library, none, or the death of its process, and the lemmas of
`LibMmlcdProofs` are instantiated for the one callback and thread of the functionfs
daemon. `FfsPollsSafely` is what registering once and for good buys: the call of NULL
that the library admits does not happen there. `PathInv` says that a command is not
acknowledged while it is being written, and that the command thread does not run
before `main` has created it.

### The display: `LcdProofs`

| theorem | property | beyond the assumptions |
|---|---|---|
| `LcdTypes` | `LcdTypeOK` | |
| `LitUnlessAsked` | `DarkOnlyIfAsked` | |
| `DaemonsInStep` | `InStep` | `Placed`: every line and column typed makes a position command |
| `CommandsShown` | `ShowsWanted` | `Fits`: line and column have eight bits, and a text as long as a row stays within the 40 cells of its row |

They hold for rows of 1 to 19 characters, any texts, any number of calls, kills and
lost writes, and whatever the unwired data lines read.

- Lemmas about the operators come first: the six bytes of `lcd_write_mode` and what
  can be read back from them (`WriteIs`), the effect of each instruction (`Exec...`),
  of a latched nibble (`Latch...`), and of both nibbles of a write (`PairCall`).
- `QueueInv`: the queue holds writes and backlight bytes, and `at` is inside the
  first. `BusInv`: unless a write was lost the expander holds the byte before the
  next, so enable is low between writes; only the first byte of `lcd_setup`
  meets whatever a killed daemon left. Hence a write latches two nibbles, with
  its third and its sixth byte (`NibbleStep`).
- `LightInv`: a backlight byte that waits says what `lit` says.
- `SyncInv` follows `lcd_setup` from any state of the controller. `Loose` is what
  the magic bytes leave after each nibble: an 8-bit interface, or a 4-bit one whose
  pending half is known. After the fourth write the interface is 4 bits wide with
  nothing pending, and from there each write executes its command (`Paired`); what
  12, 1 and 6 set is kept to the end.
- `ShowInv`: what is queued for the display, and which cells are right already. While a
  text is written, the cells from the address counter on, as many as characters are
  left, are to get those characters, and all others show what they should
  (`Rest`). `WithinText` is the arithmetic of lines, columns, truncation and addresses:
  a visible cell is written exactly if it is within the text as it was typed.

The hypotheses are about what may be typed, as mmlcdctl checks neither line nor
column. Without `Placed` the eight-bit sum of column, line offset and 0x80 loses its
high bit and is another instruction, from column 128 of line 1, 64 of line 2, 108 of
line 3 and 44 of line 4 on; without `Fits` a text runs into another row. The
constants of `LcdRestart` satisfy both.

### Model-checked only

Liveness, which is out of the prover's reach: `CommandExecuted`, `OpenClientServed`,
`FdsReclaimed`, `ChangeTold`, `RegisterReturns`, `StartServes`, `SignalEnds`,
`HalReturns`, `HostCatchesUp`.

## Not modelled

- Gadget configuration (scripts, systemd units, descriptors) and the examples have
  no state machine of their own; logging has none either, but where it is called
  from a signal handler is in `DaemonLifecycle`.
- Delays and the one-second limit on reads in `ipc_helpers.c`: a request that arrives
  in pieces while its writer lives. Every writer in the repository sends a request
  with one write, which a Unix socket hands over whole.
- An application that calls the library beside its own polling thread.
- What pigpio does beside the two signals. It also takes SIGPIPE over, so
  `DaemonAbandoned` is a finding about the host's build. Signals are taken to be
  delivered to the main thread, and a signal inside `hal_init` to come before or after
  it.
- A `dev_write` in the middle of its transfer while `mmlcd_disconnect` runs, and
  calls into the module after it was unloaded with a file open.
- The functionfs daemon's control endpoint, whose events are only logged.

## Plan

1. (done) `MmlcdIpc`, `MmlcdDaemon`, `CommandService`, `MmlcdDriver`,
   `LcdController`, first theorems.
2. (done) `LibMmlcd`, `DaemonLifecycle`, `Mmlcdctl`, `HalX86`, `FfsDaemon` and
   their composition `UsbPath`.
3. (done) Proofs of the safety properties of the daemon, the kernel module, the
   library, the process and the path over USB.
4. (done) Proofs of the safety properties of the display.
