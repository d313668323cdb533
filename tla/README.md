# TLA+ specifications of unit_test

The repository is a collection of test programs for boards with an Ambarella
camera SoC. `src/bbam_unit_test` is the current tree, `src/gkamba_unit_test` an
older copy of most of it. A program is one or two C or C++ files that drive a
device (the video encoder and decoder of the IAV driver, a sensor, the flash, a
memory card, the network). Most of them parse options and make one ioctl per
option. A few keep state of their own, run threads, share a lock between
processes, or run for days as daemons; those are the programs modelled here.
Paths below are relative to `src/bbam_unit_test`, with `gkamba:` to
`src/gkamba_unit_test`. The video programs are in `private/ipcam_test/arch_a5s`,
written `a5s` below.

## The system's parts

| Part | State | Operations | Interacts with | What makes it hard |
|---|---|---|---|---|
| mudec message queue (`private/iav_test/mudec.c`) | ring of messages, two indices, counts of messages and of waiting readers and writers, a semaphore | get, peek, put, ack, wait | mudec's main thread writes, one decoder thread reads | condition variables: lost, stolen and spurious wakeups; full and empty queue |
| mudec player (same file) | main: renders, current display, belief about each decoder's trickplay mode; per stream a thread with its place in the file, its queue, its PTS; per stream a decoder | the commands `q s z space cs csa crsd crhd cr`, Ctrl-C, feeding, end of file | queues to the threads, ioctls to the decoders, fields written by main and read by threads | commands overtake feeding; threads that block in the driver or die; shutdown |
| mudec file reader (same file) | a buffer over a window of the file, the place in it, bytes left | scan for a start code, feed a frame, refill, feed the rest, repeat | the file, the bits fifo | frames across a refill; stale bytes behind the end; when to stop |
| mudec headers (same file) | a bit writer over a byte buffer | write bits, fill USEQ, fill UPES | the decoder reads them | fields that cross bytes |
| mudec bits fifo (same file) | write pointer into a ring of bytes shared with the DSP | request room, copy, hand an interval over | the decoder reads while the thread writes | wrap, exact fit, headers that a request must cover |
| test_playback (`a5s/test_playback.c`) | menu, decode thread, exit flag, ring | start, restart, pause, resume, quit, signals | the decoder reads the ring | a thread that blocks in the driver while main joins it |
| condtest (`gm/condtest/condtest.cpp`) | a latch `m_Count`, a mutex and a condition | signal, wait with a timeout, stop | two threads | a timeout that races a signal; the object is deleted at the end |
| semcli (`gm/semcli/semcli.cpp`) | a System V semaphore and its SEM_UNDO adjustments | create, set, try, unlock, stop | other instances of the same program | being killed at any step; creation in two calls |
| test_nand (`linux/nand/test_nand.c`) | per file a mutex and a "was read" flag; the files | write, read, delete, handle SIGABRT | three threads on one set of files | interleavings of three threads, shutdown out of a signal handler, `exit` in the middle |
| guard_sd_space (`a5s/guard_sd_space.c`) | the list of the last scan, two directory names, `need_reread` | read configuration (or make one), scan, test for space, remove oldest, handle SIGHUP and SIGTERM | a recorder that writes the card, an operator that edits the configuration, a removable card | a list that is as old as the last scan; a flag shared with a signal thread |
| IrCut_Test (`private/ircut_test/IrCut_Test.c`) | day or night mode in three places: a variable, the image library, two pins | the menu's day, night, auto; the library's callback | the filter library's thread | the callback in the middle of a command |
| encoder control (gkamba: `a5s/guard_vsync_loss.c`, `a5s/test_encode.c`) | driver state, running streams; the guard's `encode_streams`, its session; a command's flags | recover from a loss of vsync; stop, idle, setup, preview, start | one driver, used by both programs; netlink messages | a recovery is six ioctls, a command five, nothing locks |
| recorders (`a5s/test_bsreader.c`, `a5s/test_stream.c`) | per stream its descriptors, session and size so far; threads or a loop | frame, session change, stream end, split by size, stop | the encoder starts and stops streams; threads are cancelled | sessions that change between frames, files that cannot be created |
| mp4 muxer (gkamba: `a5s/test_mp4mux.c`) | a file written through two FILEs, an index in memory and in the file, room in front of the pictures | init, process a frame, write the index, stop | a recording of test_stream | boxes are written over the index they are made of; sizes computed before anything is known |
| test_soft_vsync (`private/vsync_test/test_soft_vsync.c`) | two semaphores, two times, a mutex that main holds | interrupt, compare, throw away, print | two interrupt lines | a loop that waits for one thread while it holds the other |
| net_test (`linux/benchmark/net_test`) | the server's window, the file, one accepted connection; clients | send, read a piece, write it, accept the next | TCP | reads, windows and ends of clients cut the stream at different places; failed writes |
| the others | none between two calls, or vendored | | | not modelled, see the end |

What makes each modelled part correct:

- **queue**: first in, first out, nothing lost or handed out twice; nobody sleeps
  beside what it waits for; the two sides do not both sleep.
- **player**: a thread does what its last message said, wherever it was when the
  message came; the streams shown are the ones fed; main is not blocked by a
  thread that can still run; after `q` every thread is joined.
- **file reader and headers**: every byte of the file is fed once, cut where
  frames end, and the frames are announced; every bit of a header is in its place.
- **bits fifo, test_playback**: the decoder reads exactly the bytes of each frame,
  wrapped or not; the feeder never waits for room that cannot come; a thread
  starts on an empty ring; the program ends.
- **condtest**: one signal ends one wait or is kept for the next, but for the timeout
  it may race; both threads end.
- **semcli**: at most one holder; no crash of a holder leaves the lock taken by nobody.
- **test_nand**: no thread meets a file that another is writing or reading; a file is
  written, read and only then removed; the result file is closed after its last writer;
  the signal ends the program.
- **guard_sd_space**: the list belongs to the directory it is applied to; the
  oldest file goes first; the removing loop is left; SIGHUP is obeyed.
- **IrCut_Test**: what the operator set stays.
- **encoder control**: after a recovery the streams run that ran before; each loss
  is answered; a command leaves what it says; nothing is started that nobody lost.
- **recorders**: each frame that could be written is in one file, the one of its session,
  in order; files are split at their size; a frame has its record; no descriptor is lost.
- **mp4 muxer**: the tables of the file lead to every picture.
- **test_soft_vsync**: differences go on being printed.
- **net_test**: what a client has sent is in the file, once and in order.

The hazards behind those properties, each at its line, are in `PROJECT.json`.

## The modules

| Module | Models |
|---|---|
| `BoundedFifo` | abstract: what a message queue promises (append, take the oldest, at most `Capacity`) |
| `MsgQueue` | `msg_queue_t` in detail; states that it implements `BoundedFifo` |
| `MsgQueueProofs` | its theorems, the refinement among them |
| `Mudec`, `MudecProofs` | main thread, `udec_instance` threads, decoders; its queues are the FIFO that `MsgQueue` implements |
| `FrameReader` | the reading side of a `udec_instance` thread: window, start codes, refills |
| `BitsWriter` | `bitswriter_t` and the USEQ and UPES headers |
| `BitsFifo` | the ring of bytes of one decoder, byte by byte |
| `BitsFifoProofs` | theorems about `FrameReader`, `BitsWriter` and `BitsFifo`: how mudec feeds a decoder |
| `Playback` | test_playback: menu, handler, decode thread and ring |
| `Mp4Mux` | test_mp4mux: the file's layout and the index on its way through it |
| `SoftVsync` | test_soft_vsync: the threads of two lines and main |
| `NetTest` | net_srv's receive thread and the clients of net_clnt |
| `ConditionWait` | `CConditionWait` and the two threads of condtest |
| `SemaphoreMutex` | `CSemaphoreMutex` and the programs that share it |
| `IrCut` | the menu and the callback of IrCut_Test |
| `EncoderControl` | guard_vsync_loss and test_encode on one driver |
| `Recorder`, `RecorderProofs` | test_bsreader and test_stream |
| `FileLifecycle` | abstract: absent, written, read, absent |
| `NandTest`, `NandTestProofs` | the threads of test_nand; implements `FileLifecycle` |
| `GuardSdSpace`, `GuardSdSpaceProofs` | the daemon, its signal thread, and the card, recorder and operator around it |
| `MC*` | extend a module for TLC; `MCBench` and `MCDevices` put several small programs into one run |
| `BenchProofs` | theorems about condtest, test_playback, test_mp4mux, test_soft_vsync and net_srv, and about all of `MCBench` at once |
| `DevicesProofs` | theorems about semcli, IrCut_Test and the encoder, and about all of `MCDevices` at once |

mudec is split along the interfaces the code has. `Mudec` sees a queue as a
sequence, a bits fifo as a number of frames and a file as a number of frames.
`MsgQueue` justifies the first (proved); `BitsFifo` the second: room for a frame is
a fact about bytes, and when it is granted the copy harms no frame in the fifo
(proved); `FrameReader` the third: what a thread feeds are the frames of its file
(proved).

A module that shares a run with others has its own `Init`, `Next`, variables and
type invariant under prefixed names (`ReaderInit`, `ReaderNext`, ...) and an `Off`
state in which it does nothing. A behaviour of `MCBench` or `MCDevices` is one of
the programs with the others off; nothing is shared between them.

### How state and actions correspond to the code

- **MsgQueue.** Variables have the names of the struct's fields. Every access is
  inside one mutex section, so a section is an action: `Get`/`GetWait`,
  `Put`/`PutWait`, `Peek`. `pc[t]` says whether a thread is about to lock ("get",
  "put") or asleep on a condition. `pthread_cond_signal` wakes *some* sleeper,
  which has to win the mutex again against late callers; `SpuriousWakeup` is the
  one POSIX allows. Message contents are model values: nothing in the queue looks
  at them. The model lets every thread read and write, which is more than mudec
  does with it.
- **Mudec.** A command is the list of the queue puts, ioctls and assignments that
  its branch of the command loop makes, in the code's order, and `todo` is what is
  left of it; threads and DSP run between any two. `Type` is the parse of a
  command, the actions under `MainStep` execute one element. `cs` and `csa` are
  `Switch`, `crsd` and `crhd` are `Crsd` and `Crhd`. A thread is a `pc`: "init"
  (create the decoder), "begin" (wait for the first command), "drain" (look for a
  command between two frames), "request" (IAV_IOC_WAIT_DECODER), "feed", "paused",
  "exit_wait" (file at its end), "stop", "gone". The driver: `udec[i]` is the
  decoder's state, `mode[i]` its trickplay mode, `bits[i]` the frames in its fifo,
  `screen` what the renders show. `cur_feeding_pts` is abstracted to which of
  main's adjustments it counts from (`pts_base`), and its read-add-write by the
  thread is two steps. `last_msg` and `typed` are history. A stream switch is an ioctl that the
  driver may refuse (`switching[r]` is then unchanged), a wait for the DSP's report
  (`WaitSwitch`, which blocks main until `SwitchStream` has happened, also in `cw`), and the
  assignments behind it. A display command without a render (`Render`) is refused with -2,
  and the screen stays; otherwise the display ioctls are taken to succeed.
- **FrameReader.** A cell of the buffer holds the place in the file that its byte
  comes from, so lost, doubled and stale bytes show. `ScanByte` is one turn of
  `get_next_start_code` and `CountFrame` one of `total_frame_count`; `AfterTurns` gives
  the states of a loop after 0, 1, ... turns. `FeedFrame`, `Refill` and `FeedLast` are the
  branches of the feeding loop; the codes of the four kinds of stream are the code's table.
  The scan also looks at the byte behind the buffer: it is any of `Beyond`. If the last
  frame is longer than DATA_PARSE_MIN_SIZE the scan meets what an earlier fill left, `size`
  falls below zero and wraps (`WrappedSize`), and the next memcpy leaves the buffer (`Crash`).
- **BitsWriter.** A bit names the number and the place in it that it comes from.
  `WriteBits` is a call of `write_bits`, `WriteByte` a turn of its loop; the
  headers are the lists of those calls.
- **BitsFifo.** A byte is a pair (frame, place in the frame). `p_bsb_cur` may be
  the end of the ring, as `copy_to_bsb` leaves it. `Room` is how the driver, which
  is not in the repository, must count for `request_bits_fifo` to mean anything.
  `RequestFails` is the failed wait that none of the callers looks at: the copy goes on.
  `FeedAgain` begins again at the start of the ring, whatever the decoder has still to
  read. `unasked` is history: how often the thread wrote without room since everything was read.
- **Playback.** `menu` is where main is, also inside `pthread_join` or the signal
  handler's; `task` is where the thread is. The ring is the list of places where
  the frames end that the decoder has not read, counted from the first byte it has not
  read: what matters is how much of it is in use.
- **Mp4Mux.** Pictures and boxes are counts of bytes, words of the index are kept
  at their places in the file. `ProcessVideoData` is the function with its call of
  `IdxWriter`, `Stop` the last write of the index and `put_Mp4File`. The `_SIZE`
  macros and the sums of what each `put_` function puts are separate definitions,
  since the code writes a box's size before its contents. `ReadBack` is the loop
  that copies a table: a word is gone if what was put so far has passed its place.
- **SoftVsync.** Between two interrupts a thread is at "stamp", "post" or at its mutex
  ("sync"); main is at one of its waits. A time is its `tv_usec`, any number up to
  `MaxUsec`, since nothing else decides a branch. The two loops of `sem_trywait` are
  one step each: they end before the next interrupt.
- **NetTest.** `net` is where the receive thread is, `got` is `inLen - nleft`. A read
  takes any number of the bytes there are, up to what is left of the window;
  `ReadnReturns` is what the caller makes of the result. A connection is its state,
  the bytes sent and the ones not read; a reset loses the latter.
- **ConditionWait.** `m_CondMutex` is held through `Signal` and all of `Wait`
  except inside the timed wait, so `Signal` is one action and a wait at most three: up to the
  sleep, the end of the sleep (by a signal, spuriously or by timeout), and the rest once the
  mutex is taken again. A signal between the last two of a wait that timed out finds
  `m_Count` = -1, and is forgotten when the wait returns false and clears the count.
  `TimeIsUp` is enabled whenever the thread sleeps: the clock is not modelled.
- **SemaphoreMutex.** One action per system call; `undo` is the kernel's
  adjustment. `Kill` is possible at every step of a program, also of one that creates the
  semaphore ("lost"). Two programs may create it at once; a program whose semaphore was
  removed by another's failed creation is "stale". `raced` is history: a semget took a
  semaphore that was created since the program had looked.
- **IrCut.** The menu's assignments under `g_CtMsgLock`, its two pins and the
  callback's two pins are steps; `img_set_bw_mode` comes before the lock, as in
  the code.
- **EncoderControl.** One action per ioctl or message of either program. The
  driver is external: STOP, START, ENTER_IDLE and ENABLE_PREVIEW change its state
  or, where illegal, nothing. `lost`, `te_before` and `disturbed` are history: what
  ran at the loss or at the command's begin, and whether the two programs
  overlapped.
- **Recorder.** Both programs keep `encoding_states` with the same functions, so
  one module has both ways of reading: threads (`GetOneFrame`, `Write`,
  `CancelThread`) and the loop (`LookAtStreams`, `ReadBitstream`). A file is its
  session, its frames and its records; a descriptor is an index of a file. A file may be
  created under the name of the one before it, which empties that (`SameName`: the name
  holds the session and the second). Both files, one, or none may be created, a header,
  a record or a frame may fail to be written. `received`, `dropped` and `overwritten` are
  history: the frames read, those that could not be written, and those whose file was
  created again.
- **NandTest.** A thread's visit to a file is lock, open, work and unlock; `file`
  is what `fopen` and a reader would find: nothing, a file being written, a short one or a full
  one. An earlier run may have left any of the last two at the start, and a write may leave a
  short one, since nobody looks at what `fputc` and `fclose` return. A read that fails never
  sets feof and keeps its file locked ("stuck"). The handler's three joins, `fclose` and
  `close` are separate steps; `Fail` is `exit(1)`, and `Interrupt` Ctrl-C, with the
  threads anywhere.
- **GuardSdSpace.** One action per call of the main loop (`ReadConfig`,
  `CountFiles`, `ClearReread`, `FreeSpace`, `Delete`, `Sleep`), because the signal
  thread, the recorder and the card act between any two. A scan returns the files
  of the directory sorted by time, in any order that `scandir_cmp_time` allows: two of
  the run's three files are of one second. Without a configuration file `ReadMissing` makes
  one, with the default directory if that exists, and with no directory otherwise, which
  counts as success and leaves `scanned_dir` as it was.
  `missed`, the files on which `remove` failed, is history.

## Runs

A run asks what its programs must never do or must do in the end; each passing one
also checks the type invariant.

| Run | Instance | Question and answer |
|---|---|---|
| `msgqueue` | 3 threads, 2 messages, 2 slots | Wakeups, the refinement of `BoundedFifo` and service of sleepers hold. Three threads are the fewest with which a woken sleeper loses its message to a late caller while another still sleeps; two slots the fewest with a partly filled ring. |
| `mudec` | 1 + 1 streams, queue of 1 message, 2 commands of `q space s z csa cw crsd crhd cr`, Ctrl-C, failing ioctls | Nothing overflows; the last message is obeyed; what is shown is what is fed; main blocks for good in a put only on a dead thread or one whose decoder is held; otherwise, or unless main waits for a stream switch that the DSP never reports, the program ends. The queue of one message makes "full" happen within two commands; the code's 8 needs nine. |
| `mudec_crhd` (violation) | 3 commands of `space crhd` | `crhd` resumes the wrong decoder. |
| `mudec_pts` (violation) | 2 + 1 streams, one `cs` | a thread overwrites main's PTS adjustment. |
| `mudec_signal_hang` (violation) | one `space`, Ctrl-C | the join never returns. |
| `bench` | one of eight programs, see below | condtest, mudec's reader, headers and bits fifo, test_playback, test_mp4mux, test_soft_vsync and net_srv do what they should and end. |
| `devices` | one of four groups, see below | semcli's lock, IrCut_Test's mode, the encoder's streams and the recorders' files are what they should be. |
| `encoder_stale` (violation) | as in `devices` | a loss of vsync while nothing encodes starts streams. |
| `bsreader_leak` (violation) | 2 streams, 2 sessions, 3 frames | the frame info file of an ended stream stays open. |
| `nand` | 3 files, any leftovers | Nobody meets a file being written, order of life, result closed last, the signal ends the program or a failed read holds a file. With three files every thread may be at another one, or all want the same. |
| `guard` | 2 directories, room for 1 file, 3 files, two of one second, 2 edits, configuration file or none | The list belongs to the scanned directory; oldest first; main leaves the removing loop. Two edits are the way there and back. |
| `guard_sighup` (violation) | 1 file, 1 edit | a SIGHUP is lost. |

In `bench`:

- the **reader** gets every file of up to six short frames of four kinds of stream
  through a buffer of `MaxMem` = 17 bytes with `DATA_PARSE_MIN_SIZE` = 12, so that
  refills fall at every place in a frame; once, in a loop, or one trunk only. Two more
  sets have a frame that is longer than `DATA_PARSE_MIN_SIZE`, or than the buffer;
- the **headers** are written as the four layouts there are, in full;
- the **bits fifo** is a ring of 8 with frames of 1 and 2, headers of 1 and 1 and an
  end code of 1: a copy moves the pointer by 2 to 5, so every offset, wrap and exact fit
  occurs. There are as many frame numbers (`Numbers`) as bytes, so a number
  names one frame of the ring. One write without room (`MaxUnasked`) may happen until all is read;
- **test_playback** has a ring of 7, recordings of up to three frames, also ones that end
  with an IDR frame and one with a frame that never fits, played up to three times, and
  every sequence of keys and signals;
- **test_mp4mux** keeps two entries in memory (`IDX_SIZE`, 256 in the code), and gets
  recordings of up to five frames of two shapes with three GOP structures, with a
  right and a generous count of frames, with a count that is too small or IDR frames where
  the formula has none, and one of 800 frames: only with several
  hundred is the index larger than the spare room, so that Stop reads it from where
  it is writing;
- **test_soft_vsync** has differences of either sign (`MaxUsec` = 1) and semaphores of up to
  two posts (`MaxPosts`), also at the start: main is then ahead of a line, with it, or
  behind by more than one;
- **net_srv** has two clients of up to three bytes (`MaxSent`), a window of two and a socket of two
  (`SocketSize`): a window ends within a read, with one or after one, and a client in the middle of a window.

In `devices`: five programs of semcli, killed anywhere; IrCut_Test without a bound;
two streams, two losses of vsync (`MaxLosses`), one command of nine
(`MaxCommands`) and two tries to connect (`ConnectTries`), which makes a recovery
follow one that was broken off; two recorded streams, two sessions (`MaxSessions`)
and four frames (`MaxOutput`) of them, files of one frame, whose name repeats or not, and
one creation or write that fails (`MaxFailures`), which gives each stream a second session or both one.

Other bounds: `MaxCount` and `MaxEcho` (MsgQueue), `MaxCmds` (Mudec), `MaxFiles` and
`MaxEdits` (GuardSdSpace), `MaxUnasked` (BitsFifo) cap what the code leaves unbounded; each is
in the guard of what grows. `MaxCount` holds back spurious wakeups only, with enough slack that
a woken thread can always wait again, so it blocks no step the code must take.

Deadlock is not checked: in every run the system may really stop. Everybody is
asleep on an empty queue with no caller left, a program has ended, or its bounded
surroundings are used up. That nobody stops too early is what the liveness
properties say (`SleepersServed`, `QuitUnlessStuck`, `FeedingGoesOn`,
`PlaybackEnds`, `CondtestEnds`, `DifferencesPrinted`, `ClientsRecorded`,
`LossesAnswered`, `OutputRead`, `AbortCompletes`, `SpaceRestored`).

### Fairness

- Threads of a program and the DSP are weakly fair: they are scheduled and
  none has real-time priority over another. `MsgQueue` also takes it that a thread that
  keeps asking for the mutex gets it; nobody has to call the queue.
- `CondtestFairness`: both threads run, and a timed wait ends; no wakeup need be spurious. `ReaderFairness`: the
  one thread runs. `FifoFairness`: the feeder and the decoder run. `PlaybackFairness`:
  the thread, a join that can return, and a decoder that is not paused.
  `VsyncFairness`: main runs and both lines go on interrupting. `NetFairness`: the
  receive thread runs; clients need not send, stop or connect.
- `EncoderFairness`: the guard's loop and a command that was begun go on.
  `RecorderFairness`: the recorder's threads or loop go on, each thread for itself.
- The operator, signals, failures, losses of vsync, the encoder's sessions, the
  recorder beside the guard and the card are never fair.
- In `NandTest` a thread is fair, but which of two waiters gets a mutex is left
  open: a waiter is disabled while another holds the mutex, and weak fairness
  does not help it. `AbortCompletes` holds without, since every visit is
  finite and `goon_flag` stops new ones.

## Findings

- **`crhd` resumes another decoder than it shows** (`mudec.c:2915`). The branch
  passes `switch_new_udec_id`, a variable of the commands that parse a number, and
  a full-screen decoder that was paused stays so when it is shown.
- **A PTS adjustment can be lost** (`mudec.c:2329`). Main writes
  `cur_feeding_pts`; the thread may have read it and write back its sum after.
  The struct's comment (line 1126) says its members must not be used that way.
- **Ctrl-C may hang** (`mudec.c:2135`). The handler only clears `mdec_running`. If
  a decoder is paused its thread sits in IAV_IOC_WAIT_DECODER, M_MSG_KILL is not
  read, and the join blocks. `q` resumes all decoders first, and `QuitUnlessStuck`
  holds for it.
- **A SIGHUP may be lost** (`guard_sd_space.c:329`). `need_reread` is cleared after
  the configuration was read; a signal in between leaves the old directory in use.
- **Streams that nobody lost are started** (gkamba: `guard_vsync_loss.c:211`). When
  nothing encodes, `stop_all_encode_streams` returns before it assigns
  `encode_streams`, which keeps the streams of an earlier loss, and they are started.
- **A descriptor is lost per session** (`test_bsreader.c:552`, `test_stream.c:662`).
  At the end of a stream `amba_transfer_close` is called with `fd`, just set to -1,
  where `fd_info` is meant, and `fd_info` is forgotten.

Two disagreements that no run shows. `test_mp4mux` reads the `.info` file of a
recording as version, frame count, size, format and configuration, and its usage
line (1857) says that `test_stream --frame-info` makes it; test_stream writes
version, size and configuration (`test_stream.c:436`). And the numbers of the sync
samples come from a formula (`test_mp4mux.c:534`) that holds from the start of a
stream, but for M > 1 not for a recording that begins at a later IDR frame.

## Proofs

`tlapm` checks the theorems below for every value of the constants that the named
`ASSUME`s allow. Every invariant that a passing run checks is one of them, and so are the
action properties (`OldestFirst`, `CommandResult`, `RingFreshForTask`) and both refinements.
`StreamsKept` of `NetTest`, the safety behind the run's `ClientsRecorded`, is proved only.

| Theorem | States | Hypotheses beyond the module's `ASSUME` |
|---|---|---|
| `MsgQueueProofs` `TypeCorrect`, `NoLostWakeup`, `QueueNeverStalls` | `TypeOK`, `NoWakeupLost`, `NoMutualSleep` | |
| `MsgQueueProofs` `IndicesStayTogether`, `RefinesFifo` | `IndicesAgree`, `ImplementsFifo` | |
| `MudecProofs` `Types`, `CommandObeyed` | `TypeOK`, `LastCommandObeyed` | |
| `MudecProofs` `ShownFed` | `ShownAreFed` | |
| `BitsFifoProofs` `FedFramesIntact`, `FifoTyped` | `FramesIntact`, `FifoTypeOK` | `bsb_size <= Numbers` |
| `BitsFifoProofs` `HeadersAsLaidOut` | `HeadersWritten` | |
| `BitsFifoProofs` `FilesFedWhole` | `WholeFramesFed` | |
| `BenchProofs` `LatchKeepsSignals` | `NoSignalLost` | |
| `BenchProofs` `RingNotOverrun`, `ThreadFindsRingEmpty` | `BsbNotOverrun`, `RingFreshForTask` | |
| `BenchProofs` `MuxedFileSound` | `Mp4FileSound` | |
| `BenchProofs` `StreamsRecorded` | `StreamsKept` | |
| `BenchProofs` `BenchSafe` | `TypeOK` of `MCBench` and every invariant of the `bench` run, of its `Spec` | `bsb_size <= Numbers` |
| `RecorderProofs` `Recorded` | `FilesSound` | |
| `DevicesProofs` `LockExcludes`, `LockSurvivesCrashes` | `MutualExclusion`, `NeverWedged` | |
| `DevicesProofs` `ManualModeStays` | `ManualModeKept` | |
| `DevicesProofs` `LossRecovered`, `CommandDoes` | `RecoveryRestores`, `CommandResult` | |
| `DevicesProofs` `DevicesSafe` | `DevicesTypeOK` and every invariant of the `devices` run, of `DevicesSpec` | |
| `NandTestProofs` `NandTypes`, `WritesUndisturbed`, `ResultSafe` | `TypeOK`, `NobodyMeetsAWrite`, `ResultClosedLast` | |
| `NandTestProofs` `RefinesLifecycle` | `ImplementsLifecycle` | |
| `GuardSdSpaceProofs` `GuardTypes`, `NamesBelongToDir`, `OldestGoesFirst` | `TypeOK`, `ListOfScannedDir`, `OldestFirst` | |

### The hypotheses, and what the properties except

`bsb_size <= Numbers` is the only hypothesis beyond the modules' `ASSUME`s. It is about the
history variables alone: a frame takes a byte at least, so with as many numbers as bytes two
frames in the ring never have the same one, and a byte tells whose it is.

Where the code lets something go wrong the model has it too, and the property says in
what case: it is not an assumption of the theorem. These are the exceptions.

- `ShownAreFed`: when mudec starts by showing high resolution streams, it sets up a render
  for the first of them only (`mudec.c:2503`), but lets the threads of all of them feed
  without a command (`mudec.c:2574`): with two, the second is fed and not shown until the
  first display command. And `crhd` without high resolution streams has no render to show: the
  ioctl is refused (`mudec.c:2231`), the small streams stay on the screen, and their
  threads are paused (2921).
- `FramesIntact`: after a request that failed for want of room (`mudec.c:1385`, ignored at 1749,
  1814, 1917, 1982), or a restart over unread frames (2088, 2102), a frame may be spoilt,
  until the thread begins a frame and finds everything read.
- `WholeFramesFed`: a frame longer than DATA_PARSE_MIN_SIZE (`FramesFit`) may be cut
  anywhere, and a last one makes `size` wrap (1795) and the thread crash.
- `NoSignalLost`: a signal between the timeout of a wait and its return (`condtest.cpp:111`).
- `BsbNotOverrun`: the end code behind a last IDR frame (`test_playback.c:602`), by its length.
- `Mp4FileSound`: the header of the `.info` file is right (`HeaderRight`); see "Findings".
- `MutualExclusion`, `NeverWedged`: until a semget without IPC_EXCL has taken a semaphore that
  another program created meanwhile (`raced`). `NeverWedged` also names the creator that
  was killed before SETVAL: it leaves a semaphore at 0 that nobody may ever take.
- `FilesSound`: what could not be written is in no file, and with -S a file may be
  created again under its name (`test_stream.c:498`), which loses what it had.
- `RecoveryRestores`, `CommandResult`: a recovery or a command that had the encoder to
  itself. That overlapping ones, or a recovery broken off by a signal, come out right is false of
  this code, and nothing claims it.

### The arguments

- **Queue.** That each message has a reader on its way depends on the counters never
  having skipped a signal, so the invariant is the conjunction `NoWakeupLost` of
  `CountersCoverSleepers` and the two wakeup properties; none is inductive alone. Each
  action moves one thread between two states, at most one more by a signal, and the
  lemmas (`CountType`, `MoveOne`, `MoveCounts`) turn that into sums, after which each case
  is arithmetic. For the refinement `IndicesAgree` is inductive with `TypeOK`; under it a
  put appends to `Contents`, a get or peek takes its head, and every other step stutters.
- **Player.** `MudecInv` adds to the types that every element of `todo` is one of `Steps`,
  the steps a command is made of, and that what a thread does follows from its queue:
  the last element of a non-empty queue is `last_msg`, and with an empty one the thread
  obeys `last_msg` (`Obeys`). `FedInv` looks ahead for `ShownAreFed`: in the middle of a
  command the screen and the messages sent do not agree, but the steps that are left make
  them (`FedPlan`, with `Target` the streams that will be shown). The lemmas `EachSteps` and
  `DisplaySteps` say which steps the list of a command holds, whatever the number of streams.
- **Bits fifo.** Addresses are compared by how far they lie behind `p_bsb_cur`
  (`Distance`), which no wrap disturbs. `FifoInv` says that the frames in the ring follow
  each other in that order (`FramesInOrder`), that the oldest leaves the room that was asked for
  (`RoomKept`), that what is written of the next frame is its beginning (`Writing`), and
  that the numbers differ (`Numbered`). A byte is then written only where no frame is
  (`Apart`), and `Given`, which implies `FramesIntact`, is kept. All of that holds while
  `unasked` is 0; that a copy fits the ring (`Fits`) and the types hold always, and once
  everything was read the rest holds again, of no frames.
- **Headers.** `Starts` says at which bit each field of a layout begins. `WriterInv` says that
  what was asked for are the bits of the fields taken so far (`FieldsAsked`), that they are in
  the buffer as far as the writer has come and the rest of them still in the value
  (`InBuffer`), and that `left_bytes` and `left_bits` tell that place (`Counts`). That the layouts fill their headers and hold
  each split number once is arithmetic on the four tables.
- **File reader.** `get_next_start_code` is a loop over any number of bytes, so its lemmas go by
  induction. The library's theorems about it are out of reach, as they take an operator as a
  parameter; `NatSetInduction` states it for a set and rests on a least counterexample, and
  `Iteration` shows that the recursive function of `AfterTurns` takes its turns. A scan depends
  on the bytes it has passed alone (`ScanLocal`), a result stays (`ScanSticks`), and from a
  frame's start it finds that frame's end (`CutFound`) or, if it sees only a part of the rest of
  the file that is longer than any frame, that end or none (`CutNotMistaken`); from the last
  frame's start it finds nothing, whatever the byte behind (`NoneBehind`). `ReaderInv` then says
  that the buffer is a window of the file at the place that was fed up to (`Window`), that what
  was fed are the frames (`Fed`), and what the end looks like (`Ended`).
- **condtest.** With the types `NoSignalLost` is inductive, since a signal meets the latch
  empty, waited for or already set; one that meets a timeout is noted as late.
- **test_playback.** The ends of the unread frames ascend (`Ends`), so reading one frees
  exactly its bytes. `RoomLeft` carries what was asked for to the copy, and past the last
  frame to the end code: that frame asked for a GOP header and wrote none, unless it was an
  IDR frame.
- **test_mp4mux.** `MuxInv` takes the index as one sequence, of which the first entries are in the
  file and the others in memory (`EntryAt`): it tells the pictures one behind the other up to
  `curPos` (`IndexRight`). In the file the entries are at the places in front of the pictures
  that the layout of the boxes leaves (`IndexKept`), clear of each other, of the pictures and of
  the parameter sets (`SetsKnown`). In Stop a word of the index lies at or above the place of the
  table it goes to, so it is read before it is overwritten, in pieces of any size
  (`ReadBackFinds`). `IdrCounted` follows the formula for the sync samples, which skips none.
- **test_soft_vsync.** The types need that main holds `base_sync` in just some of its states and
  that a line posts only below the semaphore's limit (`VsyncInv`).
- **net_srv.** `NetInv` adds to `StreamsKept` that the file has nothing of a client beyond what was
  read from it (`FileBehind`), and that a piece that was read and is not written continues what
  the file has of its client, up to all that was read (`PieceInHand`). A client that was reset
  loses what was not read, no more.
- **bench.** `BenchInv`: each program keeps its invariant or is off and stays off, as in `devices`.
- **Recorders.** `RecorderInv` is stated per stream, as operators of its queue, descriptors,
  files and frame in hand, since a step touches one stream and the other way of reading
  shares all of it. `InQueue` and `Ahead` say that the encoder's output comes in order and
  behind what was read, so that a session id that differs is a later one; `OpenOne` that
  the open file is the last, of the session known, with as many frames as `total_bytes`
  counts; `InHand` that a frame between its record and its write has an open file;
  `Kept` and `CutRight` are `FilesSound` with what of it has to hold in that moment. A
  failed open leaves the session noted and no descriptor, which `Ahead` takes in: what
  comes of that session is dropped, and the next session opens its own file. A file that
  is created again under its name stays in the list as an empty one (`Emptied`). This proof
  found `FdInfo` of the model written with two CASE guards that could both hold, so that
  its value was not determined; they exclude each other now, as the code's branches do.
- **semcli.** `LockInv` says, as long as nothing was raced, that a semaphore has one owner at
  most (`OneOwner`: its holder, its creator, or a creator that was killed), that the value is 0
  exactly while there is one (`ValueOfOwner`), and that an adjustment is 1 exactly for the
  holder (`UndoOfHolder`); that is why a kill restores the value and no more.
- **IrCut_Test.** `ManualInv` follows the menu's command from its assignments to its second
  pin: from the assignment on no callback is at the pins.
- **Encoder.** The driver encodes exactly when it has streams (`DriverState`), and for a
  recovery or a command that had the encoder to itself `RecoveryAt` and `CommandAt` say
  which streams run between two of its ioctls. That no more losses are answered than there
  were (part of `DevicesTypeOK`) is a count over the messages not read yet (`Answers`).
- **devices.** `DevicesSafe`: a step of the composition is a step or a stutter of each
  program, also of the ones that are off, so it keeps the conjunction of their invariants.
- **test_nand.** `NandInv` adds that a thread between lock and unlock holds its file's
  mutex (`HoldsMutex`), hence that what it saw at `fopen` still holds (`WorkerKnows`), that only
  the file the writer is at is being written (`FilesClosed`), and which threads have ended at
  each stage of the handler (`Joined`).
- **guard_sd_space.** Files are removed long after the scan, so `GuardInv` says what the
  list still knows: it is sorted (`ListSorted`), and every file of the scanned directory is
  in the list, could not be removed, or is newer than all of the list (`ListCovers`);
  `PhaseKnows` adds that the scanned directory is the configured one wherever files are
  removed.

### What is only model-checked

Liveness: `SleepersServed`, `QuitUnlessStuck`, `FeedingGoesOn`, `PlaybackEnds`, `CondtestEnds`,
`DifferencesPrinted`, `ClientsRecorded`, `LossesAnswered`, `OutputRead`, `AbortCompletes`,
`SpaceRestored`, `BlockedOnlyByStuckThread`. The prover handles neither fairness nor ENABLED.

## Assumptions, and what is left out

- semcli: `semop`'s result is ignored by the code (line 114); the model has no interrupted call.
- mudec: a failed IAV_IOC_WAIT_DECODER of a running decoder is in `BitsFifo`, where it
  matters for the bytes, and not in `Mudec`, whose fifo is a count of frames.
- `BitsFifoAssumption`: the largest frame fits. The code takes any
  `--bits-fifo` size and any file, and would wait for ever. Whether a restart over
  unread bytes occurs depends on how the driver counts room, which is not in the repository.
- `FrameReaderAssumption`: the frames of a file are those that `get_next_start_code` finds if it
  sees all of it, and behind the last it finds nothing, whatever byte follows. How long they
  are is not assumed.
- `PlaybackAssumption`: the GOP header is at least as long as the end code. The device is opened
  for blocking calls, so EAGAIN does not occur.
- `MuxAssumption`: a recording repeats its parameter sets unchanged, in front of I and IDR
  frames and in units of 5 to 65 bytes, for which the room in the file is made. Of the
  times the number of their picture is kept. The two FILEs are buffered separately, so a
  word may be read back that is already overwritten in the other's buffer: the model, in which
  writes take effect at once, is the harder case.
- Recorders: the file of a second session never has the name of the first's, as the session
  number is part of it; a split file has the name of the one before or a new one, since
  the clock does not go back.
- test_soft_vsync: the difference that is printed is of the last two times, not of two
  interrupts that belong together; nothing says which do. The pins and the mode with
  one line are left out.
- net_srv: `ClientsRecorded` is stated for runs without a failing write. A write that
  fails at the begin of a window is taken for the client's end (line 389): the server
  waits for another client and never closes this one, which in the end waits for room.
  `sigstop` frees the window while the thread may read into it; the process ends
  right after.
- An empty file with `--loop` makes a thread of mudec spin without reading its queue
  (`FileFrames = 0`, `mdec_loop = TRUE` refutes `QuitCompletes`); the runs feed files that have frames.
- After `cs`, `csa` or `cr` the operator has to update the display: `crsd` then shows streams
  that are not fed, and a plain `cs` may pause a stream that another render shows.
  `ShownAreFed` is stated for displays on which no stream was switched. mudec's tables have one entry per
  stream, while `cs` accepts render numbers up to 3; the model lets it name only the entries there are.
- The driver refuses ioctls that are illegal in its state and changes nothing
  (`EncoderControl`); the ioctls that read its state return it as it is at one moment.
  The channel option of test_encode is left out.
- test_nand's second join of the deleter is undefined; the model has it return at
  once. The reader is never joined and may print to the closed `fd_null`; nothing
  says what should hold for it.
- guard: the recorder's clock does not go back, and a file keeps its time (`GuardAssumption`);
  not modelled are `scandir` that fails after `chdir` worked, two directories with files of the
  same name, and daemonizing (compiled out).
  `kill(tid, SIGTERM)` is modelled as the failure it is: with no regular file left
  and the card still full, main spins.
- `CSemaphoreMutex::Lock` and `IsLocked` are called by nothing.
- Failures of `malloc`, `pthread_create` and of opening a device end the programs
  at their start.

### Not modelled

Option parsing of mudec and test_encode (before any thread or phase starts); the
overlay, privacy mask, dptz and motion tests (an ioctl per option); test2 and test3
(older, sequential forms of mudec); ucode loader and DSP logs (copies); sd_write and sd_test (timing loops with a stop flag); image
quality tables and the MDIN3xx driver (numeric, vendored); mini_httpd, ntpclient
and the benchmarks (third-party); the tests of the vendor's libraries (the
libraries are not here); the rest of the gkamba tree, which is an older copy of the
same programs. These make up most of the repository's lines, and what they keep
between two calls is a few flags.

## Plan

What is left, in this order:

1. `GuardSdSpace`: a `scandir` that fails half way.
2. A composition of `Mudec` with `MsgQueue` instances in place of sequences.

Small new components join the `bench` or `devices` run, as those there do.
