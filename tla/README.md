# A TLA+ model of myx

myx is a set of programs around one graphics card, the AMD Evergreen, that grew from the register level upwards:
a page-flipping display server, a Linux PCI driver with an AtomBIOS interpreter, a port of Haiku's `radeon_hd`
accelerant that sets modes from user space, a shader disassembler, command streams for the 3D engine, a bare-metal
kernel with a console, and a small X window manager. This directory holds TLA+ modules for the parts that have
state worth reasoning about, TLC runs over small instances of them, and TLAPS proofs for fourteen of the components.

1. [The system](#1-the-system): parts, state, operations, what is hard
2. [The modules](#2-the-modules): how each corresponds to the code
3. [The runs](#3-the-runs): what each one shows, its bounds, its fairness
4. [The proofs](#4-the-proofs)
5. [Where code and promise differ](#5-where-code-and-promise-differ)
6. [Not modelled](#6-not-modelled), [plan](#7-plan)

`PROJECT.json` lists the parts with their sources, the runs, for each property a mutation of the code that breaks
it, the lines each definition stands for, the hazards and the theorems.

## 1. The system

All paths are below `src/`. The programs do not run together; what they share is the card, and copies of code
(the AtomBIOS interpreter exists in `drm/` and in `haiku/user/radeon_hd/`).

| part | state | operations | what is hard | what makes it correct |
|---|---|---|---|---|
| **Display server** `server/main.c` | `fb_fifo`: `fb_val[]`, two mutexes, two conditions; `rp`, `wp`, `old_rp`; the kernel's pending flip; the cursor | `main()` paints, `frame_update()` flips, `user_abort()` on SIGINT | two threads, two locks for one array, signals outside the mutex, flips that complete later, a signal handler | never paint what is scanned out, each frame once and in order, no lost wakeup, console restored on exit |
| **Ring queue** `haiku/user/radeon_hd/ringqueue.cpp` | the bytes, read and write pointer, free count | `Write`, `Read`, `Empty`, size of the constructor | wrap in one or two copies, full looks like empty in the pointers | a bounded byte pipe |
| **AtomBIOS interpreter** `haiku/user/radeon_hd/atombios/atom.cpp`, `drm/atombios/atom.c` | the context (flags, blocks, IO mode, division result) shared by all calls; a frame per nested table; a semaphore | `atom_execute_table`, some 120 opcodes | two threads, nested aborts, loops on registers that never change, sub-word operands | one thread at a time with its own context, faults reach the driver, every call returns, only the addressed lane changes |
| **Mode setting** `haiku/user/radeon_hd/{mode,encoder,display,pll}.cpp` | `gDisplay[]`, `gInfo->dpms_mode`, and the card: CRTCs, PLLs, DIG encoders, transmitters, outputs, external encoders | `radeon_set_display_mode`, `radeon_dpms_set` | a call is some thirty BIOS commands, different on each generation of card, through encoders in series | a path is taken down before it is changed, and after the call the whole path agrees on the mode |
| **DisplayPort link** `displayport.cpp`, `common/dp.cpp` | `dp_info` of the connector; the sink's registers | set-up, lanes and rate, `dp_link_train` | AUX transactions that fail, retries, a training that both ends must follow | the link carries the mode, both ends train alike, the training ends |
| **I2C bus** `common/i2c.c`, pins in `connector.cpp` | two wires, the buffers | `i2c_send_receive` | clock stretching, a timeout after any bit, the order of two wires | the bytes arrive, no accidental start or stop, the bus is let go |
| **DDC and EDID** `common/ddc.c`, `decode_edid.c` | none | `ddc2_read` with four tries | retries on a bus the failed try left in the middle | an EDID is believed only if its checksum is right |
| **Mode list** `common/compute_display_timing.cpp`, `create_display_modes.cpp` | the growing list, the monitor's ranges | four sources of modes, colour spaces, filter, sort, area | sources that name the same modes, an unstable sort, memory that ends on the way | what the EDID asks for is offered, once, in order, and nothing the monitor cannot follow |
| **Connectors and GPIO** `connector.cpp` | `gConnector[]`, `gGPIOInfo[]` | reading BIOS tables, `gpio_lock_i2c` | pins taken and given back around an EDID read | pins are given back on every path |
| **Accelerant** `accelerant.cpp`, `hooks.cpp`, `engine.cpp`, `bios.cpp` | `gInfo`, areas, tables | init, clone, uninit, engine lock | failing steps | nothing leaks, nothing is freed twice |
| **GPU and memory controller** `gpu.cpp`, `drm/evergreen.c` | registers | reset, halt, wait, resume | a controller that does not become idle | displays stopped and resumed as they were |
| **Linux driver** `drm/main.c`, **Haiku driver** `haiku/kernel/` | mappings, device numbers, proc entry | probe, remove, ioctls | six resources with error exits | each exit gives back what was taken |
| **Console kernel** `kernel/{console,readline,printf}.c` | screen and cursor, line buffer, circular input buffer, keyboard flags | `cga_putc`, `readline`, `cons_intr`, `getchar`, `kbd_proc_data` | wrap and scroll under a line being edited, a buffer without a full test, prefixes split over polls | the screen shows the line, no character out of order, no stuck modifier |
| **Formatted output, memory** `kernel/{printfmt,string}.c` | an escape being read, the rest of the buffer | `vprintfmt`, `snprintf`, `memmove` | fields, precision and buffer all cut or fill; regions that overlap | text says what was asked for and stays in its buffer; bytes arrive |
| **Containers of the disassembler** `disassembler/{list,misc}.c` | a circular growing vector; words of bits | every operation of `list.h`, the sort, the bit maps | wrapped vectors, unguarded scans, fields across words | a sequence; a sorted permutation; exact fields |
| **Disassembler** `disassembler/*` | format tables, the walk through a program | which slot is an instruction, which clause ends | literals between instructions, bits that mean an end only in some of them | a program is listed as it was written |
| **Window manager** `wm/main.cpp` | a map of frames | map, expose, damage events | events queued while clients come and go | one frame per client |
| **3D batches** `gpu/*` | buffers, one command stream, caches of the card; shaders | draw calls as register writes | accounting by hand, stale caches, clauses that run ahead | the stream is whole, each pixel is computed from what it should be |
| **X library, demos, register headers** `lib/`, `compiler/`, `hello/`, `randr/`, `sdl/`, `include/`, `gpu/*_reg*.h` | none | | | |

How they interact: `radeon_set_display_mode` asks DisplayPort for a link, executes BIOS tables through the
interpreter for everything it does to the card, and trains the link in the middle of the sequence; DisplayPort sends
AUX transactions through BIOS tables; EDID reads go over I2C, whose pins the connector owns. The console's
`getchar` polls the serial port and the keyboard, both feed one input buffer, `readline` reads from it and writes to
the screen. The display server talks to the kernel's mode setting driver through flips and events.

## 2. The modules

A component has one module, or a few that build on each other; an `MC` module gives several of them small
instances. Modules of one program that share no variable run in one instance: a variable `part` chooses one of them
at the beginning of a behaviour and the others keep a first value. The reachable states are the sum of the parts',
not their product, every property of a part is checked on all of that part, and nothing is claimed of their
interaction, since the code has none at this level. Where components do interact they are composed: DDC extends the
I2C bus it runs on, the command stream extends the shaders it starts, the interrupt extends the server it interrupts.

### Display server: `FbFifo`, `FbAbort`, `FrameQueue`, `FbFifoRefinement`, `FbFifoProofs`

`FbFifo` has one action for each step of either thread that another thread could see: locking, testing, waiting
(which gives the mutex back), unlocking, painting (begin and end, so that a half-painted frame is a state), marking,
signalling, flipping, waiting for the event, releasing, advancing. `ppc` and `dpc` are the places of `main()` and
`frame_update()`. `VBlank`, the kernel that latches a pending flip and queues its event, and `SpuriousWakeup` are
the environment. A picture is the tick of the clock it shows (the two angles of `draw_frame`).

`FbAbort` extends it with SIGINT: the handler runs on one of the two threads, which stands still meanwhile, and
does its calls one at a time while the other goes on, until `exit(0)` or a failing assertion ends the process.

`FrameQueue` is what the server promises: a bounded queue of painted frames between a painter and a screen.
`FbFifoRefinement` maps the slots between the one on the screen and `wp` to that queue.

### Window manager: `WindowManager`, `WindowManagerProofs`

Clients map, draw in, unmap and destroy their windows; the server queues an event for each (at most `QueueLen`
wait). The manager takes one event (`Manager` in steps: the frame is made, the window is put into it), and each of
its requests may find the window gone, which ends it. `windows` is the manager's record, kept by frame and asked by client.
`Bindable` are the clients whose pixmap the X server can bind; the others end the manager, as the code does.

### 3D engine: `Shader`, `CommandStream`, `MCDesktop`

`Shader` holds the eight shaders of `evergreen_shader.c` as control programs and clauses with the addresses and
lengths written in the source, mega fetches and the fetches of what they brought, and the sequencer: a clause started without barrier may end at any time before the
next barrier, so all orders of their effects are behaviours. A value is the set of what it was computed from; `PixelRight` says
what a pixel should have been computed from.
`CommandStream` is `gpu_draw()` element by element: buffers are created and written, batches begun and ended with
the lengths in the code, addresses named by relocations, and after the submit the command processor takes packet
by packet. `stale` are the ranges that caches may hold old contents of, `unflushed` the drawn picture that is not in
memory yet. `MCDesktop` runs this, the shaders alone, the window manager and the interrupted server.

### Ring queue: `RingQueue`, `BytePipe`, `RingQueueRefinement`, `DriverProofs`

`Write`, `Read` and `Empty` with the code's variables. `Stored` and `Fetched` are the one or two `memcpy` of a
call. Bytes are stamps that repeat after more than a ring, so that a lost, doubled or moved byte shows. `BytePipe`
is the abstract pipe. The module of the refinement also checks `compute_order` for every request up to 300.

### AtomBIOS: `AtomExec`, `AtomOperand`, `CardProofs`

`AtomExec` is the control of the accelerant's copy: a call takes the semaphore or times out (`Acquire`,
`AcquireTimesOut`), sets up the context (`Start`), pushes a frame per table, and executes opcodes until EOT or an
abort; `Aborted` is the check before the next opcode that unwinds the callers one by one. `Jump` has the age of the
identical jumps in seconds. A comparison finds anything, so every path of a table is taken.

`AtomOperand` is one instruction on the registers: for every opcode with operands, every alignment of source and
destination. `Source` and `Store` follow `atom_get_src_int` and `atom_put_dst`, with the memory-controller
registers whose reads the code leaves unset (`Unset`). The two share only the flags, which each treats whole.

### What the drivers keep: `MemoryController`, `Detect`, `DriverSetup`, `MCCard`, `CardProofs`, `DriverProofs`

`MemoryController` takes the procedures of the accelerant (`radeon_gpu_mc_setup`, `radeon_gpu_reset`) and of the
Linux driver (`evergreen_mc_program`) as sequences of register accesses, one per step. A write under an update lock
waits for the unlock (`waiting`). `before` remembers the displays as they were; the controller becomes idle or not.
An access is one of `WriteReg`, `RestoreReg` (what was read is put back), `StopCrtc`, `StartCrtc` and the reads, and
`EvergreenCrtcs` is how many CRTCs the newest cards have.

`Detect` reads pins and connectors from the BIOS (object table or legacy), and gives CRTCs to connectors on which a
monitor is found. What an EDID read returns is the monitor in the jack the pins lead to, whichever connector asks: a
DVI-I jack has two connectors on one pair of pins. A connector may have no line, or one whose pin the table does not
hold. The proofs are in `DisplayPathProofs`, next to those of the link.

`DriverSetup` has the procedures of three drivers as sequences of steps, each of which may fail and then
undoes what the code undoes; `held` is what the driver has, and a card comes and goes at any time for
the kernel drivers. What the code never gives back (`Leaked`) is excepted by name.

### Pixel clock: `Pll`

`pll_set` in its three steps: flags, the adjustment of the BIOS, the search over reference and post dividers with
the feedback divider in tenths. The connector keeps flags and dividers from mode to mode. `MCCard` has nine cards
and seventeen clocks in kHz, with the limits of real ones.

### Console kernel: `Console`, `ConsBuffer`, `Keyboard`, `Format`, `MemMove`, `KernelConsoleProofs`, `MCKernelConsole`

`Console` is `cga_putc` as `Putc`, and `readline` as four actions, each of them a key with everything it makes
`cga_putc` do. It starts with any text the firmware left, at any cursor.
`ConsBuffer` is the circular buffer with both devices: bytes arrive at any time, `getchar` polls one device after
the other (`Poll` moves all it holds), takes one (`Grab`) or polls again (`GrabNone`). `Keyboard` has the keyboard
itself, which sends scan codes with prefixes and repeats for keys that are down, and the driver as one action per
byte. The scan-code tables are reduced to what tells the keys apart.

`Format` is `vprintfmt` as it goes through a format: an action for a literal character, for each kind of character
inside an escape, and for a conversion, which puts all its characters at once. A format is a sequence of characters,
an argument a number or a sequence; integers have the width the length flag gives them. `fields` remembers each
conversion with what it put, and `ReadsBack` reads numbers back with `strtol` of the same library. `MemMove` is the
choice of direction and unit, and then one round of the machine's string instruction per step; a byte is the
address it came from.

### Disassembler: `List`, `ElementList`, `ListRefinement`, `QuickSort`, `DisassemblerProofs`, `BitMap`, `Disassembler`, `MCDisassembler`

`List` is the vector with head, tail, count and size, including the move of the shorter half and the unrolling copy
of `list_grow`. `ElementList` is `list.h`: a sequence, a return value and an error code for each call, and
`ListRefinement` the mapping. `QuickSort` is `list_sort` with its scans one step at a time. In `BitMap` a word is
the set of its bits, so masks are intersections and shifts move numbers.

`Disassembler` sorts the instructions of `evergreen-asm.dat` into its tables (by format and opcode, the last entry
of two winning) and walks a program: control instructions to the one that ends it, behind each the groups of its
clause, with units given as in `evg_inst_slot_dump_buf`'s callers and with literals, which take slots. `MCDisassembler` builds
programs in which clauses lie in any order, loops nest, groups are full and literals lie between them.

### I2C and DDC: `I2C`, `Ddc`, `DisplayPathProofs`

`i2c_send_receive` is straight-line code but for its timeouts, so here it is the sequence of the things it does to
the wires (`code`, with `next_op`): an operator per function of the source. A timeout jumps to the code's error path. A
wire is low when either side pulls it. The slave is external: it may hold the clock, refuse a byte or acknowledge
late. `Ddc` is `connector_read_edid` and the tries of `ddc2_read` on top of it: a retry meets the slave as the failed
one left it. The monitor has an EDID of a version the code knows, one of another, or is off and holds the wire.

### DisplayPort: `DisplayPort`, `DisplayPathProofs`

One connector. `SetupConnectors` reads what the sink can do, `ChooseLink` is the beginning of a mode set, `Train`
is `dp_link_train` in steps between its delays. Every AUX transaction has all outcomes its retries can leave
(`Outcomes`), and writes may be lost without the code's noticing; `lost` says that one was, or that the sink's lanes
could not be read. The sink is told all the lanes it has, not those in use. It follows its registers and reports any
lanes as locked.

### Mode setting: `ModeSet`, `ModeSetProofs`, `MCDisplayPath`

A function of the code is the sequence of BIOS commands it executes for a board; a call of the accelerant puts that
sequence into `todo`, and `Command` executes the next one on the card. So the order of the code is the order of a
sequence, and its branches (by generation of display engine, by kind of encoder and connector) are conditions of an
operator that has the name of the function. What a command does to the card is known from how the driver uses it.
A mode stands for its timing, clock and layout. There are fourteen boards: every kind of encoder with every
generation that treats it differently, one display and two, neighbours on one transmitter, external encoders,
DisplayPort bridges and televisions. A card has one TV encoder (`tv`), which each analog display sets or turns off, and
a data format for each CRTC (`interleave`), which `encoder_apply_quirks` writes. `MCDisplayPath` runs the training, an EDID read, the list of modes and the mode set.

### Mode list: `DisplayTiming`, `ModeList`

`DisplayTiming` is the timing formula and the questions the driver asks of a timing. The code computes in floats
and rounds to lines, character cells and kilohertz; the module computes in fractions and rounds at the same places.
Both were compared on 62,912 sizes and rates: 98.3 % of the timings are equal, one size (1288 x 724 at 60 Hz) rounds
to another number of cells, and the rest differ by one kHz of the pixel clock, which the properties allow.

`ModeList` is `create_display_modes()`, one action per source and per pass over the list: the EDID's established,
standard and detailed timings, the driver's table for sizes the EDID does not name (all of it without an EDID), a copy
for each colour space, the filter of the accelerant, the sort (stable and the other way round, as `qsort` promises
neither), the removal of duplicates, and the area. `memory` is how many modes the heap has room for; where it ends a
mode, or a whole source, is left out and the list goes on, as in the code.

## 3. The runs

| run | what it shows | instance |
|---|---|---|
| `fifo` | `NoTearing`, `NoDataRace`, `FramesInOrder`, `ImplementsQueue`; `Progress`: every frame reaches the screen, the clock never stops; and `Inv` of the proofs (locks, lost wakeups, refused flips, cursor) | 2 framebuffers as in the code, 5 pictures, a 3 x 2 mode |
| `desktop` | `RestoredIfDisplayInterrupted`: the console is back if the handler ran on the display thread; `WmInv`: frames hold the clients their records name, and damage is never of an unknown window; `GpuInv`: the stream is whole, names its buffers, caches are told, and each pixel is computed from what it should be; `ProgramsGoOn`: an interrupted server ends, a window that stays mapped is framed | 2 framebuffers, 3 pictures; 3 clients, 3 frames, 3 events; 4 pairs of shaders, a destination of 600 bytes a row |
| `console` | `Inv` (screen and line agree); `LineStays`: a key leaves all but the end of the line; `InputInv`; `InOrder`: each device's characters come out in order and none twice; `GetcharReturns`; `KeysRight`: modifiers follow the keys, and the reboot chord is the three keys; `TextFits`: a number printed is read back as that number, fields have their width, a buffer is never overrun; `MoveInv`: `memmove` moves | 2 x 3 cells and lines of two; 3 slots and 5 bytes; 8 keys and 2 bytes under way; some 700 formats; every pair of regions in 8 bytes, words of two |
| `containers` | `Inv`, `ImplementsList`; `SortInv`: sorted, a permutation, in its part; `SortEnds`; `BitsAndListing`: fields are exact, and a program is listed as it was written | up to 5 elements from 4 cells; up to 5 elements of 3 keys; maps of two words and of one, of 3 bits; programs of up to four control instructions |
| `display_path` | `Inv` (both ends train alike, on a link that carries the mode), `CrIsPatient`; `SettingInv`: a CRTC is shown only with power and memory requests, no lock outlives a call; `PathsEnd`: a training ends and a call on the bus returns; `OnlyMeantConditions`; `QuietChange`; `PathInv`: pins are given back, an EDID reported is the monitor's own, between calls the whole path shows the mode, and the list of modes is right | four sinks, three modes; an EDID of two bytes of 3 bits, three tries; fourteen boards, two modes; 61 EDIDs, a table of six, three colour spaces, room for 0, 16, 32 or any number of modes |
| `card` | `Inv`, `ImplementsPipe` of the ring; `AtomInv` (types, `WorkSpacesFreed`, `ParamsKept`, `OwnContext`), `FaultReachesCaller`, `CallsEnd`; `NumbersRight`: an opcode changes the addressed lane alone and as it should, a clock set is near the one asked for; `McInv` (displays come back), `QuietMove`; `DetectInv`; `DriverInv` | a ring of 8; two threads, four tables; four bytes of two values, two registers; 2 of 6 CRTCs of the newest card; ten boards with every fitting monitor; three drivers; 17 clocks on 9 cards |
| `abort_restores` | *violated*: the console is back whichever thread was interrupted | 2 framebuffers, 3 pictures |
| `input_zero` | *violated*: 0 means that no character waits | 3 slots, 6 bytes |
| `bit_map_get` | *violated*: a field is read as it was written | the same maps |
| `video_off` | *violated*: the video is off while a link is trained | the instance of `display_path` |
| `mc_halted` | *violated*: the displays stand still while the memory is moved | 2 CRTCs |
| `pll_vco` | *violated*: the VCO stays inside its limits | the instance of `card` |

### Bounds, and why they are enough

- **fifo**: `FB_NUM` is 2, which is the code's value; the safety properties are proved for every number. A picture
  must not be confused with one that is still somewhere: at most `FB_NUM` pictures are alive, five are well over. In
  a mode of 3 x 2 the two edges are met at different moments.
- **desktop**: with three clients a window is handled while another's event waits and a third goes away; three mappings
  let one window be mapped again before its first event. `QueueLen` bounds the clients only: what the manager's own
  requests cause is always queued. `DstSize` 600 is no multiple of the 256 bytes caches and pitches count in, and the
  four pairs of shaders are all there are, each with both values of its boolean constant.
- **card, ring**: eight bytes is the least size the constructor gives; all offsets and all lengths, those longer than the
  ring too, are tried. Proved for every size.
- **card, BIOS**: the tables nest to depth two, which has the outermost, a middle and an inner frame; one of them polls
  for ever, one is missing, one has an opcode that does not exist. A byte of two values has every carry a larger
  one has, at each of the four places; the attribute byte takes all its values. `Sample` starts registers with all
  bits clear, all set and alternating, and execution fills in others.
- **card, the rest**: two CRTCs lit or dark in any combination, on each of the four register layouts. The
  connectors are the combinations whose detection differs: a DVI-I in either order, a panel before and after, televisions,
  a jack whose connector is unsupported, a connector without a line and one whose pin is missing. Clocks lie at the borders where a divider changes, and at the highest.
- **console**: three rows is the least on which a line can wrap, scroll and be erased back across; the circular
  buffer of three slots overflows after three of five bytes, one lap and more. The keys are two control keys (one
  with a prefix), shift, an alt with a prefix, a letter, both deletes and caps lock. Bound of the model: `MaxTyped`.
  The formats are every conversion with every flag, six widths and precisions, numbers at the edges of an int of eight
  bits (a long long has twelve), and a buffer of four that most texts do not fit in; width and precision from
  arguments; and escapes that are unknown or cut short. The regions are all there are in eight bytes, aligned or not.
- **containers**: five elements make the vector of four cells grow once, full and wrapped; the constraint `FewStale`
  leaves out states with more than one stale element behind `list_clear`, as no operation reads them. The elements
  are symmetric; the other parts have none, so the symmetry does not touch the liveness of this run's sort.
  Five elements of three keys have every pattern of equal, smaller and larger around a pivot. Two words of three
  bits have a field inside a word, ending with it, across two words and across the end. The programs have two clauses
  of groups of one to five units with zero to four literals, so the counts of both are met odd and even.
- **display_path**: sinks of one lane and of two, at three rates; `MaxSwing` 2 keeps an inner value; clock recovery tries
  three times instead of five. Three-bit bytes have a first, an inner and a last bit; two of them one that is
  acknowledged and one that is refused; the checksum is modulo 8. Modes are identities: two are
  enough to tell the old from the new. The EDIDs have each source alone and together, the same size from two sources, a
  standard timing that is in the table, one that equals a detailed one, three that are computed and one that is unused; two
  ranges cut the list at different places. Sixteen and 32 modes end the memory in the first and in the third source.

`CHECK_DEADLOCK FALSE` is set only for `desktop` and `abort_restores`, where programs end. Elsewhere a state without
successor would be an error; finished parts (`Done`, `Return` of the sort, `Ended`) stutter by an action of their own.

### Fairness, and why the code justifies it

- `FbFifo`: weak fairness of both threads and of the vertical blank (threads are scheduled, a monitor refreshes), and
  strong fairness of the four mutex acquisitions: a pthread mutex is not fair in theory, but each thread gives the
  lock back and sleeps or paints for a whole frame before it asks again, so that a waiter that never got it would
  have to lose for ever. Wakeups are not assumed: `wsleep` and `rsleep` fall by a signal or spuriously.
- `FbAbort`: weak fairness of the handler alone, which runs to its end on a thread the kernel schedules.
- `WindowManager`: the manager's loop goes on. Clients have no fairness.
- `AtomExec`: time passes and each thread that executes goes on. The semaphore is not assumed to be fair.
- `ConsBuffer`: `getchar` spins (weak fairness of its steps); no character need ever arrive, and `GetcharReturns`
  says that the call returns if one does.
- `QuickSort`, `Ddc` with `I2C`, `DisplayPort`: the program goes on. The slave of `I2C` has no fairness: it may hold the
  clock for ever, and the timeout ends the call. The sink has none either: the training's half of `PathsEnd` excepts by
  name the sink that asks for another voltage again and again.

## 4. The proofs

Each theorem is proved for every value of the constants under the named assumptions. The argument has the same form
everywhere: the initial states satisfy an inductive invariant (`Inv`, or `IInv` where the property needs
strengthening), each action preserves it (one step per action, below it one per conjunct the action can disturb), and
the properties follow from it. A refinement adds that each action maps to one of the abstract specification, or to a
stutter, using the invariant.

**`FbFifoProofs`** (two or more framebuffers, one or more pictures, any mode of at least one pixel): `TypeCorrect`,
`NoTearingAlways`, `FlipNeverBusyAlways`, `NoDataRaceAlways`, `NoLostWakeupAlways`, `CursorOnScreenAlways`,
`FramesInOrderAlways`. None of these is inductive. `Inv` adds who holds which mutex at which step (`LocksHeld`), what
is true while a thread sleeps (`SleepersWait`), which slots belong to the producer, the display thread and the kernel at
which step (`ProducerOwns`, `DisplayOwns`, `KmsInStep`), and that the painted slots between `rp` and `wp` hold
consecutive pictures (`RingInOrder`, `FirstFrame`). `NoDataRace` shows why this is needed: that the two unordered
writes never meet depends on the whole ring, from the slot just painted to the one on the screen. The cursor needs the
direction it goes at each edge (`CursorInv`). `Refinement`: the slots from the one behind the screen to `wp`, read as a
sequence of pictures, are `FrameQueue`. Only `PMark` and the latch of a flip change it, at one end each; `RingInOrder`
gives what the picture at either end is.

The same module has the interrupted server: `RestoredIfDisplayInterruptedAlways`. `AInv` says who the victim is from
the signal on, and that once the console is restored on the display thread no flip is pending. The producer cannot
ask for one (`ProducerKeepsKms`), and the display thread stands still.

**`DriverProofs`, ring queue** (any size from one byte, stamps that repeat after more than the ring): `TypeCorrect`,
`AccountingAlways`, `UnreadAlways`, `ReadsInOrderAlways`: `Accounting` ties the free count to the pointers, full and
empty included; `Unread` says which byte each unread cell holds. A write in two copies preserves both because it
never reaches the read pointer, which follows from the clipping of the request. The lemmas are about `Advance` and
about `After`, which count modulo the ring and modulo the stamps. `Refinement`: the stamps from the oldest unread one
on are the content of `BytePipe`.

**`DriverProofs`, set-up** (the three drivers as they are, any number of loads, cards and failures): `SetupAlways`, from
`SetupInvariance`. `DriverInv` looks at one resource or at the end of a procedure; whether the next thing to be given back is
held depends on how far both procedures are. `SetupIInv` says it: the module and the card are each at a point of
their procedure (`ModulePoints`, `CardPoints`), what is taken for certain before that point is held, and beside what may have
been taken there is only what the driver leaks. The steps are proved for procedures of any form: `Takes` and `Gives` say what
steps they have, `Orderly` that nothing is taken before what it rests on and nothing given back before what rests on
it, wherever the failure is, `Ends` what may be left. `AllSound` then shows these of `mydrm_init`, both `mydrm_pci_probe`, the
eighteen steps of `radeon_init_accelerant` and their counterparts, step by step (`StepAt`, `Reached`, `TakenAt`,
`UndoneAt`). That the module's step takes nothing from the card's, which runs beside it, is the wait of
`pci_unregister_driver()` (`MayGo`) and that the two own different resources (`OwnResources`).

**`CardProofs`, interpreter** (any threads, timeouts and entry points; any tables under `CodeAssumption`): `MutualExclusion`,
`AtomInvAlways`, `FaultReachesCallerAlways`. The assumption is about the BIOS, which the code trusts: jumps and cases stay
inside their table, and every way to a conditional jump passes a comparison. The invariant has the shape of a
stack: each context inside its table, its parameters behind those of its callers, an abort only in the innermost one, and
a work space for each frame whose table has one. `Owns` adds that flags a thread may branch on are its own: they were
set in the same table, under the semaphore, and a table that is called sets its own before it asks. That a call starts in
the modes of the driver, its IO mode, register block and framebuffer window, and not in what the last one left, is
`OwnContext`.

**`CardProofs`, memory controller** (every chip and either driver, any number of Evergreen CRTCs from two on):
`McInvAlways`, `QuietMoveAlways`. What comes back at the end depends on what was saved, on which CRTCs the driver
reaches, and on every access between, so `MInv` is the whole procedure: `Halting`, `Moving`, `Resetting`, `Resuming` and
`Resumed` say for each register access what every register holds when it is next. The CRTCs go through the same stages
one after the other, so those below the one in hand are at the next stage and those from it on at this one (`Screens`,
`VgaOffOn`, `ShownTo`); `Expected` is what a CRTC is at a stage, in terms of what it was. A write that waits for an
unlock is a stage of its own. The lemmas are about sequences that are partly done (`FromStep`).

**`DisplayPathProofs`, link** (any sinks, numbers of tries and lanes, any modes): `LinkInvariant`, `LinkCarriesModeAlways`,
`ClockRecoveryIsPatient`. `LinkInv` says at which step of `dp_link_train` which pattern is on at either end, with a sink that was told the rate and
lanes enough for the link unless a transaction was lost (`Patterns`),
that both drive alike unless a write was lost (`Driven`), how the counters of tries relate to the voltages tried
(`Counted`), and that a training is of the rate and lanes computed for the mode being set (`Chosen`).

**`DisplayPathProofs`, detection** (any boards under `BoardsAssumption`, any number of connectors and CRTCs under
`RoomAssumption`): `DetectInvAlways`. The assumptions are about the hardware: a pair of pins leads to one jack, and a
monitor is plugged into a jack it fits. `DInv`: CRTCs are given out from the first on and each
to a later connector than the one before (`GivenOut`), those left hold nothing (`Clean`), in the end what is attached is powered (`Powered`), and each connector passed over has no monitor, or one that does not answer it, or came
when all CRTCs were given (`Passed`).

**`DisplayPathProofs`, bus** (any length of a byte, any address, anything written, any number of bytes read and of tries,
any monitors and a slave that does what it likes): `OnlyMeantAlways`, `PinsAlways`. A transfer is one sequence of operations that
is as long as the constants make it, so what is shown of it is local: `SoundAt` looks at an operation and the two before it.
The data wire is set directly after the clock, and with the clock high it is set to what it carries already, but for a
start and for letting go of it; what may fail in a start or a stop is a wait, after the clock was set high.
Sequences of which that is true, one behind the other, are again such (`SoundJoin`), and so is the flattening of any
number of them (`Flattened`, by the least number principle); from the bits up it reaches `i2c_send_receive`, which ends with
the stop (`TransferSound`). `BusInv` adds that the last two operations show on the wires (`OnWires`), also in the error path, and that
the pins change hands with both wires let go of (`PassedOn`).

**`ModeSetProofs`** (any modes, any boards under `BoardsAssumption`): `ChangesAreQuiet`, from `ModeSetInvariant`, and
`SettingAlways`. The
assumption is the shape of the tables the driver reads and that two displays attached at once have a DIG encoder each
(`OwnDig`): the choice of `encoder_pick_dig` does not see to it before DCE 3.2. What a call does is a sequence of commands,
so the argument is about sequences. `Held` says of a place in `todo` that the last command before it that switches a CRTC on
or off switches it off, or that there is none and the CRTC is off now; so too of its lock. `QuietInv`: at each command that
changes what a display shows both are held. `SetDisplaySafe` shows it of the body of `radeon_set_display_mode`, part by
part, for every kind of encoder and generation (`SafeThen`, `LeavesThen`); executing the first command keeps it of the
rest (`HeldNext`), as each command does to a CRTC what its name says (`CommandEffect`). That no other CRTC sends
through the DIG encoder that is set up needs what each CRTC is routed to (`Routed`).
For `SettingAlways`, `ShowInv` adds the other direction of the same relation: before a CRTC is unblanked its power and its
memory requests are on (`ShowAt`), before either goes off it is blanked, and behind the last command every register lock
and the critical section are given back (`Released`, `Keeps`). `display_crtc_dpms` blanks only what `powered` says is on, so
`ShowSafe` is proved of each display's part of a call with the CRTC dark or not, and its parts are joined (`ShowJoin`, `TwoParts`).

**`KernelConsoleProofs`** has four parts that share no variable.
Screen and line (any screen of one column or more and two rows or more, any line buffer that leaves two rows of the
screen free): `TypeCorrect`, `LineOnScreenAlways`, `LineStaysAlways`. `start`, where the line begins on the screen, may have been scrolled
up any number of times; the assumption on the line's length keeps it from leaving the screen, and the
erase (`DeleteInv`) is the same one cell back whether or not a row ended there. `KeyStays` shows of each key that the
line in front of its last character stays, in the buffer and on the screen where `start` is after the key's scrolling.
Input (any buffer of two slots or more): `InputInvAlways`, `InOrderAlways`. `InputInv`, which says
that the slots from `rpos` to `wpos` hold the newest characters stored and that whole laps are missing before them, is
inductive. The order is not: `IInv` adds that of each device what was returned is older than what is unread (`Ordered`), and
that older than what the device still holds (`Waits`); so a character taken is later than every one returned before.
Keyboard (any keys, any length of the wire): `KeysRightAlways`. `KbdInv` says which codes can be under way for a key that
is down or up (`WireFormed`): reading them all would bring the driver's flags to the keys, so reading the next keeps that.
`memmove` (any memory, any length of a word, aligned regions or not, overlapping or not): `MoveInvAlways`. `CopyInv` has what the
string instruction's registers hold (`Registers`); that the source is not yet overwritten is the choice of direction.

**`WindowManagerProofs`** (any clients, frames and length of queue, disjoint names): `WmInvAlways`. `QueueOK` is why
damage is never of an unknown window although events are read late: records are never taken back, and damage is asked for
after the record is made. `FramedAtMostAsMapped` counts the mappings still queued, so that each is used once. It does not
say that a window has one frame at a time, which the code does not see to (section 6).

**`DisassemblerProofs`, list** (any set of elements, any initial size, any bound on the count): `InvAlways`, and `Refinement`: every
call of `list.c` does to the elements, counted from the head, what `list.h` promises. `Pos` is the cell of the k-th element
and `Wrap` the code's modulo where an index is at most one lap off; one set of lemmas says how the two meet (`PosWrap`, `PosNext`), one that growing keeps each element (`GrownKeeps`), one that moving the shorter side by one shifts exactly the elements on it
(`MovedUpAt`, `MovedDownAt`). `AddMaps`, `InsertMaps`, `DropMaps` and `SetMaps` then read each call from the head
(`InsertedAt`, `RemovedAt`); that a search returns the first equal element (`FirstFound`) is the least number principle.

**`DisassemblerProofs`, sort** (any length, any integers as keys): `SortInvAlways`: the two scans of a partition, which test no
bound, stay in their part; what is returned is sorted and a permutation. It needs no induction over the data, because
the recursion is a stack in the model as it is in the machine. `QSortInv`: the frames are nested (`Nested`), the elements
the scans have passed lie on the right side of the pivot (`Partitioning`), two elements that no part on the stack holds
both are in order (`Apart`), and every key is there as often as in the list that was given (`Permuted`).

**Only model-checked**: `Progress`, `ProgramsGoOn`, `GetcharReturns`, `CallsEnd`, `SortEnds` and `PathsEnd`, since liveness
under fairness and `ENABLED` are out of the prover's reach; `TextFits` and the maps in `BitsAndListing`, since `Format` and
`BitMap` compute with recursive operators; the lanes in `NumbersRight`, since `AtomOperand` needs the bits of words
(`Bitwise`). `OwnEdid` in `PathInv` needs that no shifted EDID has the checksum of a right one, which is so of the EDIDs
the run has. `ShownIsSet` in `PathInv` needs a transmitter, or a link of one, for each attached display alone, which
`BoardsAssumption` does not say. `GpuInv`, the listing in `BitsAndListing`, the clocks in `NumbersRight` and the
modes in `PathInv` are about programs, boards, cards and formats that the run enumerates as the source lists them. A
theorem about every card or every program would need assumptions about them that no line of the code states.

## 5. Where code and promise differ

- `abort_restores`: `user_abort()` "restore[s] previous framebuffer" (`server/main.c:327`) but does not stop
  `frame_update()`; a SIGINT on the main thread lets the display thread flip once more after the restore.
- `input_zero`: `cons_getc` returns "0 if none waiting" (`kernel/console.c:405`), and also when exactly a whole buffer
  of characters waits.
- `bit_map_get`: "Bits to get from second word" (`disassembler/misc.c:742`) come from the first.
- `video_off`: `mode.cpp:213` and `:219` pass the command in the place of the pixel clock
  (`encoder.h:25`), so the video is not turned off around a training; the encoder is disabled instead.
- `mc_halted`: "halt all memory controller actions" (`gpu.cpp:234`) writes the CRTC control registers of cards before
  Evergreen; on an Evergreen card the displays scan out while the memory is moved.
- `pll_vco`: `pllOutMin` and `pllOutMax` are limits (`pll.h:67`), but where a large divider is preferred that of a
  connector which is no panel is computed from the lower one and rounded down, so the VCO runs below it.

## 6. Not modelled

- **Dumping of an EDID, string functions other than `memmove` and `strtol`**: conversions without state.
- **`validate_display_mode.cpp`, `video_configuration.cpp`**: nobody calls them at this commit.
- **Register and BIOS headers**: constants and layouts; where a module needs one it is at the definition.
- **X library and demos** (`lib/`, `compiler/`, `hello/`, `randr/`, `sdl/`): straight sequences of library calls.
- Inside modelled parts: `drm_init` of the server and of `gpu/` run once; 10-bit I2C addresses; I2C over AUX, VDIF and
  EDID block 1 (no caller); a failing BIOS command during a mode set (results are not looked at); the values of
  tilings and apertures; BIOS opcodes whose effect is on data alone; the indirect IO programs; the wording of
  a listing; delays.

Known of the code and covered by no property:

- *Server*: a second SIGINT on the other thread while `user_abort()` runs (`server/main.c:419`): two calls of `exit()`.
- *Window manager*: windows mapped before it starts are never asked for; frames are never given back
  (`wm/main.cpp:56`), which bounds a run of the model by its frames; a window mapped, unmapped and mapped again before
  its first event is handled is framed twice (`wm/main.cpp:270`).
- *Interpreter*: two jumps with different targets in one loop restart its measurement each time (`atom.cpp:664`); the
  work space is not checked for NULL (`atom.cpp:1167`); the scratch region is checked with `>`
  (`drm/atombios/atom.c:352`); reads that leave `saved` unset (`:390`, excepted by name in `OnlyTheLane`).
- *Mode list*: nothing sets `has_edid` at this commit, so the accelerant asks for the list without an EDID and the other
  sources are those of the common library; the horizontal frequency of a table mode is computed with `h_total` where
  the lines of a picture belong (`create_display_modes.cpp:299`), so with known ranges wrong modes are kept or dropped; a
  lower limit of zero wraps below zero (`hfreqMin - 1`) and empties the list; the zero totals of a detailed timing are a
  division by zero; a standard timing's ratio 0 is read as 1:1, as before EDID 1.3; narrow computed modes (576 x 324 at
  60 Hz) begin their sync before the picture ends; rates less than a hundredth of a hertz apart compare as equal, which is
  not transitive; under "Check vertical timing" the horizontal one is checked twice (`validate_display_mode.cpp`).
- *Formatted output*: `cprintf` returns 0 whatever it prints (`*cnt++` moves the pointer, `kernel/printf.c:13`); the sign
  of a number comes before its blanks and makes the field wider; `%-d` fills with `-` on the left (padding on the right is for
  strings, `kernel/printfmt.c:12`); the precision 0 cannot be written, as a `0` is read as the flag.
- *Console*: a keyboard that drops a release leaves its modifier set (`kernel/console.c:331`).
- *Display*: the sink is told the lanes it has and not those in use (`displayport.cpp:798`, `:822`), so with fewer in use
  the two ends disagree on the number; a CRT set after a television turns the card's TV encoder off
  (`encoder.cpp:312`); a timeout of the repeated start ends without a stop (`i2c.c:418`); the AUX request is copied to scratch
  memory before the semaphore is taken, and results are ignored (`displayport.cpp:59`, `:62`, `:840`); the link rate in
  8 bits (`encoder.cpp:623`); no training in dpms (`encoder.cpp:1849`); a mode set lights every display but leaves
  `dpms_mode` as it was (`accelerant.h:73`); every display that is not DisplayPort gets PPLL1 (`pll.cpp:964`);
  before DCE 3.2 two connectors on the two links of UNIPHY get the same DIG encoder (`encoder.cpp:262`);
  unsigned minus one (`mode.cpp:326`); the arithmetic of `connector.cpp:600`, whose capabilities nobody uses; a digital
  monitor on a DVI-I jack whose analog path comes first may be reached by it when its EDID has no answer; a connector
  without a line, or with one whose pin the table does not hold, uses line 0 (`connector.cpp:248-254`) and may take
  another jack's monitor for its own.
- *Drivers*: a clone of the ROM that fails is used all the same (`accelerant.cpp:193`), the result of
  `radeon_init_bios` is ignored, `atom_destroy` has no caller; `accelerant_lock` is never taken (`:250`); a second card
  shares the globals (`drm/main.c:369`); `radeon_gpu_reset` and `drm/evergreen.c` have no caller; a product in 32
  bits (`gpu.cpp:527`).
- *3D*: `gpu/main.c` frees no buffer and ignores the result of `radeon_cs_emit`; `evergreen_accel.c:180` shifts by the
  field of another corner.
- *Disassembler*: `evergreen-asm.dat:446-451` gives VC the opcode of TC_ACK and so replaces it, while the number 2 of
  VC (`evergreen_reg_auto.h:1273`) is GWS_BARRIER's: vertex clauses of its own samples are shown as GWS_BARRIER and
  not listed. The walk ends at the first end of program (`asm.c:121` says "Disassemble entire ELF buffer"), so that
  subroutines behind it are not shown. ALU_EXTENDED is missing. `evg_inst_token_prefix` (`asm.c:508-527`) ends its
  prefix one place too far.

## 7. Plan

What is left, in this order:

1. **More of the interpreter**: the remaining opcodes and the indirect IO programs.
2. **The assembler's fields**: the dumps of `disassembler/dump.c` against the layouts in `evergreen_reg_auto.h`.
3. **Larger instances** where only symmetry would allow them: three threads in the interpreter, four clients.
