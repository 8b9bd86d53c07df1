# Formal models of DE2Extra

DE2Extra is a small computer on a DE2-115 FPGA board: a NEORV32 processor with a
Wishbone bus, an SDRAM controller, a frame buffer, a 2D engine, text video, a PS/2
keyboard, an infrared receiver, an LCD, sound and other peripherals in VHDL, and a
FreeRTOS shell in C that launches programs on it. This directory holds TLA+ models
of the parts where concurrency, clock crossings, protocols, sharing or long sequences of
legal calls make the code hard to test, configurations that check them with TLC, and
proofs that TLAPS checks. Paths below are relative to the root of the repository.

`PROJECT.json` lists, for every definition of a model, the lines of source it
translates, and for every property a small defect of the code (an operator in the
model marked `Defect:`) with which the property fails.

Contents: 1 Inventory; 2 Modules and how they correspond to the code;
3 Properties and runs; 4 Bounds; 5 Fairness; 6 Proofs; 7 Disagreements with the
sources; 8 What is not modelled; 9 Plan.

## 1. Inventory

For each part: its state, its operations, how it interacts, what is hard about it,
and what makes it correct. "M" marks the parts modelled, most of them not to the last
operation: section 8 says what is left out.

**SDRAM controller** (`src/rtl/periph/sdram_ctrl.vhd`) M. State: a state machine of
28 states at 100 MHz, request latches and shadows of three ports, toggle
synchronizers, wait and refresh counters, the VGA FIFO. Operations: single-word reads and
writes of the CPU port (50 MHz), burst reads of the VGA port (50 MHz, words through a
two-clock FIFO), burst writes of the GPU port (100 MHz), boot, refresh. Hard: two
clocks, requests with no queue behind them, three access paths that share the row and
address registers, refresh in competition with bursts. Correct when no request is
lost or done twice, every word goes to and comes from its own address, the device is
never given a command it cannot take, and everybody is served.

**Frame buffer reader** (`fb_reader_rgb565.vhd`) M. State: two line buffers, a swap and a
request at 25 MHz, a fetch state machine at 50 MHz. Operations: swap at the start of a line,
fetch the next line by bursts. Hard: a line that is not complete when the swap
comes; a request outside the idle state is dropped; every word passes a FIFO with two
clocks. Correct when each line shown is the line of the memory.

**2D engine** (`gpu_2d.vhd`, `sw/lib/gpu.c`, `gfx_fill_rect` in `sw/lib/gfx.c`) M. State: command
registers (50 MHz), a filling state machine (100 MHz), busy and start crossings. Operations: fill
a rectangle by bursts, wait. Hard: a start while busy is dropped; `gpu_wait` may read busy
before it has crossed; the bursts are 16 pixels whatever the width. Correct when every pixel of
the rectangle and no other is written.

**FreeRTOS shell** (`sw/app/de2shell_rtos/main.c`, `sw/lib/board_status.c`) M. State: four
tasks with fixed priorities (`t_uart_input` 1, `t_active_prog` 2, `t_shell` 3,
`t_status` 4), `xInputQueue`, `xProgCmdQueue`, `xVgaMutex`, and the unlocked
globals `active_prog`, `xActiveTask`, `g_chain_program`, `claimed`. Operations: read a
key, run a command, launch a program, stop one, chain from one to another, refresh the
status bar and the LCD. Hard: tasks that preempt each other between two stores, a task
deleted by another one, state left over from one program to the next. Correct when the
mutex always comes back, the shell and the program agree on who has the console, and
keys and commands reach the program they were meant for.

**PS/2 port** (`ps2_controller.vhd`, `ps2_receiver.vhd`, `ps2_sync.vhd` in
`src/rtl/periph`; `ps2_send_host_byte`, `ps2_sync_leds` and the polling part of
`t_uart_input` in `main.c`) M. State: line synchronizers, a receiver of 11-bit frames, a
transmitter of six states with timers, a FIFO of 16 bytes, the driver's lock state. Operations:
receive a byte, send a command and take its answer, read the FIFO. Hard: two parties on
an open-drain line that may start at the same time, one receiver for frames,
acknowledge pulses and answers, timeouts. Correct when bytes go through whole in both
directions, an answer belongs to its command and every command ends.

**Input decoding** (`t_uart_input`, `sw/lib/ps2_decoder.c`, `ps2.c`, `twm.c`) M. State: the escape
filter with its countdown, the soft boot sequence, two scan code decoders with prefixes, modifiers
and locks. Operations: a byte of the terminal, a scan code, a pass without a byte, a program
that takes the keyboard over and gives it back. Hard: a lone ESC is told from a sequence by time
only; three readers of one FIFO; sequences that begin like other ones. Correct when what is queued is
what was typed, once and in order, no decoder is left with a wrong modifier, and only the boot
sequence restarts the machine.

**Text video** (`sw/lib/vga_hal.c`, the line editor and the status bar of `main.c`) M. State: the cell
memory, the cursor, the shell's line. Operations: characters, wrap, scroll, backspace, clear. Hard:
two tasks that share one cursor; a line longer than its row. Correct when the screen is the last part
of what was printed and the line shown is the line entered.

**Conway engine** (`conway_engine.vhd`, `sw/lib/conway_hw.c`) M. State: two grids, a position, counters,
and what the program takes the screen to show. Operations: step, clear, fill at random, toggle a cell,
refresh. Hard: a command lasts thousands of clocks while busy is polled; only the differences are drawn.
Correct when a generation is a function of the one before and the screen shows the grid.

**Number theoretic transform** (`sw/lib/ntt.c`) M. A pure algorithm in 32-bit words and commands
that apply it to a buffer again and again.

**Games and demos** (`sw/lib/snake.c`, `demo.c`) M. Snake for one and two players; the menu of the course experiments
and the channel register (`expdemo_wb.vhd`) that gives the board to one of them. Hard: two snakes
move at once over a screen drawn by differences; a program can end in five ways.

**Text windows** (`sw/lib/gui.c`, `twm.c`) M. A pool of tiles linked into a tree. Hard: splits
and closes in any order, fields that outlive the tile.

**Interconnect and processor wrapper** (`wb_intercon.vhd`, `neorv32_wrapper.vhd`). Address decode and a multiplexer
of acknowledges. Correct when windows are disjoint and every strobe is answered.

**UART over JTAG** (`uart_jtag_bridge.vhd`). One byte each way between two bus
protocols. Hard: a byte that comes while one is pending is dropped.

**Infrared receiver** (`ir_nec_decoder.vhd`, `ir_nec_wb.vhd`). A pulse automaton with repeat codes.

**Small peripherals** (`timer_wb.vhd`, `intc_wb.vhd`, `lcd_wb.vhd`, `lcd_status.vhd`, `i2s_tx.vhd`,
`wm8731_ctrl.vhd`). Registers set by hardware and cleared by software, and byte sequencers.

**Audio, shader, cryptography, course labs.** Signal processing, drawing and pure functions: see section 8.

Interactions: the CPU, the frame buffer reader and the 2D engine share the SDRAM
controller (toggle and pulse handshakes, one FIFO). The shell's tasks share the queues, the
mutex, the globals and the display; `t_uart_input` polls the PS/2 controller, which
shares two wires with the keyboard. Programs talk to the shell through
`active_prog`, `g_chain_program` and the queues; two of them read the PS/2 FIFO themselves, and one
switches the board's displays away from the processor.

## 2. Modules

| Module | Models | Extends |
|---|---|---|
| `SdramChip` | the SDRAM device (external): banks, rows, mode, data pins, command spacing | |
| `SdramCtrl` | `sdram_ctrl.vhd`: every process, every state | `SdramChip` |
| `SdramBoard` | the controller with its two clocks and three free masters; properties | `SdramCtrl`, instance of `WordMemory` |
| `WordMemory` | abstract specification: a memory of words for one client | |
| `SdramBoard_proofs` | types, row discipline and timing of the controller | `SdramBoard` |
| `SdramRequests_proofs` | the requests and their payloads across the clocks, the refinement of `WordMemory` | `SdramBoard_proofs` |
| `FbReader` | `fb_reader_rgb565.vhd`: swap, request, fetch | `SdramCtrl` |
| `Gpu2D` | `gpu_2d.vhd`, `gpu.c`, `gfx_fill_rect` | `SdramCtrl` |
| `VideoBoard` | memory, controller, reader and engine on three clocks; properties | `FbReader`, `Gpu2D` |
| `VideoCpu` | the same board with the CPU at the memory as well | `VideoBoard` |
| `VideoBoard_proofs` | the picture and the rectangles | `VideoBoard`, instance of `SdramRequests_proofs` |
| `Shell` | the tasks of `main.c`, the scheduler, the status of the board; properties | |
| `Shell_proofs` | theorems about `Shell` | `Shell` |
| `Ps2Controller` | the three VHDL files of the PS/2 port | |
| `Ps2Board` | the controller, a keyboard and the driver; properties | `Ps2Controller` |
| `Ps2Board_proofs` | theorems about the port and the driver | `Ps2Board` |
| `Ps2Decoder` | `ps2_decoder.c`: scan codes into keys | |
| `KeyInput` | `t_uart_input` with a terminal, a keyboard, and the programs that read it; properties | `Ps2Decoder` |
| `KeyInput_proofs` | theorems about the decoders, the queue and the boot sequence | `KeyInput` |
| `Snake` | `snake.c`; properties | |
| `Conway` | `conway_engine.vhd` and `conway_hw.c`; properties | instance of `Life` |
| `Life` | abstract specification: the rules of the game, a generation at a time | |
| `ExpDemo` | the menu of `demo.c` and the channel register | |
| `Ntt` | `ntt.c`, against the definition of the transform; properties | |
| `TextTerminal` | `vga_hal.c`, the line editor, the status bar; properties | instance of `Paper` |
| `Paper` | abstract specification: an endless roll of paper | |
| `Programs` | the host of the programs in `main.c`, and each program on it | `Snake`, `Conway`, `ExpDemo`, `Ntt`, `TextTerminal` |
| `Ntt_proofs` | the transform and its code, and the theorem about them as a part of `Programs` | `Programs` |
| `Programs_proofs` | theorems about the text screen, the demo, the engine and its screen, the snakes, and the types of all programs | `Ntt_proofs` |
| `Tiling` | the tiles of `gui.c` and the keys of `twm.c`; property | |
| `MCSdram`, `MCVideo`, `MCVideoCpu`, `MCShell`, `MCPs2`, `MCKeyInput`, `MCPrograms` | values of the constants for TLC | |

### SDRAM

One step is one clock edge. The PLL makes both clocks in phase, so a step is either an
edge of both (`BothEdges`) or of the 100 MHz clock alone (`FastEdge`). On an edge every
process whose clock rises acts at once, and every primed value is computed from unprimed ones, as
registers do: `P_req_cpu`, `P_sync_ack` and their like are the VHDL processes of the
same names, and `P_sdram` has one disjunct per state of the state machine, with the
default assignments that the state inherits. The device takes the command that is on the pins.

- A reset of the board is not a step: it is the initial state, in which the device may
  have any rows open, configured or not, as an interrupted run leaves it.
- A toggle may be sampled one edge late by the first flop of its synchronizer
  (metastability); the payload next to it is not synchronized, which is what
  `PayloadHeld` is about.
- The data a read puts on the pins stays in the model until the next read; that it is
  captured no earlier than `CL` cycles after the command is part of `TimingMet`.
- A word written to the FIFO may stay invisible to the reader for any time.
- In `SdramBoard` the masters are as free as their handshakes allow; in `VideoBoard`
  they are the real ones.

### Video

`VideoBoard` puts the reader and the engine on the ports of the same `SdramCtrl`, with a third
clock: `phase` counts the edges of the 100 MHz clock modulo 4, and a step is an edge of all three clocks
(`AllEdges`), of two (`BothEdges`) or of one (`FastEdge`). The processes `P_bufswap`, `P_fetch`,
`P_cdc_start`, `P_gpu_fsm` and so on are again those of the VHDL files.

- Where on a line the beam is does not matter to the buffers, so `P_bufswap` is given a
  signal `start` that may come at any 25 MHz edge, `LINE_GAP` edges after the last at least.
- The program either paints rectangles (`gfx_fill_rect`, with its clipping and the final wait) or
  turns the picture on: with two masters at work an access may be taken over by the other's path (section 7), after
  which nothing can be said about the pixels. For the same reason the CPU does not read or write the SDRAM in `VideoBoard`;
  in `VideoCpu` it does.
- `Late` says that a fetch is under way when its line starts; `spoiled` counts the lines this excuses.
  `LineShown` therefore says how a reader that is late gets back in step, which no reset does for it.
- `painted` holds the words of the rectangles asked for, computed from the rectangles and
  not from what the engine does.

### Shell

One step is the stretch of a task between two accesses to shared state, named after the
function it belongs to (`Launch_drain`, `Stop_send`, the `exit1` to `exit4` stores of
`exit_active_program`). The scheduler is in the guard: `At(t, l)` holds
only when `t` is ready and nobody ready has a higher priority, with priority inheritance through
the mutex. Time is not counted: a delay may end at any step. The bounded wait of
`stop_active_program` for the program to leave may therefore run out although the program has
done nothing, which is what happens on the board when `t_status` keeps the
processor (`vgadump` sends a whole screen at 115200 baud at the highest priority).

- A whole pass of `t_status` is one step, because nothing can preempt it and it never
  holds the mutex across a block.
- A key stands for itself or for the command line it completes.
- `fresh` in the queue and `screen` are the only history variables: they mark keys
  queued since the last launch began, and who drew last.

### PS/2

One step is a 50 MHz edge, on which the driver may make one register access, or a move of
the keyboard between two edges. Later assignments replace earlier ones within the clocked
process; the model keeps the order (a register write comes after the state
machine, a FIFO read after a received byte), because one of the findings
is about it. Bytes have `DATA_BITS` bits; start, parity and stop bits are there.
The keyboard and its line discipline are external: it gives up a frame when the host holds the
clock, it answers a command before it sends a key, and it may refuse a good command or
fall silent while idle. It moves only when the lines have settled, since half a period of its clock is some
1500 edges. It is assumed to notice the hold of the clock line however short.

### Input

`Ps2Decoder` is `ps2_decoder.c` for every code: `DecFeed` is the decoder's next state, `DecChar` what
it reports. In `KeyInput` a pass of `t_uart_input` is a sequence of steps: the end of the countdown of a lone
ESC (`Esc_timeout`), the byte of the pass through the boot sequence and the escape filter (`Byte`,
`No_byte`), then up to `PS2_POLL_BUDGET` scan codes (`Ps2_enter`, `Ps2_byte`, `Pass_end`). The terminal sends the bytes of
a key with gaps of up to `MAX_GAP` passes; a key of the keyboard sends the bytes of its make or break code. A key is typed
at any time, also while a lone ESC counts down. Programs are launched and left between any two steps, inside a scan code
too, and read the FIFO in steps of their own; between its look at STAT and its read of DATA `t_uart_input` may lose the byte to a
program (`Ps2_nothing`).

So neither the queue nor the decoders can be exact, and the history variables say what is due:

- `typed` holds the characters due for the keys whose bytes were read. A key that comes while an ESC waits costs that ESC
  and its own first byte (`main.c:1198-1207` takes both for the start of a sequence it does not know), and behind ESC and O the key
  after that loses its first byte; `hurry` remembers which of this is the case (`Due`). What must not happen is that more is lost, that
  it is lost without such a hurry, or that a wrong character is queued.
- `seen` holds the modifiers and locks after all key events read, by whomever. `step` says of each decoder whether it is at the
  beginning of a code, in the middle of one it has read from its first byte, or has missed a part (`clean`, `whole`, `torn`); `doubt` is the
  set of keys of which it has missed the last event, got it in part, or that were down or on at its init.
- `raw` holds the last bytes of the terminal, for the boot sequence.

`Shell` and `KeyInput` cut the system at `xInputQueue`: one says what becomes of a queued key, and that a key is dropped when the
queue is full; the other how a key gets there. A call of `ps2_dec_feed` is one step: a task stopped inside it is not modelled.

### Programs

`Programs` is the loop of `t_active_prog`: pass a key on or take it as an exit key, call update, ask finish.
Each program is a record, and each of its handlers an operator from a record to the record that follows
(or the records that may). Only the Conway handler waits for hardware: the engine takes a step per
clock (`EngineClock`) until the busy bit lets the handler go on (`EngineDone`). The program's variables
survive its end and meet the next launch, as statics do. One behaviour is about one program, since no two
run at once and none shares a variable with another.

- `place_food` may end with the food on a body, as the 200th try is kept wherever it lies; the history `missed` remembers it for the
  rest of the game, as `crossed` does that two snakes have shared a cell.
- `Life!Spec` is implemented by the engine through `live` = the visible grid and `generation` = its counter: the swap of
  the grids is the step, everything before is a stutter.
- `Paper!Spec` is implemented by the screen: the rows scrolled off (`gone`, history) with the
  rows on the screen, the status bar excepted, are the roll.
- `Ntt` computes with words of 32 bits and the reduction as written; `exact` is the transform by its definition as a sum.

### Windows

`Tiling` has one action per key of the desktop; a tile is its five fields, which stay as they are when it is freed. The
result of a walk through the tree that never ends is the flag `hung`.

## 3. Properties and runs

| Run | Shows | Distinct states |
|---|---|---|
| `sdram_cpu` | with the CPU and the frame buffer reader contending: registers stay in range (`TypeOK`), payloads are stable while they cross (`PayloadHeld`), the controller implements a memory of words (`ImplementsMemory`), every strobe is acknowledged (`CpuAnswered`) | 290 thousand |
| `sdram_all` | with all three masters: rows and banks (`RowDiscipline`), distances between commands (`TimingMet`), no request overwritten in its latch (`RequestsSurvive`) | 1.2 million |
| `video` | the picture end to end: the line shown is the line of the memory, two lines after a late fetch at the latest (`LineShown`), rectangles are painted exactly (`FillExact`), with the CPU away from the memory, every fetch and every `gpu_wait` ends (`RequestsEnd`) | 443 thousand |
| `video_cpu` | violation: with the CPU at the memory too, a fetch never ends (`RequestsEnd`) | |
| `shell_life` | launches, exits, chaining and stops with preemption everywhere: `TypeOK`, the mutex is never orphaned (`MutexHeldInSection`), the shell never waits for a program that is gone (`WaitsForLiveProgram`), never prompts on a program's screen (`PromptOnShellScreen`), no program reads a key typed before it (`KeysTypedForProgram`); exits, chain requests and status passes get through (`ExitReturns`, `ChainLaunched`, `StatusServed`) | 13 thousand |
| `shell_chain` | violation: a program is stopped by a command meant for its predecessor (`StoppedOnlyByItsStop`) | |
| `ps2` | keys, commands, answers and refusals at any time: `TypeOK`, a byte received is the byte sent (`RxExact`), a frame cut off costs no later one (`RxAligned`), the keyboard receives the byte written (`CommandDelivered`), an answer belongs to its command (`ResponseIsReply`), the LEDs follow the lock (`LedsSet`), every command ends (`TxEnds`) | 241 thousand |
| `ps2_count` | violation: the FIFO's count loses a byte (`CountExact`) | |
| `keys` | a terminal and a keyboard at once, and programs that take the keyboard over at any byte: a decoder is wrong only about keys of which it missed something (`DecoderTracksKeys`), what is queued is what is due (`KeysAsTyped`), the boot sequence and nothing else restarts the machine (`BootExactly`), every key of the terminal gets through (`EveryKeyArrives`) | 831 thousand |
| `programs` | `TypeOK`; until the tries for the food run out, snakes stay snakes (`BodiesSound`), food stays clear of them (`FoodFree`) and the screen shows the game (`GameShown`); the engine implements the rules of life (`ImplementsLife`), counts its cells (`PopulationExact`) and is shown as it is (`GridShown`); no way out leaves the board with an experiment (`MuxFollowsDemo`); the transform is the transform while its products fit (`NttExact`); the text screen implements a roll of paper (`ImplementsPaper`) and shows the line that Enter will run (`LineShown`) | 855 thousand |
| `twm` | violation: the first split of the desktop makes a tile its own parent (`IsBinaryTree`) | |
| `ntt` | violation: a round trip fails (`RoundTripPasses`) | |

Three abstract specifications are implemented, each checked as a property of the detailed
one under a refinement mapping:

- `ImplementsMemory`: `Memory == INSTANCE WordMemory WITH ...` maps the cells of the device to the
  abstract memory, and says an operation has taken effect once its word is stored or captured. It holds with
  the frame buffer reader interleaved, and speaks of CPU accesses only; it is checked with one cell used by the CPU.
- `ImplementsLife`: a generation of the engine, which takes a clock per cell and several more per row, is one step
  of `Life`; clears and toggled cells are its other steps.
- `ImplementsPaper`: wrap, scroll, erase and the status bar in between never change what was written.

## 4. Bounds

- SDRAM: 4 banks of 2 rows by 2 columns (16 words), bursts of 2 words. Two rows and all four
  banks give every row hit, row miss and bank conflict; a burst of two has a first and a
  last word. Boot wait 2 and refresh interval 5 instead of 20000 and 781: with 5, refresh requests meet
  every state of every access. The waits between commands (2, 2, 6, 2 and latency 3) are the
  controller's own, since its wait states are not parameters. `AGE_CAP` and `REF_CAP`
  stop the clocks of the device model where no comparison can tell the difference.
  One CPU cell, with reads and writes, and one or two burst addresses, in different
  rows and banks; `sdram_all` drops the data.
- Video: three lines of four words from word 2 on, in 4 banks of one row of 4 columns, so that a line
  starts in the middle of a row and straddles two of them, as lines of 320 words do with rows of 1024.
  Three lines, an odd number: with an even one each buffer would always hold lines of one parity, and a buffer left
  behind would more often hold the right line by chance. Two rectangles of the widths of one and of two bursts, one of them clipped on
  two sides, at multiples of a burst; two fills, over one another or not, so that the second starts in the
  state the first has left. One late fetch in a behaviour (`LATES`); with two the run was made once (790 thousand states), with the same
  result. The status is first read `POLL_GAP` = 5 edges of 50 MHz after the start is written, the time a load takes
  after a store on the Wishbone bus; with 4 the wait can return before the engine has started and `FillExact` fails. `LINE_GAP` = 4 instead
  of 800 leaves the time the request needs to cross, and is short enough for fetches to be late.
- Video with the CPU: one line of two bursts of two words, one word for the CPU to read, one row in each bank, and a line may start at any
  edge of its clock. The clocks keep the ages the device measures at 0, since no distance between commands is asked about.
- Shell: three programs (one that chains, the one it chains to, and one for the command line that
  never claims the board), one key in the input queue and the real depth
  of the command queue. A depth of two was run once (127 thousand states) with the
  same result.
- PS/2: bytes of 2 bits (the four values are what the driver tells apart), a FIFO of 2, waits of 2,
  6 and 4 edges and timeouts of 60, above the length of a frame at the keyboard's fastest, as on the
  board. One press and one refusal in `ps2`: a key before, within and after either of two LED
  synchronizations. With two presses the invariants were run once to the end (1.8
  million states); the liveness property makes that too long for a routine run.
- Input: every kind of key of the terminal (letters, Escape, arrows, F keys, the boot sequence) and seven keys of
  the keyboard, among them a letter, Shift, a code with and without E0 as a modifier and as a
  key, and a lock. Three keys of the terminal, or four of the keyboard, or one of each, or three of
  the keyboard with a launch (a code may then be split between two readers twice, at the launch and at the exit). The countdown of a lone ESC is 4 passes instead of 6 and two bytes of a key are at most 2 passes apart; the
  assumption `MAX_GAP + 2 <= ESC_WAIT_TICKS` is what keeps a sequence whole, and 5 ms a pass against 87 us a byte justifies it.
  Two scan codes a pass instead of 8.
- Programs: snakes on 12 by 3 cells, the least width on which both fit, with food on four of them, six keys
  and seven moves, enough to eat, to turn, to bite and to meet the other snake; a grid of 4 by 3 for Conway, three
  being the least size at which the eight neighbours of a cell are different ones, with two random grids, two launches and two generations; all
  values of the menu's number that matter, and two launches; the transform with its own 256 points and 3329, two
  buffers and four commands; a screen of 3 by 4 and a line of 4 characters, so that seven keys wrap, scroll and
  fill the line.
- Windows: a pool of 5 tiles; the violation takes one split.

## 5. Fairness

- SDRAM: `WF_vars(Next)`, the clocks never stop. Nothing is assumed of the arbitration.
- Video: `WF_phase(Tick)`, the clocks never stop, and `SF_phase(Popped)`: a word in the FIFO becomes visible (the
  pointer of the two-clock FIFO crosses in a few cycles), and the reader, which pops whenever it may, then
  takes it.
- Shell: `WF` of each task's tick, delays end; `SF` of each task, the delays (5 to 250 ms)
  are long against the work between them, so a task of low priority runs again and again. Without it
  the higher tasks could keep the processor forever in the model, where time is not counted.
- PS/2: `WF` of the clock, of a keyboard that is alive, and of the end of the 50 ms timer when the
  keyboard is silent. The driver is not assumed to go on: `TxEnds` is the hardware's promise.
- Input: `WF` of the pass (the task runs when the others sleep), of the bytes of a key that has been
  pressed, and of a launched program's init.
- Programs and windows: only safety is checked; their loops run until a key ends them.

## 6. Proofs

Everything is proved for all values of the constants under the named assumptions of the modules
(sizes are positive and fit the registers, the initial memory has the right type, `KeysAssumption`: the keys pressed
are keys with an encoding, and E0 and F0 are no keys). A theorem that needs more says so in its statement, by a named
hypothesis; there are nine of them, each explained below. An invariant
of a run is in general not inductive, so each proof has an inductive invariant of its own. Within each module the step is proved once per action.

| Module | Theorem | States | Under |
|---|---|---|---|
| `SdramBoard_proofs` | `TypeCorrect`, `RowsSafe` | `TypeOK`, `RowDiscipline` | |
| | `TimingSafe` | `TimingMet` | `DeviceFits` |
| `SdramRequests_proofs` | `RequestsSafe`, `PayloadSafe`, `NothingDropped` | `RequestsSurvive`, `PayloadHeld`, no latch is full when a request comes | |
| | `RefinesMemory` | `ImplementsMemory` | `NoGpu` |
| `VideoBoard_proofs` | `RefinesBoard` | the specification of `SdramBoard` | `WholeBursts` |
| | `LineSafe` | `LineShown` | `WholeBursts`, `RoomToCross`, `ReaderInRow` |
| | `FillSafe` | `FillExact` | `WholeBursts`, `RoomToStart`, `EngineInRow` |
| | `BurstsInRow` | `ReaderInRow`, and `EngineInRow` for aligned rectangles | `WholeBursts`, `Aligned` |
| `Shell_proofs` | `TypeCorrect`, `MutexSafe`, `NoLostProgram`, `PromptSafe`, `KeysSafe` | `TypeOK`, `MutexHeldInSection`, `WaitsForLiveProgram`, `PromptOnShellScreen`, `KeysTypedForProgram` | |
| `Ps2Board_proofs` | `TypeCorrect` | `TypeOK` | |
| | `ReceivesExactly`, `ReceiverAligned`, `CommandSafe`, `ResponseSafe`, `LedsSafe` | `RxExact`, `RxAligned`, `CommandDelivered`, `ResponseIsReply`, `LedsSet` | `SetupSettles` |
| `KeyInput_proofs` | `BootSafe`, `DecodersSafe`, `KeysSafe` | `BootExactly`, `DecoderTracksKeys`, `KeysAsTyped` | |
| `Ntt_proofs` | `NttSafe` | `NttExact` | |
| `Programs_proofs` | `TextSafe`, `LineSafe`, `RefinesPaper` | the invariant `TextInv`, `LineShown`, `ImplementsPaper` | |
| | `MuxSafe`, `PopulationSafe`, `GridSafe`, `RefinesLife` | `MuxFollowsDemo`, `PopulationExact`, `GridShown`, `ImplementsLife` | |
| | `TypeSafe` | `TypeOK` | |
| | `BodiesSafe`, `FoodSafe`, `GameSafe` | `BodiesSound`, `FoodFree`, `GameShown` | |

**`SdramBoard_proofs`**, for every geometry, burst length and interval and every set of addresses. `RowDiscipline`
is about the command on the pins only and not inductive. The invariant `IInv`
adds what each state relies on: `PinsName` says that the address pins carry a row with ACTIVE and
a column with READ and WRITE; `Rows` says, for the device as it will be once it has taken the
command on the pins, which rows are open in which state (none outside an access; in an access,
exactly the row of `addr_r`) and that the device is configured once boot is over. The step is proved
once per state of the state machine, and the address fields by lemmas on division.

For the timing, `Spaced` says for every state how long ago each kind of command was at least, counted by the
wait counters. `DeviceFits`: the wait states are fixed numbers in the source (3 cycles after ACTIVE and
PRECHARGE, 8 after AUTO REFRESH, 4 after LOAD MODE, the word 4 cycles after its READ), so the device must not ask for
more; those of the board ask for less.

**`SdramRequests_proofs`**: ownership. `Tokens` says of each port that its request is in exactly one place: on its
way as a flip of the toggle (`OneEdge`: a chain of flops holds one edge at most), in the latch, in the state machine, or
on its way back; and of the VGA port that the words of a burst that are not popped yet are those in the FIFO and
those to come. What is in one place cannot be overwritten there, and a toggle that travels has a payload that stands still.

The refinement, with the CPU and the frame buffer reader on their ports. `MemInv` adds
to the three invariants above that the operation is carried unchanged from the strobe to the pins, that the command on
the pins names the cell of the operation's address (the fields of an address are one-to-one: `Quotient`), and that the answer is the word of
that cell until the acknowledge has crossed. A step then changes the abstract memory only where the device takes or gives the CPU's
word. `NoGpu`: the bursts of the 2D engine write words no client of the abstract memory has asked for.

**`VideoBoard_proofs`**, for every size of the screen, of a burst and of the memory, and every list of rectangles. `RefinesBoard`: the board
with the reader and the engine is the one of `SdramBoard` with the reader as its VGA master and the engine as its GPU, on a third
clock; each step of it is a step of `SdramBoard` or leaves that board alone. All that is proved of the controller (types, rows, requests, payloads)
therefore holds here and is cited, not proved again. `Modes`: the program paints or shows, so the other master has nothing under way.

For the picture, `Crossed` follows the request for a line through the three flops, `VgaPlace` and `VgaWords` the words of a burst from the
column of the memory through the captures and the FIFO (the word at each place of the FIFO is the one of its count), and `Lines` says what each
line buffer holds: the one that is shown a whole line, the one being filled the words fetched so far, and of which line, in step with the picture
or one line late. For the rectangles, `Driver` and `Starting` follow `gfx_fill_rect` and the start pulse, `Engine` the position in the
rectangle (the address, a sum of steps, is the one of the row and the word), `Burst` the words that the controller has stored of the
burst under way, `Flushing` and `Busy` the way of the busy flag back to `gpu_wait`, and `Painted` gives the contents of the memory at every moment: the
rectangles finished, the words done of the one under way, and the picture before elsewhere. What no run can show is that this holds
for all sizes; the hypotheses are what the proof found to be needed of them:

- `WholeBursts`: a line is a whole number of bursts (320 words of 8): the reader and the engine ask for whole bursts only.
- `RoomToCross` (`LINE_GAP >= 2`, 800 in the source): two edges of the pixel clock, four of the system clock, between two starts of a
  line, so that the request toggle crosses. With 1 TLC finds `LineShown` violated.
- `RoomToStart` (`POLL_GAP >= 5`): `gpu_wait` (`gpu.c`) loads STATUS five clock cycles or more after the store to CONTROL, the
  time the start pulse takes to the engine and the busy flag back. With 4 TLC finds `FillExact` violated: the wait ends before the engine has started. The
  store and the load are calls through the bus of a processor that takes several cycles for each; nothing in the code enforces it.
- `ReaderInRow`, `EngineInRow`: no burst crosses the end of a row of the memory. `BurstsInRow` derives both from the alignment of the board (1024 columns,
  the frame buffer at word 0x01800000) and, for the engine, rectangles that start at a multiple of 16 pixels; the
  others are the subject of section 7: `gfx_fill_rect` accepts any even x, and `FillExact` fails for those whose bursts cross a row.

**`Shell_proofs`**, for every set of
programs, chaining relation and queue length. The invariant adds to the four safety
properties: `Console` (`active_prog` names a program exactly from the launch to the third store of
the exit), `Handle` (`xActiveTask` is set exactly while the task exists), `Launched` (the task
runs the program launched), `Fresh` (the queue holds keys of this program only) and
`OwnScreen`. The argument needs the priorities: `ShellFirst` shows that the program takes no step while
the shell, which is above it, is at the top of its loop, so what the shell finds in `active_prog` is still so
when it acts on it.

**`Ps2Board_proofs`**, for every length of a byte, of the FIFO and of the waits, and any number of keys and refusals.
`BoardInv` relates three views of one frame: the bits the keyboard has clocked, the bits the receiver or the transmitter
has counted, and the levels still in the synchronizer, which hold one edge at most since the keyboard waits for the lines to
settle. `Seen` gives the receiver's count for the keyboard's; `Answers` says, while the transmitter waits for an answer, where that
answer is. `DrvInv` says what the driver knows between two register accesses: the transmitter is idle when it writes,
and the byte it polls for is still the one in the data register. `SetupSettles` (`DATA_SETUP_TICKS_C >= 2`, 250 in the source): with
one tick the transmitter takes the falling edge it has itself made on the clock line for the keyboard's and loses the start bit; TLC then finds
`CommandDelivered` violated.

**`KeyInput_proofs`**, for any keys in any number. The boot automaton is right because the sequence begins and ends with
the one byte that occurs nowhere else in it, so that a mismatch can fall back to at most one matched byte.

`DecoderInv` follows the bytes not yet read, which are whole codes but for the first (`Stream`). A decoder that has read the code from its first byte
on has the prefixes of that code (`Within`); the one that has not may take the last byte for any key with that code, and is wrong about
no other (`Agrees`). The invariant holds of each decoder separately, whoever reads the byte: the one that is given it (`GivenByte`) and the
one that misses it (`MissedByte`).

For the queue, the bytes on their way, `uart_rx \o line`, are whole keys one after the other but for the first (`KeyBytes`), and the filter is in
the state in which the part of that key already read has left it (`AtMark`). Between two keys there are three such states (`AtRest`):
everything is queued; an ESC waits; or an O behind an ESC is lost. The countdown cannot end inside a key, since `MAX_GAP + 2 <= ESC_WAIT_TICKS`
(`InTime`). That nothing but what hurry costs is lost is the step of `Byte` in each of these states (`DueAtMark`).

**`Programs_proofs`**. The engine, on a grid of any size: `EngineInv` says that the places before the position of the scan hold the next
generation, or have been counted, and `ScreenInv` that the screen shows the shadow grid, which is the visible one when no handler waits; the steps between two generations leave `live` alone, and the swap is one step
of `Life`. The screen is drawn by rows, and the picture after the last row is found by induction on the rows
(`EachNat`: a set of numbers that holds 0 and the successor of each of its members is all of `Nat`). The
demo's invariant relates the channel register to the program's own variables through all five ways out. The
snakes, on a torus of any size, with any food: bodies are linked sequences, the cells a step draws repaint exactly what the step
has changed. `SnakeGood` says this, and that food and bodies are apart, of a game in which `missed` is still false, and `SnakeTyped` the types of every game, with
a body for each snake that plays; a step keeps the two together. The food is clear of the bodies when it is placed, and a head that comes to it eats it and has it
placed again in the same step; so no body gets over it.

`TypeSafe` speaks of every game, the tries for the food run out or not, and rests on `SnakeTyped`. For the engine
the 16 bits of its counters bound the grid (`PopulationAssumption`). For `ntt.c` it says that a butterfly leaves a word, whatever
the reduction does with a product that is too wide (`Ntt_proofs`).

**`Ntt_proofs`**, for any vectors loaded and any commands in any order. `NttExact` says that the buffer is the transform by its
definition, a sum of 256 products for each of 256 values, until a product passes 32 bits. Five parts lead to it:

- The recursive functions of `Ntt` (the table of powers, the sums, the stages) are shown to exist, step by step: the table by doubling the part
  on which it is defined, the others by eight steps one after the other (`EightSteps`).
- The residues of 3329 are a ring (`PlusIs`, `ProductIs`), the table holds the powers of 17 (`PowerNext`, from its squares), and
  17^128 = -1 (`PowerLast`, by following the squares).
- A sum of 256 values is taken by halves (`Partial`), because induction over data is out of reach and induction over eight levels is not
  (`EachLevel`). So sums are linear, may be exchanged (`SumsExchanged`), and the sum of the powers of a root is 0 but for the root 1
  (`SumOfPowers`). Hence the inverse undoes the transform (`InverseIs`).
- What the array holds after stage n is told without the code (`Blocks`): at each place a partial sum of the terms of one residue, the residues in the order of their
  reversed bits. A butterfly leads from there to the next stage (`StageSums`), the inverse with the inverse's factors.
- Barrett's estimate is at most one too small while the product by 5039 fits in 32 bits (`BarrettIsExact`), so the code's stage is the
  stage of residues (`StageExact`). `wide` remembers a product that did not fit (`AppliedWide`), and the bit reversal sorts what eight stages leave (`AppliedExact`).

The inductive invariant, `NttGood`, is the type with the property itself. The proof of the types had found the sum of the definition written as a function that looked
outside its domain, where TLC does not evaluate it; it is now the sum by halves (`Total`), which TLC and the proof read alike.

The text screen (`TextSafe`, `LineSafe`, `RefinesPaper`), for any size of the screen, any letters and any length of the line, in any order of keys, calls and status bars. Each
call of `vga_hal.c` is first told as what it does to the roll (`Written`): a scroll moves a row from the screen to those gone and leaves the
roll alone, a wrap appends a blank row, the bar touches no row of it, because the cursor never goes below the row above the bar and nothing is
written below the cursor (`Good`). The roll is then read as one row of places (`PlaceOf`, `Symbol`), in which a line that wraps is one
segment that ends at the cursor (`Stands`). `LineShown` speaks of the moments at which nothing is left to print, and is not inductive;
`TextInv` says of every moment what is still to be printed: nothing, the rest of a prompt with what precedes it (`ToPrompt`), or the echo or the erasure of the last
character (`ToEcho`). The erase at the left edge (`slipped`) is the one step that breaks the segment, as `LineShown` says. The only assumption
on the letters is that none of them is the name of a control code.

Checked by TLC only:

- all liveness (`CpuAnswered`, `RequestsEnd`, `ExitReturns`, `ChainLaunched`, `StatusServed`, `TxEnds`, `EveryKeyArrives`), which is
  out of the prover's reach under fairness.

## 7. Disagreements with the sources

1. `video_cpu`: `S_IDLE` picks an access and stores its address; `S_ACTIVATE`, one cycle later, chooses the path again from
   the latches. A VGA request latched in between takes the CPU's access over. It finds the counter of the burst at its last word,
   because only the start of a VGA access in `S_IDLE` resets it (line 641): one word of the CPU's row is pushed, `S_VGA_TRP_WAIT` clears the
   request (line 841), and the reader waits for the other seven words for ever, with no timeout in `F_POP` and every later line request
   dropped. The picture stops, against the comment that the request is served later from IDLE; the CPU's access is done
   afterwards and is right. The commands are still legal for the device (`RowDiscipline` holds with all three masters). A request of the 2D engine
   latched there paints the CPU's cell and is told done.
2. `shell_chain`: a stop sent to a program that is leaving stays in `xProgCmdQueue` and ends
   the next program in its first loop.
3. `ps2_count`: a byte received on the edge on which another is read is not counted.
4. `twm`: `alloc_node` returns the same tile twice to `tile_split`, which marks it used after the second call
   only, so that the first split makes a tile its own parent and child.
5. `ntt`: the product in `barrett` wraps for every argument above 852345, and the result is then not reduced.

`PROJECT.json` quotes the lines on both sides.

Met while modelling, and visible in the models, without a run of their own, since no line of the repository
clearly promises otherwise or since the case is outside the bounds:

- The refresh counter of `sdram_ctrl.vhd` runs in `S_IDLE` only, so the interval grows with every access in it.
- `gfx_fill_rect` accepts any even x (`gfx.c:31-34`). With an x that is no multiple of 16 pixels a burst reaches the wrap
  of the column (`sdram_ctrl.vhd:856`) once in 128 pixels: eight pixels at the edge stay unpainted and eight
  at the start of the row of the memory are painted. In the model, `FillExact` fails with x = 2.
- A program that never claims the board leaves the LCD on the shell.
- The hold of the clock line starts from the timer that has counted the wait for an idle line: 70 us on a line at rest,
  anything from one tick (and the 5 us of the data setup) to 84 ms on a busy one.
- The locks of the monitor (`ps2.c`) start off and set the LEDs; `t_uart_input` still remembers its own.
- A modifier let go while another reader has the keyboard stays down for the decoder that did not see it, until the key's next event; a launch or an exit
  inside a scan code splits E0 or F0 from its code, which then is a press or another key. `doc/de2shell-module-acceptance.md:207` ticks
  the independent tracking of presses and releases of the modifiers, without a word on such changes. `DecoderTracksKeys` says exactly how wrong a decoder may be.
- A key typed within the 30 ms in which an ESC waits is swallowed together with the ESC (`main.c:1198-1207`).
- When the 200 tries of `place_food` (`snake.c:97-103`) run out, the food lies on a body: it is painted over the body and disappears under it when the body moves, and a snake
  that eats it on its own tail meets itself. Without their condition on `missed`, `BodiesSound` and `GameShown` fail in the model within nine moves.
- `ps2_decoder.c` takes the E1 of the Pause key for a code and its 77 for Num Lock; the repeated make code of a held Caps Lock
  toggles it each time.
- `SC_ALT` of `twm.c` is 0x38, which is no Alt of set 2: the keys with Alt work in the SDL build only.
  The callers of `tile_split` pass 1 and 2 where it tells 0 from the rest, so both commands split the same way.
- Conway left with its help open ignores every key but F1 at the next launch.

## 8. What is not modelled

- SDRAM: CPU burst reads (`wb_cti_i = "010"` is driven by no top level), byte enables, write
  recovery time (the controller has no parameter for it), the electrical side.
- Video: the pipeline from the line buffer to the pixel, the sync signals, the debug counters, reading the
  engine's registers back, the `LOCAL_BUILD` drawing; reader and engine at work at once, and the pixels while the CPU
  uses the memory (section 7, 1): `LineShown`, `FillExact` and, in the run `video`, `RequestsEnd` are without the CPU. `RequestsSurvive`
  is with all three masters, but about the latches only: it does not see a request cleared after one word.
- Shell: what the commands print and do, the failure of `xTaskCreate` (a failed
  allocation ends in `vApplicationMallocFailedHook`, which never returns), `g_status_suspend`
  (redundant with the mutex in every place it is set), the history of lines (unreachable in the build for the board, where the
  filter has swallowed the arrows), the overrun of the UART's 32 bytes.
- PS/2: a keyboard that falls silent between two bits of a frame (it does so only while idle), the overflow flag and the interrupt, which the shell never uses; the second driver, in
  `sw/lib/ps2.c`, and what its monitor prints.
- Text video: lines on which an erase has met the left edge (outside `LineShown`), colours, the copy on the serial line, the generation of pixels.
- Programs: scores and speeds, the limit of a snake's length (the cells of the grid), help texts, the pages of the experiments. The programs
  that read and print without a state of their own (`info`, `dashboard`, `monitor`, `memtest`, `selfcheck`) are left out, and so is
  `lib/main.c`, an older host that does not link. The desktop's rectangles and panels are left out.
- `ntt_sdf.vhd`: no top level instantiates it.
- Interconnect, UART over JTAG, infrared receiver, timer and interrupt controller, LCD: small, and left for later (section 9).
- Cryptography: pure functions on 32-bit words; known-answer tests are the right tool.
- Sound, shader, course labs: signal processing, per-pixel arithmetic and independent exercises on the LEDs.
- Generated and third-party code: program image, fonts, pForth, IP cores, NEORV32 (a
  submodule whose source is not in the repository). These are most of the lines of the repository.

## 9. Plan

Done: the models and runs of all parts marked M; proofs of every safety property of the passing runs.

Models to come: `WbIntercon`, the decode as a function with disjoint windows and an answer for every strobe;
`UartJtagBridge`; the infrared automaton; the timer and interrupt registers.

A routine check should stay within minutes per run; where two violation runs of one module show
the same kind of defect, one of them makes room for a new component.
