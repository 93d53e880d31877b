# A verification project for conc-trinketry

The repository holds five small programs. This directory models the ones with
logic of their own in TLA+, checks the models with TLC on small instances and
proves most of their safety properties with TLAPS for every value of the
constants. Each model is written from the code, function by function;
`PROJECT.json` gives, for each definition, the lines it stands for.

Run a model with `tlc -config X.cfg M`, a proof with `tlapm M.tla`.

## Inventory

| component | code | state | operations | what is hard about it |
|---|---|---|---|---|
| minesweeper engine | `minesweeper/game.c` | the real map, the map the player sees, cursor, status, `is_first`, `is_debug`, mine count | poke, flag, four cursor moves, check for the end | mines placed by the first move; a counting loop that overwrites the map it reads; a recursion that stops at flags and at earlier floods; a check for the win that runs on lost boards |
| minesweeper timer | `minesweeper/game.c` (`gt_*`) | start, elapsed time, displays, paused or not | reset, start, stop, advance | displays that decide whether they are computed again |
| minesweeper main loop | `minesweeper/main.c` | the timer and the header line | one iteration per key | the order of key, clock, header, check, stop |
| numbers game | `numbers_game/game.c`, `main.c`, `rand.c` | in memory: score, count, boundary, number, status; on disk: `data.sav` | `--new`, `--try`, both | the save is truncated, then written; concurrent invocations, crashes, a full disk; results nobody looks at |
| nasciiminer | `nasciiminer/engine.cpp`, `main.cpp` | the last key, the current layer, the layers | two threads: keys, drawing | no synchronisation between them; `++` and `clamp` are two stores |
| risc16 processor | `risc16/cmdi.cpp`, `modules.cpp` | 64K words of memory, eight registers, pc | fetch, decode, eight instructions | widths, the ends of ROM and RAM, masked branch targets |
| risc16 debugger | `risc16/cmdi.cpp`, `main.cpp` | arguments kept between commands, breakpoints, views of the memory | jump, poke, set-pc, exe, add-b, del-b, run to breakpoint | arguments that fail to parse, running to a breakpoint |
| risc16 assembler | `risc16/assembler/assembler.c` | labels and their addresses, the address, the output | a line of the first pass, a line of the second | two passes that count by different code; arguments that only the first one checks; sixteen-bit addresses; registers that end the program with status 0 |
| tablet driver | `tablet-driver/hid-kye.c` | the descriptor in use, whether the hardware runs, what has become of the request for the tablet's mode | probe, report fix-up, enabling report | a probe of many steps, each of which can fail, with the device unplugged between any two; three switches over the products that must agree; descriptors written by hand, byte by byte |
| perlin noise, drawing | `nasciiminer/perlin.cpp`, `ms_draw_*` | none | | output only |

The programs do not interact with each other, except that the emulator runs what
the assembler writes. Within the minesweeper the main
loop calls the engine and the timer; within the numbers game `main` calls
`game_init` and `game_play`, which call `__game_save`, and invocations meet in
the file; in nasciiminer two threads share the engine object; the tablet driver is called by
the HID core of the kernel.

What makes each of them correct: the two maps of the minesweeper never
disagree, a move uncovers what it should and no more, the game ends when it
should, and the header tells the truth; a save of the numbers game is one that
somebody can have played, whatever interrupts it; nasciiminer's layer stays in
its map except where the code lets it out; a risc16 program computes the same
whatever the debugger looks at, with every value in sixteen bits, and what its
source says; a failed probe of the driver undoes what it has done, and a tablet
whose descriptor was replaced has been asked for the mode the new one describes.

## Modules

| module | models | built on |
|---|---|---|
| `Board` | tile codes, `ms_inc_tile`, `ms_remap_show`, `ms_reveal_at` as functions of maps | |
| `Minesweeper` | the engine, one action per key of the loop | `Board` |
| `MinesweeperSteps` | the handlers taken apart: placing loop, counting loop, recursion | extends `Minesweeper` and implements it |
| `GameTimer` | `gt_reset`, `gt_start`, `gt_stop`, `gt_advance` | |
| `MinesweeperMain` | the main loop with timer and header | `Minesweeper`, `GameTimer` |
| `GuessGame` | abstract: what a player of the numbers game is promised | |
| `NumbersGame` | the numbers game, one process per invocation | implements `GuessGame` |
| `Nasciiminer` | the two threads, one step per access of what they share | |
| `Risc16` | the processor: memory, registers, the eight instructions | |
| `Risc16Debugger` | the main loop of the emulator and its command lines | extends `Risc16` |
| `Assembler` | the two passes of the assembler, one step per line | |
| `Toolchain` | assemble, load, run | extends `Assembler`, instantiates `Risc16` |
| `KyeDescriptors` | the seven fixed descriptors, and what the HID core makes of one | |
| `HidKye` | the driver's probe and fix-ups, plugging and unplugging | extends `KyeDescriptors` |
| `MinesweeperProofs`, `MinesweeperStepsProofs`, `MinesweeperMainProofs`, `NumbersGameProofs`, `NasciiminerProofs`, `Risc16Proofs`, `ToolchainProofs`, `HidKyeProofs` | the theorems | |
| `MC*` | what the runs add: constraints and symmetry | |

### The minesweeper

A map is a function from cells `<<x, y>>` to the character codes of `map_tile`;
codes are numbers because the code computes `count + '0'`. `remap`, `immap`,
`curs`, `status`, `is_first`, `is_debug` and `mine_count` are the fields of
`minesweeper_t`. In `Minesweeper` a step is an iteration of the loop in
`main.c`: the handler of the key (`PokeMine`, `PokeSafe`, `Flag`,
`MoveCursor`, `Idle` for any other key), then `ms_check_win`, which the code
calls each time. When the game is over the loop reads keys and does nothing
(`Frozen`). `Layouts` is what the first poke or flag does before anything else:
it places the mines and counts them.

`ms_reveal_at` is defined by what it reaches: the region of blank cells, and
their neighbours. `Region` is the intersection of closed sets and not a
recursion, which makes it something to prove about; that the recursion of the
code computes the same is what `MinesweeperSteps` shows. There the stack of
calls is the sequence `calls`, and one step is one placed mine, one counted
cell, or one call of `ms_reveal_at`. `Whole` maps it to `Minesweeper`: while a
handler is at work the abstract state is that of the moment the key was read
(`before`).

`MinesweeperMain` adds the timer (`GameTimer`, in whole seconds) and the
header in the order of the loop: key, `gt_advance`, header, `ms_check_win`,
`gt_stop`. `gt_start` and `gt_advance` each read the clock, so that a first move may begin
at one instant and be shown at a later one. The clock is assumed to go forward.

### The numbers game

Each process is an invocation: `Start` reads the options, `InitNew` and
`InitLoad` are `game_init` up to its call of `__game_save`, `OpenSave` is the
`fopen` that empties the file, `WriteSave` the write that `fclose` does, `Play`
is `game_play`. A process can die anywhere (`Crash`), the write can fail
(`WriteFails`, the code goes on), the random device can be missing
(`RndInitFails`). The sixteen bytes of a game go out in one write, so a process
that is killed has written all four words or none, and a disk without room for them takes
the first ones (`WriteFails`). `LastRead` is what the loop of `__game_load` has counted when it
finds the end of the file, and `Loadable` the comparison with four. `plays`, `hits`, `basis`, `cut` and `met` are history
variables for the properties and for the mapping to `GuessGame`; no guard
reads them. `met` says that the invocations that run now have
overlapped, until all have ended: only while it is false is the file a `GuessGame`, which
two players at once are not.

### nasciiminer

`GetKey`, `StepLayer` and `ClampLayer` are the simulating thread,
`CheckKey`, `TerminalTooSmall`, `BeginFrame`, `ReadLayer`, `EndFrame` and `Wake` the
renderer. The Makefile asks for no optimisation, so each access of the source
is one of memory; `currlayer = clamp_ui64(++currlayer, ...)` stores twice. A
layer read outside the map is undefined: the process dies or goes on.

### risc16

`Risc16` takes the fields of an instruction from its word with `\div` and `%`,
as the masks of `instr_t::decode` do, but with the number of registers and the
width of the immediate as constants: three bits of opcode, two registers, an
immediate whose low bits are the third register, and the rest follows (a word of
`8 * NRegs * NRegs * Imm` values, an address per word, `lui` above the low bits). With
`NRegs = 8`, `Imm = 128`, `RomEnd = 8191` it is the emulator's machine; the
runs use seven or three bits. `U16` is the conversion of every assignment to an
`uint16_t`. `BitAnd` is a constant operator, so that the module needs no
recursion and can be proved about; the runs give it the community modules' `&`.

In `Risc16Debugger` a step is a key of the loop in `main.cpp`, a command line
(`getline` and `parseio` with the command it calls), or one instruction of `exe`
(`mode = "ticks"`), or one half of a round of the run to a breakpoint: the tests of the loop
(`RunTest` and, when a key is there or a breakpoint, `RunEnds`, in `mode = "run"`) and the instruction after them
(`RunStep`, in `mode = "step"`). `arg_addr` and `arg_data` outlive the line they were typed
in: a line whose argument does not parse sets `err` and is carried out with
the old one. The loop begins with the key `.`, which nobody pressed (`Dot` before
`started`), unless the terminal is too small (`Swallowed`).

### The assembler and the tool chain

A source is a sequence of lines, and a line is what `readAndParse` makes of it: a
label, an opcode, and the tokens after it. A token is what the code asks of it:
whether `isNumber`, its value as a number or as the digits after an `r`, and a name
to compare with labels. In `CollectLine` pass one declares the label and counts
by opcode and `.space`; `RefuseLine` is its exits, `NoOpcode` the null pointer of a
line that is only a label. In `EmitLine` pass two writes the words and counts
what it wrote; `Failures` is the set of ways a line can end the program, of which the
order of evaluation, which C leaves open, picks one. `address` is a short that wraps,
and the words are put together from the same widths `Risc16` takes them apart
with. `Needed` is the table `formats` as compiled: without the comma between
`"jalr"` and `"lui"` it holds the one string `"jalrlui"`.

`Toolchain` follows the assembler with `mem_unit::fill` and the instructions of
`Risc16`. The two programs meet in a file only: the assembler has opened it before its first pass,
and whatever it ends with, a user can run the emulator on what is there. `Load` takes the file
after each end but a crash: the whole program, the words of the lines before the one that was
refused, or none. The
meaning of a line, `MeansWhatItSays`, is stated on registers and memory without
instructions, so that assembler and processor are checked against a third thing.

### The tablet driver

In `HidKye` a device of one of the eleven products is plugged in with a descriptor of its
own; `Probe`, `Parse` (which calls `kye_report_fixup`), `StartHw`, `EnableTablet`,
`OpenManticore` and `EnablingFailed` are `kye_probe` up to each call
that can fail; `Unplug` and `ResetBus` can come between any two of them. `request` is what has become of the
report that enables a tablet: `hid_hw_request` queues it and returns nothing, after which the device takes it
(`Arrive`) or it is lost (`Lose`), and a device that loses its power or is reset forgets it. What the kernel does is modelled by what the
driver relies on (`Plug`, `ResetBus`, `Arrive`, `Lose`, `Remove`, `ProbeFailed` and the parser in
`KyeDescriptors` are external): a driver without `remove` is stopped by the core, a
failed probe has its descriptor given up. The fixed descriptors are sequences of
the items that the parser's state and the driver's questions depend on; usages
and physical units are left out.

## Runs

| run | instance | shows |
|---|---|---|
| `minesweeper` | 3x3, 2 or 10 mines, at most 2 flags on a board that is explored further | types; the number of mines placed, one cell left when there are too many; the first move is safe; counts right on the map they are written over; what is seen is true; a win is exact and a loss is shown in full; flags hold against the flood; the flood is exact |
| `minesweeper_steps` | 3x3, 1 or 10 mines, at most 1 flag | the loops and the recursion implement `Minesweeper`; every handler ends |
| `minesweeper_asked` (violated) | 9x9 | what an uninitialised `is_debug` does |
| `minesweeper_main` | 2x2, instants around a minute, an hour and 99 minutes | the timer runs while the game does; the header shows the time since the first move and, at the end, the mines not flagged |
| `timer_over_99` (violated) | the same | the displays past 99 minutes |
| `numbers_game` | 2 processes, 3 invocations, boundaries 2 and 3, guess 1 | saves are coherent, engines ready, saves of less than a game explained; invocations that do not overlap implement `GuessGame`, whatever overlapping ones have left |
| `numbers_game_new` (violated) | 1 process, 2 invocations | `--new` with `--try` after a failure of the random device |
| `risc16` | 2 registers, words of 7 bits, ROM 0 to 7, 2 programs, 2 numbers to type | types; register 0 is zero; programs write the RAM only, and not its last word; the views stay inside, with their length; runs stop at breakpoints |
| `risc16_refused` (violated) | 1 register, words of 3 bits | a line answered with an error is carried out |
| `nasciiminer` | 3 layers, 2 reads per frame | when the layer is outside the map; `q` ends both threads |
| `toolchain` | 2 registers, words of 9 bits; every source of two or three lines out of 23 about labels, sizes and arguments; 4 programs that run | types; the passes agree; labels resolve; arguments are checked; programs run as written |
| `tablet` | all 11 products, own descriptors of 8 sizes, 5 contents, with or without the bytes the patches look for | types; stopped unless bound; a tablet with a replaced descriptor has been asked for its mode; the fixed descriptors are accepted, enable the tablet and fit their fields |

Why the bounds are enough. Three cells a side are the least with an inner cell,
an edge and a corner, with boards on which a flood stops half way at flags or at
counts; with two mines there are boards whose blank cells form no region, one,
or the whole free part. Two flags allow a right one and a wrong one at once, and
winning. `FewFlags` bounds the boards that are explored further; boards one flag
above the bound are checked too. Ten mines, one more than there are cells, reach the
limit of the placing loop. `FewBoards` explores, of the boards that turn into each
other, two of each kind beyond the first move. For the numbers game three invocations
by two processes contain every overlap of two of them with a saved game to begin with, and two
boundaries tell the old game from the new one; a save cut short holds none to three words, so that
the count of a load meets each value up to four;
`MaxInvocations` is what makes the model finite, and the runs turn the deadlock check
off because with it the invocations end. Seven
bits are the least that keep two registers and an immediate apart; the
two programs store below, at and above the ends of ROM and RAM and let an address
wrap around, and a poke may put any typed number over them. The numbers typed are the last
addresses of the two halves, one of them as a negative number. `FewChanges` stops
at states with a second breakpoint, a second word of the RAM written, many ticks
left, or pc in the zeros of the RAM, which are all the same instruction; a view that has
moved goes on moving as long as nothing has been executed (`OnlyViews`). Three layers
have two ends and a middle, and the code makes no map with fewer.

Nine bits are the least in which the assembler's fields fit (an immediate
is one of eight extensions with its code, and holds what `lli` loads) and addresses
go below zero after one long `.space`. The lines of `toolchain` hold each size a
line can have, a label used before and after its declaration, declared
twice, too long, empty and not at all, arguments missing where pass one looks and where
it does not, and numbers beyond each bound; three lines are enough to declare, to use, and to move what is
between. The programs count down in a loop with a forward branch, load and store
around data behind a label, call through a register, and end half way at a
register that is none or, after a negative `movi`, at an immediate out of range; sixteen instructions take each of them to its end or once around. The
sizes of `tablet` lie on both sides of each the driver compares with;
`FewOpens` stops at the third open or close that is never undone.

Fairness. `HandlerReturns` assumes weak fairness of `Handling`, that is that
the program runs on while a handler is at work, and that `rand()` does not
choose taken cells forever while free ones are left (the failed tries are
`PlaceAgain`, which is not in `Handling`). Nothing is assumed of the player.
`QuitEnds` assumes that each thread of nasciiminer keeps running: neither waits
for the other, and `getch` and `sleep_for` have timeouts.

## Disagreements between the code and its documentation

- `minesweeper_asked`: `ms_alloc` does not clear the engine and only `-d` sets
  `is_debug`. When what it finds is not zero the eighteen mines of the test
  pattern are played, where `--mines` says "Specify how many mines there will be".
- `timer_over_99`: "do not bother if over 99" (`game.c:627`), but 99:99 is not
  over 99, and the displays alternate between 99:99 and the time.
- `numbers_game_new`: "Start a new game, with a set boundary" (`main.c:65`),
  but the error of the first `game_init` is overwritten by the second, and the
  guess is made in the old game.
- `risc16_refused`: "err: invalid address" (`cmdi.cpp:291`), but `parseio` does
  not look at the result and carries the command out with the argument of an
  earlier line.

Seen while modelling, and contradicting nothing the repository says: an error
in a register ends the assembler with status 0 and half of its output (`assembler.c:122`); a program refused
with status 1 leaves such a file too, or an empty one when pass one refuses it, and the emulator runs either
(in `Toolchain` as well, where `RunsAsWritten` says of the part that was written that it does what
its lines say); for the missing comma (`assembler.c:56`) a `jalr` or `lui` without its
arguments is a null pointer in pass two; a label that is nowhere is address
-1; the processor takes immediates without a sign and branches within the first
`Imm` words only, so that a negative offset of `lw`, `sw` or `addi` does not do what the
assembler accepts it for (`MeansWhatItSays` says nothing of it), and `halt`, `sys` and
`exc` run as `jalr r0, r0`; numbers are cut to sixteen bits before they
are compared with a range. In the driver the Manticore keyboard is closed after an open
that failed, and never after one that did not (`hid-kye.c:825`); a tablet that is
reset without being unplugged is not enabled again, since there is no `reset_resume`, and neither is one that
the request did not reach: `FixedTabletsAreAsked` promises the request and no more.

Not about behaviour a model could check: the message of `minesweeper/main.c`
gives the map size as [1, 100], its condition rejects 1.

## Proofs

Each of the eight proof modules has an inductive invariant and reads the
properties off it.

`MinesweeperProofs`: for every `Size` above one (`SizeAssumption`) and every set of
positive mine counts (`MinesAssumption`), without the debug bit, and with it wherever the test pattern lies on the
board (`PatternAssumption`: a `Size` of nine at least), the
theorems `TypeCorrect`, `CountsAreRight`, `ShowsTheTruth`, `WinsAreExact`, `LossesAreShown`,
`MinesArePlaced` and, as action properties, `FirstMoveIsSafe`, `FloodIsExact`,
`FlagsAreHeld`. The invariant is the conjunction of the properties themselves:
`WinExact` alone is not inductive, since to know that a poke on a lost board is
not taken for a win one needs what `immap` shows of `remap`, which needs
`RemapCounted`, which needs that the first move starts from an empty map.
The module begins with lemmas on maps: a cell has eight neighbours at most, so
that a count is a tile; counting moves no mine; a region is closed; and from these
what a flood leaves.

`MinesweeperStepsProofs`: `StepsTypeCorrect` and `StepsImplementWhole`, the handlers taken
apart implement the handlers as wholes, for every size. `StepsInv` has a part for each loop. The
placing loop has placed as many mines as it counted. The counting loop has on the
cells before `at` the counts, and mines where they were; at its end that is a
member of `Layouts`. In the recursion every call that waits is in reach of the cell
poked, and so is every blank cell shown; around a shown blank cell, whatever is not yet
shown waits in `calls`. So when nothing waits any more, the blank cells shown are closed, contain
the region (`FloodReach`) and are contained in it, in whichever order the calls were made. No
induction over the calls is needed, only the minimality of `Region`. A step of a loop
is a stutter of `Whole`, the last one is its step.
Of the end of a handler two things are proved. `HandlersCountDown`: every step of it lowers
`StepsLeft`, a natural number, in which a hidden cell counts for the eight calls it can still
make (`EightCalls`). `AFreeCellIsLeft`: while mines are placed some cell can take one, so
that `rand()` can find it. Fairness adds to them that steps are taken and cells found, which
makes them `HandlerReturns`.

`MinesweeperMainProofs`: for every set of instants (`InstantsAssumption`),
`MainTypeCorrect`, `TimerAlwaysRunsWithGame`, `ElapsedAlwaysShown`,
`StartAlwaysStays` and `HeaderCountsAtEnd`. A step of the loop is a step
of the engine, so the engine's invariant holds of the composition; beside it
the timer's needs `LongAgo`, that a timer past 99 minutes was started so long ago, since
then the display no longer tells the time it was computed from. That the header counts the
mines not flagged when the game is over needs what the engine promises of its
last maps: on a lost board no flag is left off a mine.

`NumbersGameProofs`: for every set of processes, boundaries, guesses and number
of invocations, `TypeCorrect`, `SavesAreCoherent`, `EnginesAreReady`,
`CorruptSavesAreExplained`, and as action properties `OnlySavesChangeIt` (that a save changes the file to
nothing, to its own game or to the first words of it, and nothing else does; no run repeats this) and `Refinement`. `SavedGameCoherent` is not inductive: a save writes
what is in the memory of the process, so that every process that will save or play
must have a coherent game (`EngineReady`), and a process past its load must have
found four words. What a save that was cut short left is too short to be loaded (`FirstWords`), and what was
loaded is the game saved (`LoadedGame`). This is what the two-process run samples, proved for any
number of processes. `Refinement` needs of a process that has met no other that
it runs alone, and that what it is about to save is a new game, the one it has loaded, or
that one a guess later (`OnTheWay`).

`NasciiminerProofs`: for every depth and number of reads, `TypeCorrect` and
`OutsideOnlyBetweenStores`. `OutsideOnlyMidUpdate` needs that the thread starts
each change inside the map and from which key it starts it. `QuitCountsDown`: after `q`
the simulating thread has ended and each access of the renderer lowers `RenderLeft`, the
part of `QuitEnds` that does not need fairness.

`Risc16Proofs`: for every number of registers, width of the immediate, split
of the memory (`WidthsAssumption`), every operation `BitAnd` that gives words
(`AndAssumption`), every set of programs, and whatever is typed, `TypeCorrect`,
`RegisterZeroIsZero`, `ViewsStayInside` and, as action properties,
`ProgramsKeepToRam` and `BreakpointsStopRuns`. The last rests on `TestedSteps`: between
the tests and the instruction of a run nothing moves pc or sets a breakpoint. The emulator's sixteen bits are one instance,
which TLC could not enumerate. The invariant is `TypeOK`, `ZeroIsZero` and `ViewsInside`
together: an instruction reads the registers it names as words, and a view's
end is derived from what was typed. `ExecuteStep` says of one instruction what
all the theorems need.

`ToolchainProofs`, first of the assembler: for every source (`SourcesAssumption`), every width
(`FieldsAssumption`), size of the table and length of names, `TypeCorrect`,
`PassesAlwaysAgree`, `ArgumentsAlwaysChecked` and `LabelsAlwaysResolve`. The
invariant adds that every line before `at` was collected, that `starts` adds up
the sizes pass one counted, modulo the width of a short, and that each label was
of one of the lines pass one has collected. The size of a line is
then compared with the number of words written for it once, opcode by opcode.
Then of what it writes, `ProgramsRunAsWritten`, for every width in which the third register
is the low bits of the immediate (`LayoutAssumption`) and every `BitAnd` of words: what the
processor does at each line that was assembled is what `MeansWhatItSays` says
of the line, also when the second pass has refused a later one. `ToolInv` adds to the assembler's invariant that each line before `at` is in `out` at a place
whose short is its address (`OutInv`), that its arguments have passed the second pass
(`Checked`), and that the ROM keeps what was loaded (`MemInv`). `Fields` and `WideFields` take
a word apart into what `Instruction` has put together, and `FirstWordMeans` compares, opcode by
opcode, what is executed with what is meant: `UpperBits` for `lui`, `ShortWraps` and
`CutToImmediate` for the branches, which pass through a short, a word and an
immediate. The proof found a premise that the runs did not need: a program longer than the memory
has two lines at one address, so that `RunsAsWritten` says nothing of it (`Len(out) <= W`; the
assembler accepts such programs, of which the emulator loads the first `RomEnd` words).

`HidKyeProofs`: for every set of descriptors devices may have, `TypeCorrect`,
`HardwareFollows`, `FixedTabletsAlwaysAsked`, `FixedAlwaysWork` and `FixedAlwaysFit`. The third says of a
binding that the request for the mode was sent in its probe, not that it arrived; it needs that
a fixed descriptor is in use of tablets only, all of which `Enabled` lists. The last two are about
the bytes of the seven descriptors. The parser in `KyeDescriptors` and the count of bits in
`FixedDescriptorsFit` are recursive functions, of which the proof needs what they make of two
sequences one after the other: `AfterBoth` and `BitsBoth`, by induction over the length, with a set
of numbers for the formula (`SetInduction`, from the library's well-foundedness of the numbers, since its
induction theorems cannot be instantiated here). Each part of a descriptor is then followed
item by item once, from whatever global items the part before has left (`PenFollows`,
`MouseFollows`, `PuckFollows`, `KeysFollow`, `FourKeysFollow`, `EnablingIsTable`): `Follow` says that it leaves no collection
and no push open and adds fields that are ranged and whole bytes, for every axis that needs no more than sixteen
bits. `TabletsHaveTables` composes the seven from them; a tablet that is added with the same parts
and other axes needs one more step there. `WorksInv` carries that through the probe: nothing has failed before the tablet is
enabled, and with a fixed descriptor only memory or the hardware can be missing.

Only model-checked: liveness (`HandlerReturns`, `QuitEnds`), which is out of the prover's
reach but for the counts it rests on. Every invariant and every action property of the passing runs
is a theorem.

## Not modelled

Drawing, colours and screen sizes (output only), with the calls of ncurses from both threads of nasciiminer,
which ncurses does not allow; the test pattern on a board of fewer than nine cells a side, which the code writes outside its
maps; a clock that is set back during a game of minesweeper; a word of `data.sav` written in part; what a crash of the assembler leaves in
its file; the contents of nasciiminer's
map (floating-point noise); allocation failures, which end the programs; read
errors of `data.sav`; the width of the numbers game's counters, which no number
of guesses a player makes reaches; the formatting of the header (its values
are modelled). A program file that does not parse ends the
emulator before it starts, and `q` ends it at any key; what follows is nothing.
How the assembler cuts a line into tokens, numbers in hexadecimal (which `atoi` and
`strtol` read differently) and lines longer than its buffer. The usages and
physical units in the tablet's descriptors, the driver's messages, and the HID
core beyond what the driver has of it.

## What is left

Everything that changes state is modelled, but for the contents of nasciiminer's
map. Worth doing next: the programs in `risc16/asm` on the sixteen-bit instance of
`Toolchain`, one run each, with what they compute as the property.
