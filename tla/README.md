# Verification of NEMU, its kernel and its programs

NEMU emulates an IA-32 machine (`nemu/`). On it runs a small kernel
(`kernel/`), and on that the user programs (`game/`, `testcase/`). This
directory models the parts of the system where order, timing and shared state
matter, checks them with TLC on small instances and proves what matters most
with TLAPS for every value of the constants.

## 1. Inventory

| Component | State | Operations | Interacts with |
|---|---|---|---|
| Interrupt controller `nemu/src/device/i8259_pic.c` | `intr_no` (one slot), `cpu.intr` | query, raise, acknowledge | raised by both host threads, read by `do_intr` |
| Device thread `nemu/src/device/sdl.c` | its loop, `nemu_state` | timer tick, key events, quit, screen refresh | controller, VGA |
| Execution loop `nemu/src/cpu/cpu.c` | `nemu_state`, `eip`, `n` | one instruction, breakpoints, watchpoints, `do_intr` | monitor, controller |
| Monitor `nemu/src/monitor/` | `bp_list`, lists `head` and `free_` | c, si, b, w, d, p, x, info | `exec()`, guest memory |
| Memory `nemu/src/memory/` | `hw_mem`, `L1_dcache`, TLB | read, write, translate | devices (mapped I/O), page tables of the guest |
| IDE device `nemu/src/device/dev/ide.c` | ports, file position, `byte_cnt` | command, data port | controller, kernel driver |
| VGA `nemu/src/device/dev/vga.c` | dirty lines, palette | guest write, refresh | device thread, mapped I/O |
| Keyboard `nemu/src/device/dev/keyboard.c` | `scan_code_buf` | down, up, port read | device thread, guest handler |
| Kernel interrupts `kernel/src/irq/` | handler lists | entry, dispatch, registration | drivers, user handlers (system call 0) |
| Kernel disk `kernel/src/driver/ide/` | sector cache, `has_ide_intr` | fetch, transfer, wait, handler | IDE device, file system |
| File system `kernel/src/fs/fs.c` | table of open files | open, close, lseek, read | disk driver, system calls |
| Kernel memory `kernel/src/memory/`, loader `kernel/src/elf/` | page tables, `brk` | set-up, `mm_brk`, load | MMU, disk |
| Game HAL `game/src/nemu-pal/hal/`, `device/input.c` | ticks, key states, direction | interrupt handlers, `process_keys`, `SDL_Delay` | system call 0, devices |
| PAL game, battles `game/src/nemu-pal/battle/`, `ui/uibattle.c` | meters, committed actions, menu, enemies, inventory | one frame, one update of the menu | HAL, scripts |
| Typing game `game/src/typing/` | key states, letters | interrupt handlers, main loop | system call 0, devices |
| ALU, FPU, decoder `nemu/src/cpu/` | registers, flags | instructions | everything |

The hard behaviours, each with its line and its properties, are the `hazards`
of `PROJECT.json`. In short: two host threads share the controller, `cpu.intr`
and `nemu_state` without a lock; guest handlers nest, because `raise_intr`
leaves IF alone; the disk wait is a test and a `hlt`, two instructions an
interrupt could come between; a breakpoint is restored and re-armed in different calls of `exec()`;
two caches, the data cache and the sector cache, must never be seen; the kernel
changes the page directory under its own feet, and the TLB is never flushed; the
device thread clears the dirty flags of the screen while the guest sets them; a
key's press and release meet in nested handlers; the battle's menu runs inside
the animation of other players' actions.

What makes each component correct:

- interrupt path: an interrupt reaches its handler once and belongs to the
  request that caused it; masked code runs alone; a wait ends;
- monitor: an armed entry knows the byte it replaced; no entry of the pool is
  lost;
- data cache: reads return what was last written;
- file system: a process gets the bytes of its own file, whatever it seeks to
  and whatever the cache evicts;
- MMU: a translation is the one the current page tables give;
- VGA: what the guest wrote last is shown in the end;
- HAL: a key that is up does not stay down for the game, and loops on a volatile
  counter end;
- battles: everybody gets his turns, and an action chosen long ago is still
  possible when it is performed, or replaced by one that is.

## 2. Modules

| Module | What it is | Runs | Proofs |
|---|---|---|---|
| `IrqPath` | controller, device thread, `exec`/`do_intr`, kernel handlers, disk wait, `SDL_Delay` | `irq_path`, `irq_assert`, `irq_quit` | `IrqPath_proofs` |
| `Breakpoint` | monitor commands, breakpoint pool, loop of `exec` | `breakpoint`, `breakpoint_restore` | `Breakpoint_proofs` |
| `FlatMemory` | what memory promises: an array of bytes | through `DCache` | |
| `DCache` | `cache.c`, refines `FlatMemory` | `dcache` | `DCache_proofs` |
| `Files` | what the file calls promise | through `FileSys` | |
| `FileSys` | `fs.c`, sector cache, disk driver, IDE device; refines `Files` | `file_sys` (by `MCFileSys`) | `FileSys_proofs` |
| `Layout` | page sizes, physical memory, the program's headers: constants and their assumptions | through `Paging` | |
| `UserMemory` | what a program's memory promises | through `Paging` | |
| `Paging` | page tables, `mm_malloc`, loader, `brk`, page walk and TLB; refines `UserMemory` | `paging`, `paging_tlb` (by `MCPaging`) | `Paging_proofs` |
| `Vga` | `vga.c`: stores to video memory against `update_screen` | `vga` | `Vga_proofs` |
| `Keyboard` | `keyboard.c`, dispatch of interrupts, key states, direction | `keyboard` | `Keyboard_proofs` |
| `BattleState` | a battle's variables, constants, helpers | through `Battle` | `Battle_proofs` |
| `BattleUI` | `uibattle.c`, `PAL_BattleCommitAction`: the command menu; extends `BattleState` | through `Battle` | `Battle_proofs` |
| `Battle` | `fight.c`, `battle.c`: the frame routine; extends `BattleUI` | `battle` | `Battle_proofs` |

**IrqPath.** One action per access to a variable that both host threads use,
in program order. `sdl_pc` is where `NEMU_SDL_Thread` is, `cpu_pc` where
`exec()` is: at an instruction (`exec`), inside the OUT that makes the IDE
device raise its interrupt (`ide_no`, `ide_intr`), in `hlt`, or in `do_intr`
(`check` to `raise`). `i8259_raise_intr` and `i8259_ack_intr` are two stores
each (`StoreNo`, `StoreIntr`). The guest is the kernel and the game: `pc` is where
the code outside handlers is, `handlers` the interrupt frames on its stack with
their saved IF. The kernel's `disk_do_read` is `ReadClear`, `ReadIssue`, `ReadTest`,
`ReadSleep`, `ReadFinish`; the game's `SDL_Delay` is `SDL_Delay` and, once per
round of its loop, `DelayTest`, and `left` is what the ticks of `timer_event` still
have to bring. The number 255 that an empty slot gives enters `irq_empty`, where
the kernel panics. Instructions of the handlers other than the stores to
`has_ide_intr` and the tick counter are not modelled; `cli` in a handler does not
occur in the kernel.

**Breakpoint.** The lists `head` and `free_` are sequences of entry numbers;
each command of `ui.c` is an action, and `exec(n)` is `StartExec`, one `Iterate`
per round of its loop, and `ExecReturn`. What the guest's instructions do is
free: they go anywhere, change the watched value and may stop the machine. They
do not write the program's code and the program contains no breakpoint of its
own.

**DCache.** `cache_read` and `cache_write` are one action each, as the emulator
runs them on one thread. Every random replacement of `rand()` is a choice. A
word is a function from byte index to byte, so that the shifts of crossing
accesses are by whole bytes, as in the code. `CACHE_ENABLED` is commented out in
`config.h`: the module models the build that turns it on, and its refinement
says that build behaves as the one without it.

**FileSys.** `fs_open`, `fs_close`, `fs_lseek` and `fs_read`; `fs_read` spreads
over the bytes of `ide_read`, and a miss over the steps of `disk_do_read` and
the device's command and data ports. `offset` and lengths are `uint32_t`: the
subtraction that computes the room in the file, and the addition of `fs_lseek`,
are modulo `Mod`. The port of the sector number is overwritten by the data
port's four bytes, as in `port_io.c`. A read with nothing to deliver stores a NUL in
the caller's buffer and returns 0 (`EmptyRead`), also when the length is 0; `Files`
promises the same, as the store is outside the buffer then. The loader's reads
precede the process's; `LoaderReads` is where on the disk they begin and how long
they are, the header's and each segment's. A process that names a file it has not
open fails an assertion and stops the machine: those calls are guards.
Timer handlers do not touch any of this state as no cache line is ever dirty.

**Paging.** One state machine from `init_page` to the program's `brk` calls. `pc`
is where the kernel is: each loop over the video memory, over the pages in
`mm_malloc` and over the bytes of a segment has one action per round, and every
load and store goes through `Translate`, that is through the directory `cr3`
names at that moment or through the TLB, whose random victim is a choice. An
access that crosses a page is translated twice, as in `laddr_read`. A failed
assertion stops the machine (`panic`). `KernelTouch` is any other access of the
kernel, its code and the handlers included, at `KOFFSET` or, before the switch,
at the physical address. Page tables and directories are variables of their own;
`FramesPrivate` justifies that, as no store of the program reaches their frames.
`Layout` assumes the pages of the video memory to follow one another, as they do.
`mm_malloc` has no source in the repository and is modelled from its disassembly
in `kernel/kernel.S`, as external. In `UserMemory` allocation cannot be seen:
a program's memory is its image, zero elsewhere, and keeps what is written.
Memory-mapped video memory behaves as plain memory here.

**Vga.** The main thread stores to a cell, sets `line_dirty` and sets
`vmem_dirty`, three steps; the device thread tests each line's flag, copies each
cell, clears `vmem_dirty` and clears the flags one by one, as `memset` does.
Stores past the last line shown are accepted and mark nothing. `raced` is history:
the cells whose flag was set behind the update. The palette and `close_vga` are
left out, and an aligned word is one cell, as the programs copy whole lines.

**Keyboard.** A key event of the device thread overwrites `scan_code_buf` and
raises the keyboard's interrupt. `IrqPath` has the controller's stores one by one;
here only what they can do to that interrupt is left, and more than they can: it
is delivered at any later time (`TakeKeyboard`), or displaced by another device's
number or acknowledged unseen, whenever (`Displaced`). So every run of the code,
with its races in the controller, is a run of the module, and its properties are
safety properties. `frames` are the handlers of the keyboard on the guest's stack,
each at its read of the port, at its test of `key_state` or at its store of a press;
they nest, as IF stays set. The handlers of the timer and the disk touch nothing the
module has. The main program registers its handler and then polls for ever:
`process_keys` is `Cli`, `FindKey` and `CallBack`. Whether a battle is on is a
choice, as it only decides whether an older direction is remembered. `lost` is
history: the keys whose release was overwritten in the device, or crossed by the
handler of their press.

**BattleState, BattleUI, Battle.** The battles of the PAL game
(`game/src/nemu-pal`), built with `PAL_CLASSIC` undefined, so that every
fighter has a time meter. `frame.pc` is where `PAL_BattleStartFrame` is:

- `Top`; `Unhide`, the fade when the party stops hiding, before the enemies' scripts
  of a new turn run (`TurnsStart`);
- the enemies one after the other: `Enemy`, `Pick`, `EnemyWindup`, `EnemyRecover`
  (after the blow), `EnemyEnd` (it did nothing), `EnemyPoison`, `EnemyFade`;
- the menu (`UI`), the meters and the choice of who acts (`Players`);
- one player's action: `Perform` (validation), `Windup` (before the effect),
  `Recover` (after it), `Fade` (he is in `kFighterWait` again, and the fallen fade
  out), `Poisoned` (the delay of his poison), and `PlayerEnds`, where
  `PAL_BattleStartFrame` sets his meter and `sTurnOrder` back.

It is one thread, but `PAL_BattleDelay` and `PAL_BattleFadeScene` call
`PAL_BattleUIUpdate` while something is shown: `DelayUI`, any number of times at
`Unhide`, `EnemyWindup`, `EnemyRecover`, `EnemyPoison`, `EnemyFade`, `Windup`,
`Recover`, `Fade` and `Poisoned`. After a player's action the menu may move at these
points even if nothing fades and nobody is poisoned, which allows more than the code does.
`BattleUI` has one action for each way an update can go; commands commit through
`PAL_BattleCommitAction`. `queue` is the order `sTurnOrder` gives; `used` is history
and counts the effects of items. Numbers are scaled: 100 of a meter is `Full`, and
what scripts, damage, poison and costs do is a choice. Of an action that has been
performed only whether it was a cooperative magic is kept, as nothing else of it is
read again. A magic that steals has the player in `kFighterWait` before it is over
(`Steal`); what it wins is another item than the one counted.

A battle that ends is followed by another one, as `PAL_StartBattle` leaves the party.
Its team has any size up to `NSlots` and may have empty slots, but not all of them
(`Teams`). `PAL_StartBattle` clears the slots of the team and the one behind it,
where its loop stops; later slots keep the enemies of an earlier battle
(`StartEnemies`). An attack may carry a player's index as its target: a confused
player's target is whatever the menu selected last. It is an index of `rgEnemy`, but
not always of the team. One past the team it finds the cleared slot and is given
another target; two past it, that is the third player against a single enemy, it may
find a stale enemy, and the code attacks it. `TargetStands` states this exception
(`Outside`) instead of assuming it away. It needs three players: in the run, with
two, it never applies and the property is the strict one; the theorem covers both.

## 3. Runs

| Run | Instance | Result |
|---|---|---|
| `irq_path` | two nested handlers, delays of up to 1 tick | holds: about 33 000 states |
| `irq_assert`, `irq_quit` | the same | violated, see findings |
| `breakpoint` | pool of 2, 2 addresses, `si` up to 2, two watched values | holds: about 600 000 states |
| `breakpoint_restore` | the same, commands b and c only | violated, see findings |
| `dcache` | one group of 2 ways, lines of 2 bytes, 3 lines of memory, bytes 0 and 1, accesses of 1 and 2 bytes | holds |
| `file_sys` | 2 files of 3 bytes in a shared sector, sectors of 2 bytes, 2 slots, 4 sectors, 32-bit arithmetic as modulo 10 | holds: about 106 000 states |
| `paging` | pages of 2 bytes, tables of 2 entries, 8 frames, two segments that share a page, accesses of 1 and 2 bytes, as configured without TLB | holds: about 7 500 states |
| `paging_tlb` | the same with 10 frames, one segment and a TLB of 2 entries | holds: about 22 000 states |
| `vga` | 2 lines of 2 cells, 2 colors | holds: about 326 000 states |
| `keyboard` | 2 keys, both directions, two nested handlers | holds: about 219 000 states |
| `battle` | 2 players, one with a weapon that hits everybody and one who may be confused, teams of every kind in 2 slots, one item, one hit point each | holds: about 2.9 million states, 2 to 3 minutes |

What the last three show of the hard cases:

- `vga`: a cell shows an old color after its store only in the race the code
  has: the flag is set behind the update that then clears it. So one more store
  to the line always repairs the screen, and no order of the other steps loses
  one.
- `keyboard`: a key stays down for the game in exactly two ways, the overwritten
  scan code and the crossed handlers, whatever becomes of the interrupts; the mask
  in `process_keys` closes every other one. The remembered direction is never that of a key the game knows to
  be up.
- `battle`: a player who is killed, confused or revived while his
  menu is open, or while his action waits, is never asked twice and never left in
  `kFighterCom` with the menu closed; enemies that fell before an action are
  replaced as targets and the assertion on the new target holds; two players may
  choose the last item and it takes effect once; an enemy that acts finds a living
  player to attack; yielding the turn in the menu never costs the turn. After his
  action a player keeps his number in `sTurnOrder` while the fallen fade out and his
  poison is shown. `QueueDue` holds then because his meter is empty: he is not asked
  for a command, which would be given the number and lose it at the end of the frame.

Bounds and why they are enough:

- `MaxDepth = 2`: with one handler on the stack a second interrupt can arrive
  in every step of the first; deeper nesting repeats it. The safety theorems
  hold for every depth. `DelayTicks = 1`: a delay awaits one tick or two, so that a
  tick is lost with another to come and with none; a longer delay repeats this.
- `breakpoint`: the pool is empty, has one entry and is exhausted; two entries
  share an address or do not; the list has a head and a tail to delete. Larger
  pools are covered by the theorems.
- `dcache`: three blocks compete for two ways, so that there are hits, invalid
  ways and evictions, and every two-byte access at an odd address crosses a
  line. Several groups are covered by the theorem.
- `file_sys`: sectors 0/2 and 1/3 share a slot, a read of a file crosses a
  sector and evicts, the files meet in a sector; offsets reach past the end of
  a file and wrap, so that reads are full, short and empty. `Lens` and `Offsets` are the values around these edges: 0, 1,
  a whole file, and -1 modulo `Mod`.
- `paging`: the image ends inside a page that the heap continues, its second
  segment starts in the middle of a page, accesses cross from image to image and
  from heap to heap page, and the larger of the two breaks uses up the frames.
  `paging_tlb`: two entries for the pages of image, heap, stack, video memory and
  kernel, so that every entry is evicted and those of the kernel's directory
  live on after the switch.
- `vga`: two lines, so that an update is before, at and behind a store's line,
  and two cells, so that it is inside the line; a store past the screen.
- `keyboard`: two keys are a release that overwrites another key's, a press under
  a nested handler, and two directions of which one is remembered.
- `battle`: a team has one enemy or two, and one of two slots may be empty, so that
  there are fewer enemies than players, as many, and holes; two are a first and a last one, an action against a fallen
  enemy with another still there or with none, and a cooperative magic. With
  one hit point each, every blow may kill; a meter fills within two frames,
  so that players and enemies are ready at once. `MaxMeter`
  bounds the meter that the menu key keeps raising, which in the code has no bound.
  `HideTime = 2` is a hiding the enemies' meters fill under, and its end. `Prone`,
  the players an ailment may be inflicted on, is a bound: the code knows no such
  players. Two confused players, sleep, and enemies that move twice (`DualEnemies`)
  are left to the theorems.

`CHECK_DEADLOCK FALSE` appears in the runs of `Breakpoint`, as the user may quit
and `assert` ends the emulator, and in `paging`, where the frames may be used up.

The TLB is right only by the layout of memory. `PagingAssumption` demands that a
program uses no page whose number is one of the frames the kernel touched at their
physical address. The game, at 8 MB and with frames from 16 MB on, keeps to it
as long as its heap stays below 16 MB. `TLB_ENABLED` is commented out in
`config.h`; the default build needs no such assumption, and `paging` lets the
program use the pages the kernel used.

### Findings

- `irq_assert`. `cpu.c:122` asserts that the queried number is an interrupt.
  The controller's two stores interleave with the device thread's: the line is
  set and the slot is empty. The assertion compares a `uint8_t` with -1 and
  never fails; the kernel panics in `irq_empty` instead.
- `irq_quit`. `sdl.c:25` says the program terminates on SDL_QUIT. When the guest
  is in `hlt`, it does not: `HLT_Thread` waits for an interrupt that the stopped
  timer no longer raises. Fairness as below, so the system does not merely stop.
- `breakpoint_restore`. `cpu.c:83` restores "the original opcode".
  `resume_breakpoints` re-reads the byte of every entry from memory, and for
  every entry but the one stopped at this is `INT3_CODE`.

### Fairness

Only `IrqPath` states liveness: `WF(CpuStep)` and `WF(SdlStep)`: the host
schedules both threads. `SF(SdlDelay)`: the loop over `SDL_PollEvent` ends again
and again, as the queue it drains is finite and fills at the speed of a user.
Nothing more: a `hlt` is left only when `cpu.intr` is seen set, and no property
assumes that a particular event or tick arrives. `ReadEndsUnlessLost` and
`DelayEnds` have as a premise that interrupted code is reached again and again: an
interrupt source faster than its handlers would starve any guest.

`DelayEnds` is about every loss of a tick the controller has: the number is
overwritten by the keyboard's or the disk's, the line is cleared behind a raise, the
slot is emptied behind it. It holds because `do_intr` only runs with a number in
hand: what swallows one tick delivers another, or the number 255, which stops the
machine. A second premise is that key events stop, as a key raised
behind every tick overwrites each of them; the user who quits
stops the timer, and the machine.

## 4. Proofs

Each proof module has an inductive invariant, three lemmas (`Init` implies it,
each step preserves it, it implies the property) and the theorem.

- `IrqPath_proofs`: `TypeCorrect`; `NoStaleInterrupt`, `InterruptOnce`,
  `MaskedCodeIsAtomic` and `NoLostWakeup` for every `MaxDepth`. The properties are not inductive
  as they stand: the invariant adds which instruction each program counter
  allows (`do_intr` past its test only when the code was not masked, every
  frame was pushed with IF set) and counts the interrupt of the
  outstanding read over the slot, the queried number, the frames and the flag.
  `NoLostWakeup` adds that the disk's number is in the slot only from the
  device's store to the query after the same instruction: so the sleep in
  `wait_ide_intr` is reached only when the number was overwritten, and then
  nothing ends the wait.
- `Breakpoint_proofs`: `PoolNeverLeaks`, `TypeCorrect` and `OneBreakpointWorks`
  for every pool, program and watched value. The invariant of the first is that
  both sequences are without repetitions and partition the entries by `in_use`;
  types rest on it, as the loops index the list and the entries by each other.
  `OneBreakpointWorks` states `SoloBreakpointWorks`, a formula with a premise
  about all commands: the third invariant (`SoloInv`) is kept by every step that
  keeps to the premise. It says when the one breakpoint is disarmed, from the
  stop to the first instruction of the next `c` and at no other time, and that
  its entry then holds the byte of the program.
- `DCache_proofs`: `TypeCorrect`, `NoDuplicateLine`, `CacheCoherence` and
  `CacheIsTransparent` (the refinement), for every word size, line
  size, number of groups and ways. The lemmas show that a block number is
  determined by its group and tag, that `Filled` and `LineWritten`
  preserve coherence, and that the two halves of a crossing access put together
  are the bytes of the flat access.
- `FileSys_proofs`: `TypeCorrect`, `SectorCacheCoherent`, `ReadsStayInFile` and
  `FileSysImplementsFiles` (the refinement), for every file table that fits
  on the disk, every sector size and cache size. The invariant adds what the
  line under transfer holds so far, and that `buf` is a prefix of the
  file's bytes.
- `Vga_proofs`: `TypeCorrect` and `ShownUnlessRaced` for every screen. The
  invariant is that a stale cell that lost no race is the one being stored, or
  has its line flagged in front of the update, with `vmem_dirty` set or about
  to be: an update clears the flags only after it has drawn what was flagged.
- `Keyboard_proofs`: `TypeCorrect`, `StuckOnlyWhenLost` and
  `WalksTowardsHeldKeys` for every table of keys, set of directions and nesting
  depth. The invariant adds that `process_keys` runs without a handler on the
  stack and finds a key in the state it left it in; that a handler about to
  store a press is about a key the party does not walk by; and that every key
  that is up is either known to the game to be up, with no press pending on
  top, or its release is in the buffer, in a handler or astray.

- `Paging_proofs`: `TypeCorrect`, `PrivateFrames`, `StopsWhenFull`,
  `TlbStaysRight` and `ProgramsOwnMemory` (the refinement of `UserMemory`), for
  every layout of the address space, every list of segments, every program and
  every size of the TLB. The invariant `IInv` says which directory and which
  caller of `mm_malloc` each `pc` allows; that the kernel's half is the same in
  both directories; that the pool's tables are used once each, in order; that
  the frames of the program's pages are pairwise different and lie between
  `KMemPages` and `nr_frame`; that all a program was given is mapped; that the
  frames of a segment follow one another while it is copied, which is why the
  `memcpy` over physical addresses is right; that the video memory holds the
  test data; and for each TLB entry where it comes from: the kernel's half, the
  low memory the kernel touched, the video memory or the program's directory.
  `PagingAssumption` is needed only for the entries of low memory.
  For the refinement `MemoryInv` adds what is in the memory: frames not handed
  out are zero, those handed out hold the image as far as it is copied, and the
  video memory is zero as far as it is cleared. Two bytes of the program are
  never the same byte of the memory (`BytesDiffer`, from `FramesPrivate`), so a
  store changes what it is meant for.
- `Battle_proofs`: `TypeCorrect`, `OneCommandAtATime`, `CoopHoldsBack`,
  `QueueIsDue`, `DrawEnds`, `ActionsMeetTargets`, `EffectsCostPieces` and, an
  action property, `FullMetersStay`, for every party, every sequence of teams,
  inventory and speed. The four properties of commands are inductive only
  together (`Command`, with the battle that is cleared keeping its menu shut).
  `IInv` adds that the menu that moves during an action is another player's, and
  that the player who acts is in `kFighterAct` or back with an empty meter (`AtActs`:
  so nothing the menu does reaches the number he still holds); that somebody still
  lives as long as nothing moved in the frame (`MovedInv`), which is why the enemy's
  loop over random players ends; that enemies without health, and a cleared battle,
  are noticed within the same action (`StandingInv`); that the slot behind the team
  is empty (`CleanBehind`), which is why the index of the player next to the team is
  given another target, and that only an attack carries a player's index (`Aims`); and
  that an action about to use a piece was validated with one in the inventory
  (`ItemReady`). `BattleAssumption` has the sizes of `global.h`: up to three players,
  up to five slots, at least as many slots as players.

The proofs assume only the named ASSUMEs of the modules, which TLC evaluates in
every run.

Every invariant, every action property and every refinement the passing runs
check is also the statement of a theorem. Model-checked only: `ReadEndsUnlessLost`
and `DelayEnds`, as liveness under fairness is outside the prover; and the three
violated properties, which are false.

## 5. Not modelled, and why

- `write_byte`, `fs_write` to a file, `cache_writeback` of a dirty line:
  no caller reaches them (`fs_write` asserts `fd <= 2`).
- DMA: `USE_DMA_READ` is off and NEMU has no bus master.
- `segment.c`: `load_sreg` asserts flat segments, so the linear address is the
  offset.
- Of the game's battles: auto battle, magic that heals, what is stolen, teams with
  nobody in them, scripts of dying players and their friends, silence, slow and haste, the speed modifier, damage
  formulas, messages, the slots of the inventory, the classic build. Where a
  script can act on what is modelled it is a choice of its effects
  (`ScriptEffect`, `Helped`).
- The rest of the game: scenes, the interpreter of scripts, drawing and sound. They
  run in sequence between two polls, on data files the repository does not hold.
- The typing game. It has its own copy of the pattern `Keyboard` models.
- The palette, `close_vga`, the registers of the CRT controller.
- The ALU, the FPU, decoding, the monitor's expressions: functions without
  state or order. The repository's own tests compare the ALU and the FPU with
  the host; for division only with 32 bits (`alu_div` multiplies narrower operands).
- Serial output, the test programs.
- Deleting a breakpoint leaves `INT3_CODE` in memory, and a watchpoint that
  changes at a breakpoint hides the latter: the model does both, and
  `SoloBreakpointWorks` is stated for one breakpoint run into with `c`.
- `p`, `x`, `info` and `help` of the monitor, which change no state.

## 6. Plan

What is left is breadth. In this order:

1. The monitor's watchpoints: what a hit does to a stop at a breakpoint in the
   same instruction, stated as a property (`cpu.c:99`).
2. Deleting an armed breakpoint (`breakpoint.c:104`): which programs still stop
   at the byte that stays behind.
3. The status key of the battle's menu, which skips the rest of an update
   (`uibattle.c:913`).

The modules hold no RECURSIVE operator and their constants have named
assumptions, so that what is added can be proved about as it stands.
