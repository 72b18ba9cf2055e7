# Verification of tranbyos

tranbyos is a small 32-bit x86 kernel: one main line (`kmain`), a handful of
interrupt handlers, and globals they share without locks. It has no tests. This
directory holds TLA+ models of its parts, TLC runs that check them on small
instances, and TLAPS proofs of the properties that matter most.

Paths below are relative to `src/src/` of the repository.

## 1. Inventory

| part | state | operations | users |
|---|---|---|---|
| Interrupt delivery (`isrs.c`, `asm/start.s`) | IDT, two 8259s, `irq_routines`, `irq_counts`, `irq_spurious`, EFLAGS.IF | `idt_install`, `irq_remap`, stub, `irq_handler`, `irq_ack`, `irq_install_handler` | every driver |
| Exceptions (`isrs.c`) | `isr_routines`, `isr_counts` | `fault_handler`, `k_panic` | processor |
| Keyboard (`kb.c`, `scrn.c`, `main.c`) | `kb_buf`, `kb_buf_first`, `kb_buf_last` | `keyboard_handler`, `keyboard_read_next`, `kgetch`, `wait_any_key` | kmain |
| PS/2 set-up (`kb.c`) | controller configuration, bytes in flight, `mouse_mode` | `ps2_install`, `ps2_wait_*`, `mouse_read/write` | kmain |
| Mouse (`kb.c`, `main.c`) | `mouse_cycle`, `mouse_byte`, position, buttons, packet ring | `mouse_handler`, `add_packet`, `read_next_packet`, main loop | kmain |
| Timer (`timer.c`) | `_timer_ticks`, `_next_preempt` | `timer_handler`, `delay_*` | kmain |
| Real-time clock (`timer.c`) | CMOS registers | `read_rtc` | kmain |
| Heap (`mm.c`) | `heap_ptr`, `free_ptr`, `blocks_used` | `init_mm`, `kmalloc_b`, `kfree_b` | kmain |
| Paging (`mm.c`) | page directory and table | `init_page_directory`, `idpaging`, `get_physaddr`, `map_page`, `page_fault_handler` | kmain |
| Tasks (`task.c`, `asm/kernel.s`) | `processes`, `runningTask`, saved registers | `initTasking`, `createTask`, `removeTask`, `k_preempt`, `switchTask` | kmain and the tasks |
| Console (`scrn.c`) | text buffer, `csr_x`, `csr_y`, `attrib` | `kputch`, `kscroll`, `move_csr`, `cls` | kmain **and** `keyboard_handler` |
| Formatting, serial (`scrn.c`) | none / UART | `writeInt`, `writeHex`, `kwritef`, `serial_write` | everyone |
| ATA (`hd.c`, `main.c`) | drive registers | `ata_wait_*`, `ata_pio_*`, `test_harddisk` | kmain (main.c:756) |
| Descriptor tables (`gdt.c`, `isrs.c`) | GDT, TSS, IDT | `gdt_install`, `write_tss`, `isrs_install` | kmain, once |
| Graphics (`vga.c`) | the card's registers, palette, frame buffer | `init_graph_vga`, `write_regs`, `write_font`, drawing | kmain |
| Memory functions (`main.c`) | none | `kmemcpy`, `kmemmove`, `kmemset`, searches | everyone |

How they interact: devices raise 8259 lines; the processor takes one between two
instructions whenever IF is set; the stub calls `irq_handler`, which calls the
installed handler; handlers and main line communicate through plain globals
(`_timer_ticks`, the keyboard ring, the mouse position, the text cursor). The
main line guards nothing with `cli` except two port sequences of the disk and
CMOS code. What makes the code hard is therefore the interleaving of handlers
with single instructions of the main line, the protocols with the chips
(8259 end-of-interrupt, PS/2 command and answer bytes, CMOS update cycle), and
indices and counters that wrap.

Properties wanted, per part:

- *Interrupts*: no nesting; EOIs retire what is being handled and nothing else;
  counters exact; no delivery before handlers are in place; requests served.
- *Keyboard*: first-in first-out without loss up to the capacity; `wait_any_key`
  accepts only new keys, and accepts one.
- *Heap*: blocks disjoint, inside, no gaps; the block map tells the truth.
- *PS/2*: the set-up terminates, answers belong to their commands, the mouse mode
  the kernel believes is the one the mouse is in.
- *Mouse*: packets stay framed; the position stays on the screen at each use.
- *Clock*: delays last what they say; `read_rtc` returns one consistent instant.
- *Tasks*: a task resumes with the registers it had; only live tasks run.
- *Console*: the cursor stays in the text buffer with two writers, and the
  card's cursor follows it.
- *ATA*: data is transferred only when the drive asks for it.
- *Boot*: `kmain` gets from one part to the next.
- *Functions*: each computes its reference definition: digits, moved bytes, the
  mode a card's registers make, what the processor reads in a table.

`PROJECT.json` lists every hazard with its line and the properties that cover it.

## 2. Modules

| module | role |
|---|---|
| `KeyQueue` | abstract: a FIFO of make codes that promises nothing past its capacity |
| `Keyboard` | the ring of `kb.c` and its readers; implements `KeyQueue` |
| `Keyboard_proofs` | proofs about `Keyboard` |
| `Interrupts` | controllers, stub, `irq_handler`, boot order |
| `Interrupts_proofs` | proofs about `Interrupts` |
| `Heap`, `Heap_proofs` | `kmalloc_b` and its block map, and proofs |
| `Mouse`, `Mouse_proofs` | `mouse_handler`: framing and decoding of packets, and proofs |
| `Ps2`, `Ps2_proofs` | `ps2_install` against the controller and the two devices, and proofs |
| `Console`, `Console_proofs` | `kputch` of `kmain` and of the handlers at the same cursor, and proofs |
| `Clock` | `timer_handler` and the delays |
| `Disk` | `test_harddisk` against two ATA drives |
| `Rtc` | `read_rtc` against the clock chip |
| `RoundRobin` | abstract: the processor goes round the tasks |
| `Tasks` | `initTasking`, `createTask`, `k_preempt`, `switchTask` |
| `Kmain`, `Kmain_proofs` | composes `Clock`, `Disk`, `Rtc` and `Tasks` in `kmain`'s order; implements `RoundRobin`; proofs about all four |
| `Format`, `Memory`, `Graphics`, `Tables` | the functions that wait for nothing, as operators |
| `Library`, `Library_proofs` | calls each of them once and states what it must return, and proofs |
| `MC*` | constants for TLC |

Operators named "Mutant" in a module are plausible bugs of the definition that
follows them. No specification uses them; they exist to confirm that each
property can fail.

### Keyboard

`kb_buf`, `kb_buf_first` and `kb_buf_last` are the variables of `kb.c`; `Index` is
u8 arithmetic. `keyboard_handler` is one step: `Interrupts` proves that nothing
nests inside it. The reader is split at every access to shared memory, in the
order the compiler emits at the makefile's `-O0`: load `first`, compare with
`last`, load `first` again, store `first + 1`, read the slot. `caller` says which
loop is reading: the SPACE loop (`poll`), the draining loop of `wait_any_key`
(`drain`) or `kgetch` (`getch`). On `F2` the handler calls `jump_usermode` and never
returns: with `ring3` the reader stays where it was, and no key is handled any more,
as interrupts stay off. The code of F2 has been stored by then.

The array has 255 entries, the indices 256 values. The byte behind the array is a
choice of the build (`layout`): at `-O0` it is `kb_buf_first` itself ("first"), an
optimised build leaves padding ("pad"). The model stores and reads it accordingly.
Keys are make codes, which as numbers are valid indices.

`unread`, `inflight`, `stale` and `overrun` are history variables: the codes stored
and not taken, the code a reader has claimed, the codes older than the last call
of `wait_any_key`, and the reason why codes were lost. Safety properties are
stated up to the first loss; `KeyEndsWait` includes it as an outcome, and F2 as another.

### Interrupts

`irr`, `isr` and `imr` are the combined registers of both 8259s, with fixed
priority, the cascade on line 2 and non-specific EOI; they are hardware and are
marked external in the map. A request that disappears between the signal and the
acknowledge cycle gives a spurious IRQ 7 or 15 (`noise`). `stack` holds the
interrupt frames with the place each has reached in `irqN`, `irq_handler`,
`irq_ack` and the end of the stub. `shadow` is the one-instruction window after
`sti`. `boot` follows the calls of `kmain` up to `sti`. `MainCli`/`MainSti` are the
`cli`/`sti` windows of the disk and CMOS code. Pressing F2 runs `jump_usermode`
inside the handler; the flags it passes to user mode have IF clear, so no interrupt
is taken any more (`ring3`). The liveness properties name this as an outcome.

### Heap

Addresses are offsets from `sys_heap_bottom`. `blocks_used` is kept byte by byte
because `kmemset` writes bytes of an array of u32. `blocks` and `refused` are
history. `kfree_b` has no caller. The heap section has 2048 bytes and `heap_ptr`
starts at offset 1 while the bound is 2048 bytes from there: the last byte that can
be handed out is the one at `sys_heap_top`. `InHeap` is therefore stated relative to
`heap_ptr`.

### Mouse

The mouse's side is external: `Report` starts a packet for a movement, `Encode` is
its bytes, `wire` their number. Each byte is one IRQ 12 and one call of
`mouse_handler`, which is atomic because handlers do not nest (`OneFrame`).
`mouse_byte` is the prefix of the array that is in use and `mouse_cycle` its
length; the switch is `Skip` (no first byte), `Collect` (more to come) or `Finish`
(`finish_packet`). Positions are clamped to the pad, packets go to a ring whose
u8 index wraps.

`latch` models the end of `ps2_install`: it polls the last acknowledgements with
interrupts off, so IRQ 1 and IRQ 12 can be pending when `kmain` executes `sti`. Then
`mouse_handler` runs for a byte that is gone and reads the port's last value 0xFA,
which looks like a first byte (`StaleByte`), or `keyboard_handler` reads the port
and may take a byte of the mouse's (`StolenByte`). Either puts the handler out of
frame at boot. `framed` and `intact` record whether a packet began in frame and
whether the handler sees all of it.

`Modes` holds the packet sizes of the two sides. The pair (4, 0) is a wheel mouse
whose wheel mode the kernel has switched on without noticing: `ps2_install` reads
the identity one byte late (kb.c:586), so that it finds 0xFA instead of 3. In that
case the fourth byte arrives where the handler waits for a first one, and only a
wheel byte with bit 3 set, a turn up, moves the frame; `Agreed` excludes exactly
that. A wheel turned up is a byte above 127, and as `mouse_byte` is unsigned the
test `< 0` (kb.c:309) never holds: it is reported as `MOUSE_SCROLL_DOWN`.

### Ps2

`ps2_install` runs with interrupts off, so the module has one sequential kernel and
three asynchronous partners. `Script` is the routine: 23 parts, one definition per
block of the code, each a sequence of port operations. `part` and `line` are the place
in it; `dual` marks what is skipped without a second port (the `if`s and the second
turn of the loops). `Kernel` executes one operation per step. `ps2_identify`'s bytes,
which nothing uses, are read into `status` like the others. `ps2_wait_read` and the `inb` after it are
one step, `Waited`: it ends with a byte in the output buffer or, when nothing has
come, by its timeout; the code ignores which, and the data port repeats its
last byte (`mouse_read` returns 0). `ps2_wait_write` is left out: the controller
takes each byte at once.

External are the controller (commands, configuration byte, one-byte output
buffer, port clocks), the keyboard and the mouse (answers in order, streaming,
the sample-rate sequences that switch a wheel mouse). `Slow` names devices whose
answers may come after the kernel's patience is over, `Drops` says whether a new
command makes a device forget what it has not sent, and keys may be pressed
whenever the keyboard scans. The mouse does not stream at boot. The controller's
own answers are never late, and one with a second port starts that port's clock when told to:
the second test of that bit (kb.c:422, "no_clock_2") always succeeds, and its failing branch is not
exercised.

`Ps2` decides what `Mouse` takes as `Modes`: `ModeSafe` excludes the pair (3, 1) as long
as no key is pressed (the codes of the keys 2 and 3 are the identities 3 and 4),
and `WheelRecognised` fails, which is the pair (4, 0).

### Console

`csr_x` and `csr_y` are the globals of `scrn.c`. `kmain`'s `kputch` is split at every
load and store of them, in the order of the `-O0` build; `reg` is the value between
a load and its store, `lines` is `temp` of `kscroll`. A handler's `kputch` is one step
between any two of these: handlers do not nest (`OneFrame`). The characters are
classes, one for each branch of `kputch`. Both writers print all of them: the trace
of `kmain` has tabs (main.c:730-737), it prints the bytes of the drive's serial number and
names as they are (main.c:414-433), and the keyboard's handler echoes any key.
`Wide` is 2^16, as `csr_x` is a u16. `crtc` is the card's pair of
cursor bytes, written through the index register `index`. `reach` is the first cell
above everything written since the last `kputch` of `kmain` began, and `disturbed` says that a
handler printed during the last `move_csr`: until the next `kputch` the card's cursor may
then be made of bytes of two positions. What stands on the screen is left out, and so
is `kputch`'s other counter, `cursor`, which only the padding of `kwritef` reads.

The backspace tests `csr_x` and decrements it in a second access. `raced` says that a handler
left the cursor at the margin in between. Then `csr_x` becomes 65535; `kmain` itself
takes the branch of the margin next and is back on the screen, but a handler that prints before that
writes its first character in that column, 128 KB behind the screen. `InTextMemory` and
`CursorBounded` state this as their one exception, to the step.

### Kmain: Clock, Disk, Rtc, Tasks

`phase` is `kmain`'s place: the disk test, `read_rtc`, the SPACE loop's delay, the tasks.
Each part has its own module and variables, and when it returns they go back to
their initial values, so that the parts' states do not multiply.

*Clock.* `ticks` is `_timer_ticks`, `eticks` the local of the delays; `Wrap` is 2^32, and
both `ms * hz` and `ticks + n` are taken modulo `Wrap` as in the code. `asked` and
`elapsed` are the history of the delay, `crossing` whether a wrap lies in its way.
The delay begins at any count.

*Disk.* `test_harddisk` and the routines it calls are a script of port operations, like
`ps2_install` in `Ps2`; `dpc` is the place in it, `timer` the counter of the waiting loops.
`ata_wait_*` go on while their bit is *set*, and give up after `Patience` rounds: both
as in the code, where names and comments suggest the opposite for DRQ and RDY. The
0xF0 written before IDENTIFY selects the slave. External are the drives: `present`, the
status bits (`state`), the command and the words left to transfer, and what an
absent drive's status reads (`floating`).

*Rtc.* The chip counts, in binary or BCD and in 12 or 24 hours, and may begin
an update between any two of `kmain`'s reads; while it updates, a register holds
its new value or 0xFF. `reading` and `last` are the two readings the loop compares.
`Successor` is the chip's calendar: months of their length, a leap year every fourth
year, and a century that ends where `read_rtc` makes it end, after 2115. The
assumption on the chip is its rate: between two updates `kmain` makes at least
one whole pass (`passes`), which takes microseconds of a second.

*Tasks.* `switchTask` is executed instruction by instruction on a word-addressed
memory that holds the register blocks and the stacks; a handler's frame spoils
`frame` words below the stack pointer after each instruction, or none. `initTasking`
makes the main line the first task; then each `createTask` it calls is a step that
fills a task's registers and links it behind the last one. `k_preempt` picks `next` and lays
its frame on the stack. `readyByte` is the byte `k_preempt` reads: `nextTask` is
NULL when it tests `nextTask->isActive`, so the test reads address 56, for every
process alike, and whether tasks ever switch depends on a byte of the real-mode
interrupt table. `expected` is the history: the registers each task must find.
The stacks of the code start at 0x1000 and overlay low memory that nothing else
uses by then; in the model they are parts of `mem` of their own.

The SPACE loop, `wait_any_key` and `kgetch` lie between these parts; they are `Keyboard`'s.

### Library: Format, Memory, Graphics, Tables

Functions that wait for nothing are operators on their arguments, named as in
the code; recursion and loops are recursive functions or folds. `Library` has the
arguments as its initial states and one step, the call; `Faults` bounds how often
a page fault may have been handled before.

*Format*: a conversion gives the sequence of characters it passes to the writer. A buffer
the code fills from its end is a sequence that grows at its front, and a real a fraction
of at most 50 binary places (`ExactPlaces`), with its sign apart, as there is a -0.0. For these
the code's steps on doubles are exact: a fraction f / 2^50 has 5f < 2^53, so that ten times
it is a double, and so is what is left of that, and the comparison with the double 0.0000001 comes
out like one with the number, as the nearest multiple of 2^-50 is farther from it. The mantissa and
the exponent, which only `writeRealDebug` reads, are chosen apart from the value.
`kwritef` passes its items to the writer one by one and keeps its `cursor`, which counts
the characters of the format twice, so that `trace`'s messages start four columns left of the
column 30 its padding names. `div64_slow` is its two loops, of which the first sets up the second. It stops doubling the
divisor one step early when half of the dividend, rounded down, is the divisor
times a power of two, and is wrong exactly then: 20 is printed as 15 by
`writeUInt64` and in the whole part of a real.

*Memory*: `mem` maps addresses to bytes. `kmemmove` is the list of its moves: bytes up
to alignment, words, the rest, upwards or downwards. `kmemchr` searches words by the
carry trick: `HasZero` follows the borrow of the subtraction from byte to byte, and
the exclusive or of two bytes is the constant `ByteXor`, of which only its range and
when it is 0 matter. `MCLibrary` gives it its value.

*Graphics*: the card's registers are functions, and three of its rules matter:
CRTC registers 0 to 7 may be locked by bit 7 of register 17, the attribute
controller takes index and value in turns, and the palette has six bits. The
tables of `init_graph_vga` are the code's. `Clamp` has a value for each evaluation of
`CLAMP`'s argument, as `mouse_handler` may run between them, and `VideoMemory` is the card's
window of 128 KB.

*Tables*: descriptors as their bytes, the IDT, the stack frames the stubs build, the
page tables, and beside each what the processor makes of it (`Base`, `Limit`,
`Translated`, ...). Address width and page size are constants, and `B8` to `B32` the
values of so many bits.


## 3. Runs

| run | result | shows | bounds |
|---|---|---|---|
| `keyboard` | pass | type, FIFO order, intact fetch, drain before prompt, a key ends the wait, refinement of `KeyQueue` | ring of 3 entries (4 index values), 3 codes, one of them F2, both layouts |
| `keyboard_255` | violation of `LostOnlyWhenFull` | the 256th key press loses codes with room to spare | the same ring, layout "first" |
| `interrupts` | pass | no nesting, exact end-of-interrupts and counters, boot order, every request served | lines 0, 1, 7, 12 (timer, keyboard, a line that can be spurious, one on the second chip), noise on 7 and 12, three masks, counters modulo 2 |
| `spurious_eoi` | violation of `SpuriousNotAcked` | a spurious IRQ 7 gets an EOI | the same |
| `heap` | pass | blocks disjoint, inside, without gaps; no free byte marked | 8 bytes, sizes 0, 1, 2, 5 and 9, a byte of 5 values, u32 of 64 values |
| `heap_marks` | violation of `UsedBytesMarked` | bytes handed out stay unmarked | the same |
| `mouse` | pass | type, framing, resynchronisation, whole packets | six movements, pad 6 by 4, queue of 2, modes (3,0), (4,1), (4,0) |
| `ps2` | pass | devices and interrupts on, mode safe, nothing left, the set-up ends | mice of identity 0, 3, 4; one and two ports; both devices slow or prompt, forgetting or not; one key press |
| `ps2_wheel` | violation of `WheelRecognised` | a wheel mouse is switched and not recognised | prompt devices, no key |
| `console` | pass | where `kputch` writes, where the cursor may be, the card's cursor | screen of 4 by 2, tabs of 2, columns modulo 16, address bytes of 4 values; `kmain` and handlers print anything |
| `kmain` | pass | delays last, `read_rtc` returns one instant, the sector comes back, tasks resume, `kmain` proceeds, refinement of `RoundRobin` | a count of 16 values from any start, delays 2, 7, 9 of each unit at two ticks a second of 4 ms, at most one tick missed by a test; sectors of 2 words, waits of 3 rounds; two start times, two updates; four tasks |
| `library` | pass | each function against its reference definition | words of 8 bits and double words of 16 for the printing, reals of 0, 1, 3 and 6 binary places, file names of up to 24 characters for `trace`, 0..200 by 1..12 for the division, 16 bytes of memory with words of 4, all modes of the card, lines on an 11 by 11 grid, pages of 16 bytes in tables of 4 |

Why the bounds are enough. The ring of 3 wraps after four stores and the runs
follow it for any number of laps, with every phase of the indices; three codes
tell order and loss apart, and code 3 = `BufSize` is also an index, so aliasing
can hit every position. Four lines contain each kind of line the code treats
differently (handled or not, first or second chip, spurious or not). Counters
modulo 2 tell a missed or doubled count from a right one; the counters of the
code wrap at 2^32 in the same way. In the heap one size exceeds the heap, one
fills more than half, and one exceeds the byte value, so that the mark wraps to
0. The six movements have deltas with and without bit 3, of both signs, an
overflow, a wheel turned either way, and every button; they leave the small pad
on all four sides and fill the queue of two many times. `Ps2` is bounded only
in the keys pressed; one key at any place already shifts every later answer.

In `console` the screen has a last column and a last row apart from the first
ones, a tab stop inside the row, and an address of two digits that differ from
row to row; the overtaken backspace's column 15 is far from the screen's four, and a tab
from there wraps to 0 as in 16 bits; the behaviours are unbounded. In `kmain` the count wraps during a
delay and in `ms * hz`; a sector of two words has a first and a last one; of the
start times one is the last second before noon, the other two seconds before
the end of a year, where every field changes; two updates meet three readings; with
four tasks the end of the list differs from its successor. In `library` every
value of the small words is tried where the argument is a word; the division's
exceptions appear at every doubling; every alignment and overlap of two ranges
occurs; the card's modes are all of the code's, and one of each kind that it refuses.

The `interrupts` configuration switches the deadlock check off: after F2 the machine
is deaf and may stop. So do those of `Ps2`: the set-up ends. So does that of
`Library`: there is nothing after the call.

Fairness. `Keyboard`: weak fairness of the reader's instructions, that is, the
processor executes the main line until F2 leaves it; nobody is assumed to press keys. `Interrupts`:
weak fairness of "the processor takes its next step" (stub, main line or
delivery as one action); devices owe nothing, and `cli` windows end because
`MainSti` is part of that step. `RequestServed` further assumes that lines of
higher priority fall silent, which fixed priorities require. `Ps2`: weak fairness of the
kernel, which nothing interrupts, and of each partner's next byte: every command
is answered in the end. A port without a device would never acknowledge, and the
loops of `ps2_install` have no bound: `SetupEnds` is about machines with a device on
each port. `Kmain`: weak fairness of `kmain` (the processor executes it between
interrupts), of the timer's tick (channel 0 runs in a periodic mode), of each
drive's next state and of the end of an update; updates need not begin.
In its liveness properties nobody presses F2, which would leave `kmain` for good.
`BootProceeds` names what may still stop the boot: drive 1 missing, as the poll of
main.c:499 has no counter, and a delay that ends so close to the wrap that its
loop may miss the end. `ImplementsRoundRobin` is refinement with the fairness of
`RoundRobin`: the tasks take turns for ever, once the byte at 56 lets them.
`Console` and `Library` have safety properties only.

Findings (details in `PROJECT.json`):

1. `isrs.c` says a spurious IRQ is ignored and not acknowledged; the code only counts
   it, and calls the handler and both EOIs. `InServiceExact` shows that this does
   no harm as long as handlers do not nest.
2. The keyboard ring loses unread codes at index 255.
3. `kmalloc_b` marks a quarter of each block.
4. `ps2_install` reads the mouse's acknowledgement for its identity, so that a wheel
   mouse sends four-byte packets to a handler that takes three.

Other defects are not runs of their own, most because no text of the repository
contradicts them: the
properties of the passing runs state them as exceptions, with the exact condition.

- A handler that prints between the test and the decrement of `kmain`'s backspace makes
  `csr_x` 65535 (see `Console`), although scrn.c:13 says that it is never negative;
  `InTextMemory` and `CursorBounded` except it.
- `div64_slow` (see `Format`); `PrintingExact` states when.
- `read_rtc` with a 12-hour chip turns midnight to noon, and noon to 0;
  `RtcConsistent` excepts those hours.
- A delay across the wrap of the count returns early; `DelayLasts` excepts it.
- The waits of `hd.c` end when their bit clears. With a drive that is ready at once
  they run into their limit, which only costs time; `ReadBack` holds for such
  drives and for no others.
- `k_preempt` reads a byte near address 0 (see `Tasks`).
- `write_tss` passes base + size for the limit. A limit keeps 20 bits, so that it
  covers the task state for addresses of the second megabyte, where the kernel
  is linked, and not for all others.
- `get_physaddr` and `map_page` take the last slot of the page directory for a window on
  the tables, which `init_page_directory` does not make: the write of `map_page` would fault.
  `idpaging` rounds the size up and not the end, and misses the last page of an
  unaligned range.
- `page_fault_handler` and `k_panic` print and return: the faulting instruction is
  repeated for ever. `isr_install_handler` writes its name to `irq_names`, so IRQ 14
  appears as "page fault". The stub of vector 17 pushes an error code although the
  processor does; the alignment check it is for is never switched on.
- A colour set before `vga_clear` is lost, as `vga_clear` loads the palette. The
  rectangle under the pointer may leave the screen to the right and below,
  and reaches behind the card's 128 KB if the mouse moves from above row 200 to row 399 or
  400 between the last two reads of its row (`DrawingExact`).
- 256x224 is accepted with `chain4`, beyond the modes the comment lists; it fits.
- `writeRealDebug` prints the low 32 bits of a mantissa, and -0.0 is printed without a sign;
  `PrintingExact` says so.

## 4. Proofs

All proofs are by TLAPS, for every value of the constants allowed by the named
assumptions (`BufSize` a positive natural and codes within it, any lines with the
timer's and without the cascade, any masks, any counter modulus, any heap size below U32 and any request
sizes that do not wrap the bound check, any movements with nine-bit deltas, any pad
and any queue of packets, any screen whose width the tab stop divides and is less than half the
number of columns a word counts, any width of
the count, frequency and delays, any start times of the century `read_rtc` reads and
any number of updates, any size of a sector and patience of the waits, any
number of tasks from two with stacks that hold `switchTask`'s words and one
handler's frame, any mice, slow devices, keys and number of key presses; for the functions any
even number of values of a byte above 6, any word, any exclusive or of bytes that is 0 for
equal ones only, any values of four bits above 2, any entries of a page table, any size of a task
state, any size of memory, any coordinates, any number of faults, words of any number of hex
digits from two for the printing, any dividend and divisor, and reals of at most 50
binary places).

- `Keyboard_proofs`: the inductive invariant ties `unread` to the ring
  (`KeysInOrder`), the claimed slot to `inflight` (`TakenIsIntact`), and the
  register to the index at every place of the reader: once the reader has seen
  `first # last`, `unread` stays non-empty until it advances, because only the
  reader removes codes. Without the last part `Head(unread)` would not be
  defined at `Advance`, and without the length bound (`Len(unread) <= BufSize`) a
  store could hit the claimed slot. From it follow the type invariant, FIFO order,
  the intact fetch, the drain, and step by step the refinement of `KeyQueue`.
- `Interrupts_proofs`: the inductive invariant says that at most one frame exists, at
  which places IF and the shadow are set, that the in-service registers are
  exactly what the frame at its place has not yet acknowledged, and which handlers
  are installed at which stage of the boot. `OneFrame` needs the shadow of `sti`,
  `InServiceExact` needs `OneFrame`. For the three counters `CountInv` adds what
  the frame at its place still owes: one to each counter it has not passed
  yet. A delivery raises what is owed, the handler's increment settles it, and
  both sides of `CountsExact`, `SpuriousExact` and `TicksExact` move together modulo the
  counters' width.
- `Heap_proofs`: the inductive invariant is the type, `free_ptr` between `heap_ptr` and
  the end of the heap with all blocks below it, and the properties themselves. The
  bound on the blocks is what makes a new block disjoint from the old ones.
- `Mouse_proofs`: the inductive invariant says what the handler has collected when
  *n* bytes of a packet begun in frame have arrived (their prefix, or nothing once
  the packet is complete for the handler), that otherwise the bytes still to come
  of a calm packet suffice to complete what it has, and that a latched interrupt
  comes before the first byte. The framing properties are its cases for `rest = 0`.
  `WholePacketsApplied` adds that `Decode` inverts the device's `Encode`, by
  arithmetic on the bits of the first byte.
- `Console_proofs`: `IInv` bounds the cursor, the register and `lines` at every place of
  `kmain`'s `kputch`: the column may be one too large only between the increment and
  the test of the margin, the row only up to the scroll, and the column is the largest there
  is in the two steps after the decrement of an overtaken backspace. A handler leaves the cursor on the screen
  from wherever it finds it. So every location computed from loads at different
  times lies at most one row below the screen; the exception is `Limit`'s. `CardInv` says what the card's
  bytes and index are after each port access, if nothing disturbed them.
- `Kmain_proofs`: `ClockInv` says that there are *n* ticks due such that the time asked for
  is less than *n* + 1 ticks, and either *n* ticks have elapsed or the count and `eticks`
  show how many have (`Lasts`). The code has *n* only as `eticks`; the count cannot pass it and
  come round again unnoticed, as it is below `Wrap` until then. `DelaysLast` follows when the
  loop ends.
  `RtcInv` says, by where the last update lies, which of the two readings is of one moment:
  updates are more than a whole pass apart, so of two successive passes one at least
  has met none of them. Two readings that agree are therefore one moment's, and
  `Converted` inverts `Stored` in each of the four formats, but for the two hours
  `RtcConsistent` excepts.
  `DiskInv` says, for every place of the script, how many words have
  been sent and read, how many the drive expects to follow, and that drive 1 has the
  command just given to it. It needs `prompt` for the waits, which otherwise end
  before the drive is ready, and nothing for `BSY` and `RDY`.
  `TasksInv` is an assertion at each of `switchTask`'s 46 instructions. In
  the first half it says which words of the leaving task's stack, which registers and
  which slots of its block already hold what; in the second half the same of the task
  that arrives, whose stack is in use from instruction 38 on. Every other task
  has its registers in its block and its local word on its stack, and keeps
  them since stacks lie apart (`StacksApart`) and a handler's frame is below the
  stack pointer, where no word is still needed. The room a stack must have,
  `FrameWords` + 17 words, is what this argument uses. `TasksGoOn` is the invariant at the
  return; `TasksTakeTurns` is the refinement of `RoundRobin`'s safety part: the stack in
  use, found by division, changes only at instruction 37, to the next task's.
- `Ps2_proofs`: `Ps2Inv` says of each instruction what the controller's configuration is,
  which of its answers is outstanding, who takes the next data byte, whether the mouse
  expects a rate, who reports, and that, as long as no key is pressed and the mouse has
  no wheel identity, no byte under way or read can be taken for one. It does not
  depend on when the answers come, so `InputIsOn` holds for slow devices as well. `LeftInv` adds, for prompt devices and no
  key, how many bytes are under way at each instruction and how many of them are
  acknowledgements. `NothingLeft` by itself is far from inductive: `mouse_read` takes the byte
  that is there, so from the first question on, where answers are kept, the kernel
  may run one byte behind, and an acknowledgement may be read for an identity
  (`Asked`, `Told`). Only the waits for an acknowledgement of the last part bring it level
  again, and the count shows that they do, with the answers kept or forgotten.

- `Library_proofs`: the inductive invariant `LInv` says which call was made (`CallIs`) and, when
  it has returned, that the result is the function's. The proof is about the functions:
  each loop is a recursive function and gets a closed form, proved by induction (`Induction`,
  from the least element of a set of numbers) over its measure.
  `line_fast` after *i* points is `Turns` and `Rest`, quotient and remainder of what its
  numerator has added up, and half a pixel is what these leave (`Near`).
  `kmemmove` is three lists of moves; where source and destination overlap it `Climbs` or
  `Falls`, so that no piece reads a byte an earlier one has written: this is where a word must be moved at
  once. `kmemchr` needs that `HasZero`'s borrow is one exactly above a zero byte, as long as no
  lower byte is zero, so that a word is found exactly when it holds the byte. The
  tables are arithmetic: what the fields of a descriptor hold, read back, and a page
  number with its offset. `Faulted` is constant but for its count.
  For the printing there is one rule: what each round of a loop keeps (`Kept`) is true at its
  end, if something shrinks (`IsLoop`, `LoopRule`).
  The division keeps `Exact` (the rest is less than twice the divisor's multiple, and
  the quotient so far is right) if the doubling ends above half of the dividend. It
  ends at exactly half just for the dividends of `Short`, and then `Missing` is kept: the quotient
  stays too small. In a division by ten, ten times the quotient and the remainder are then five less than the
  dividend (`Losing`), and no later digit makes that good: the digits read less than
  the number (`LessRead`). So they are right if `WrongAt` is 0 and only then.
  Of a fraction, what is printed and what is left add up to it after each digit
  (`Printed`); at the end what is left is below the tolerance, or ten digits are printed. Of
  `trace` only the lengths matter (`Counts`).

Only model-checked: what needs fairness (`KeyEndsWait`, `RequestServed`, `InterruptReturns`,
`SetupEnds`, `BootProceeds`, and the liveness half of `ImplementsRoundRobin`, whose safety half is
`TasksTakeTurns`); `CardExact`, where no constant plays a part: the run has all its cases, and a proof
would be the same enumeration; and the four violations.
Every other property of a passing run is a theorem.

## 5. Not modelled

See `components` in `PROJECT.json`. Beside what it names:

- Functions no code calls: `kfree_b` (it would clear the head of the whole map),
  `read_next_packet` (its `<` on wrapping indices fails after the wrap), `removeTask`
  (it would make `createTask` reuse a stack in use), `set_kernel_stack` (so `esp0` stays
  0), `krand`, `string.c`, `chs2bytes`, `write_to_CMOS`. Some uncalled ones are in `Library`
  (`kmemrchr`, `idpaging`, `get_physaddr`, `map_page`), where a call needs no context.
- `vesa.c` and `gui.c`: comments and unused declarations. Fonts, palettes and colours:
  data.
- The multiboot dump, the printing tests and the heap's print-outs of `kmain`: they
  change the console only, which `Console` models for any text.
- The serial port's set-up and its wait: nothing else uses the port.
- Host-side build scripts and image tools.

## 6. Plan

The components that keep state are modelled, and their safety properties proved.
What is left are action properties that the
inductive invariants already give, such as that only the reader moves
`kb_buf_first`.
