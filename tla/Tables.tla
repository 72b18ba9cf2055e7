------------------------------- MODULE Tables -------------------------------
(***************************************************************************)
(* The tables the kernel hands to the processor, and how the processor     *)
(* reads them: segments (gdt.c), gates and stack frames (isrs.c,           *)
(* asm/start.s), pages (mm.c), and the tables of handlers beside them.     *)
(***************************************************************************)
EXTENDS Integers, SequencesExt

CONSTANTS
    Nibble,     \* 16: a u32 is eight of these, a segment's limit five
    TssSize,    \* sizeof(tss_entry)
    Entries,    \* 1024: the entries of a page table or directory
    Page        \* 4096: bytes of a page, four for each entry

ASSUME TablesAssumption ==
    /\ Nibble \in Nat \ {0, 1, 2} /\ TssSize \in Nat \ {0}
    /\ Entries \in Nat \ {0, 1} /\ Page = 4 * Entries

\* The values of so many bits.
B8  == Nibble * Nibble
B12 == B8 * Nibble
B16 == B8 * B8
B20 == B16 * Nibble
B24 == B16 * B8
B32 == B16 * B16

-----------------------------------------------------------------------------
(* Segments.                                                               *)

\* The middle and high bytes of the base change places.
MutantGate(base, limit, access, flags) ==
    [base_low |-> base % B16, base_middle |-> (base \div B24) % B8,
     base_high |-> (base \div B16) % B8, access |-> access, flags |-> flags,
     limit_low |-> limit % B16, limit_high |-> (limit \div B16) % Nibble]

\* flags is the upper half of gran.
gdt_set_gate(base, limit, access, flags) ==
    [base_low |-> base % B16, base_middle |-> (base \div B16) % B8,
     base_high |-> (base \div B24) % B8, access |-> access, flags |-> flags,
     limit_low |-> limit % B16, limit_high |-> (limit \div B16) % Nibble]

\* The limit is the address of the end of the task state, not its size.
write_tss(base) == gdt_set_gate(base, base + TssSize, 233, 0)

\* tss is the address of the task state.
gdt_install(tss) ==
    LET all == B32 - 1
        flat(access) == gdt_set_gate(0, all, access, 12)
    IN  [n \in 0 .. 5 |->
            CASE n = 0 -> gdt_set_gate(0, 0, 0, 0)
              [] n = 1 -> flat(154) [] n = 2 -> flat(146)
              [] n = 3 -> flat(250) [] n = 4 -> flat(242)
              [] n = 5 -> write_tss(tss)]

\* What the processor takes from a descriptor: 8 in flags counts pages.
Base(e)  == e.base_low + e.base_middle * B16 + e.base_high * B24
Limit(e) == LET limit == e.limit_low + e.limit_high * B16
            IN  IF e.flags >= 8 THEN (limit + 1) * B12 - 1 ELSE limit
Ring(e)  == (e.access \div 32) % 4
IsCode(e) == (e.access \div 8) % 4 = 3
IsData(e) == (e.access \div 8) % 4 = 2

\* The selectors gdt_flush and tss_flush load, and the one in every gate.
KernelCode == 8
KernelData == 16
TaskState  == 43
Selected(gdt, sel) == gdt[sel \div 8]

-----------------------------------------------------------------------------
(* Gates and frames.                                                       *)

idt_set_gate(base, sel, flags) ==
    [base_lo |-> base % B16, base_hi |-> (base \div B16) % B16,
     sel |-> sel, always0 |-> 0, flags |-> flags]

\* stub is the address of each isr and irq stub; the table was cleared.
isrs_install(stub) ==
    [v \in 0 .. 255 |->
        IF v <= 47
        THEN idt_set_gate(stub[v], KernelCode,
                          IF v \in {3, 4, 5} THEN 239 ELSE IF v <= 31 THEN 143 ELSE 142)
        ELSE idt_set_gate(0, 0, 0)]

\* The stacks grow to the right.  A vector comes with an error code or without.
ErrorCode == {8} \cup 10 .. 14 \cup {17}
Pushed(v, ring) ==
    (IF ring = 3 THEN <<"ss", "useresp">> ELSE <<>>) \o <<"eflags", "cs", "eip">>
    \o (IF v \in ErrorCode THEN <<"err_code">> ELSE <<>>)

\* isr_stack_state, from the top of the stack.
isr_stack_state(ring) ==
    <<"gs", "fs", "es", "ds", "edi", "esi", "ebp", "esp", "ebx", "edx", "ecx", "eax",
      "int_no", "err_code", "eip", "cs", "eflags">>
    \o IF ring = 3 THEN <<"useresp", "ss">> ELSE <<>>

\* The isr and irq stubs as far as the call.
Stub(stack, v) ==
    stack \o (IF v <= 31 /\ (v = 8 \/ v \in 10 .. 14) THEN <<>> ELSE <<"err_code">>)
    \o <<"int_no">>
    \o <<"eax", "ecx", "edx", "ebx", "esp", "ebp", "esi", "edi">> \o <<"ds", "es", "fs", "gs">>

\* After it, as far as iret: what is left for it.
StubEnd(stack) == SubSeq(stack, 1, Len(stack) - 4 - 8 - 2)

-----------------------------------------------------------------------------
(* Pages.  An entry is [frame, present, rw].                               *)

Fault == -1

init_page_directory ==
    [table     |-> [i \in 0 .. Entries - 1 |-> [frame |-> i, present |-> TRUE, rw |-> TRUE]],
     directory |-> [i \in 0 .. Entries - 1 |-> [present |-> i = 0, rw |-> TRUE]]]

pdindex(a) == a \div (Entries * Page)
ptindex(a) == (a \div Page) % Entries

\* The processor's walk; every present directory entry is firstPageTable.
Translated(p, a) ==
    IF p.directory[pdindex(a)].present /\ p.table[ptindex(a)].present
    THEN p.table[ptindex(a)].frame * Page + (a % Page) ELSE Fault

\* It does not look at the directory's entry.
get_physaddr(p, a) == p.table[ptindex(a)].frame * Page + (a % Page)

\* Where map_page writes the entry: it takes the last slot of the directory
\* for a window on the tables.
map_page(p, a) ==
    Translated(p, Entries * (Entries - 1) * Page + Page * pdindex(a) + 4 * ptindex(a))

\* Read-only entries from first on.
idpaging(table, first, from, size) ==
    LET pages == (size + Page - 1) \div Page
    IN  [i \in DOMAIN table |->
            IF i \in first .. first + pages - 1
            THEN [frame |-> from \div Page + i - first, present |-> TRUE, rw |-> FALSE]
            ELSE table[i]]

-----------------------------------------------------------------------------
(* Handlers.  h is [isr_routines, irq_routines, isr_names, irq_names,      *)
(* isr_counts]; "none" is no handler or an empty name.                     *)

NoHandlers ==
    [isr_routines |-> [i \in 0 .. 31 |-> "none"], irq_routines |-> [i \in 0 .. 15 |-> "none"],
     isr_names |-> [i \in 0 .. 31 |-> "none"], irq_names |-> [i \in 0 .. 15 |-> "none"],
     isr_counts |-> [i \in 0 .. 31 |-> 0]]

\* The name goes to irq_names (isr < 16).
isr_install_handler(h, isr, handler) ==
    [h EXCEPT !.isr_routines[isr] = handler, !.irq_names[isr] = handler]
isr_uninstall_handler(h, isr) ==
    [h EXCEPT !.isr_routines[isr] = "none", !.isr_names[isr] = "none"]
irq_install_handler(h, irq, handler) ==
    [h EXCEPT !.irq_routines[irq] = handler, !.irq_names[irq] = handler]
irq_uninstall_handler(h, irq) ==
    [h EXCEPT !.irq_routines[irq] = "none", !.irq_names[irq] = "none"]

\* With a handler or without (k_panic returns), the kernel goes on at the
\* instruction that faulted.
fault_handler(h, i) == [h EXCEPT !.isr_counts[i] = @ + 1]

\* Handlers kmain installs, in its order.
Installed ==
    isr_install_handler(irq_install_handler(irq_install_handler(irq_install_handler(
        NoHandlers, 0, "timer"), 1, "keyboard"), 12, "mouse"), 14, "page fault")

=============================================================================
