-------------------------------- MODULE Tasks -------------------------------
(***************************************************************************)
(* The cooperative tasks of task.c.  switchTask of asm/kernel.s is kept as *)
(* its instructions, executed one per step on a processor with a word      *)
(* addressed memory.  Interrupts are on: a handler restores the registers  *)
(* and leaves its frame below the stack pointer, after every instruction   *)
(* or after none.  Between two switches a task is its registers and the    *)
(* frame of its k_preempt on its stack.                                    *)
(***************************************************************************)
EXTENDS Integers, Sequences

CONSTANTS
    Count,          \* tasks made by initTasking, the main line included: 4
    StackWords,     \* distance of their stacks: 0x1000 bytes
    FrameWords      \* what an interrupt leaves on the stack

VARIABLES
    cpu,            \* the registers
    mem,            \* the memory, in words
    running,        \* runningTask
    link,           \* next of every task
    made,           \* processesCount
    readyByte,      \* NULL->isActive: the byte k_preempt reads near address 0
    frame,          \* words a handler spoils below the stack pointer
    expected        \* history: the registers each task must find when it goes on

taskVars == <<cpu, mem, running, link, made, readyByte, frame, expected>>

-----------------------------------------------------------------------------
(* The memory: the registers of every Task, then the stacks.               *)

Slots == <<"eax", "ebx", "ecx", "edx", "esi", "edi", "esp", "ebp", "eip", "eflags", "cr3">>
Registers == { Slots[i] : i \in 1 .. 11 }
regs(t) == 11 * t
Slot(t, r) == regs(t) + (CHOOSE i \in 1 .. 11 : Slots[i] = r) - 1

StackTop(n) == 11 * Count + (n + 1) * StackWords
Memory == 0 .. StackTop(Count - 1) - 1

ASSUME TasksAssumption ==
    /\ Count \in Nat \ {0, 1} /\ FrameWords \in Nat
    /\ StackWords \in Nat /\ StackWords >= FrameWords + 17

-----------------------------------------------------------------------------
(* switchTask.                                                             *)

Push(r)        == [op |-> "push", r |-> r]
Pop(r)         == [op |-> "pop", r |-> r]
Mov(r, s)      == [op |-> "mov", r |-> r, s |-> s]
Load(r, s, n)  == [op |-> "load", r |-> r, s |-> s, n |-> n \div 4]
Store(s, n, r) == [op |-> "store", r |-> r, s |-> s, n |-> n \div 4]
AddTo(r, n)    == [op |-> "add", r |-> r, n |-> n \div 4]
Exchange(r)    == [op |-> "xchg", r |-> r]
Ret            == [op |-> "ret"]

Pusha          == [op |-> "pusha"]
Pushed         == <<"eax", "ecx", "edx", "ebx", "esp", "ebp", "esi", "edi">>

\* The return address is not taken off the saved stack pointer.
MutantSave == <<
    Load("eax", "esp", 44),
    Store("eax", 4, "ebx"), Store("eax", 8, "ecx"), Store("eax", 12, "edx"),
    Store("eax", 16, "esi"), Store("eax", 20, "edi"),
    Load("ebx", "esp", 36), Load("ecx", "esp", 40), Load("esi", "esp", 16),
    Load("edi", "esp", 4), Load("edx", "esp", 20),
    Store("eax", 0, "ebx"), Store("eax", 24, "edx"), Store("eax", 28, "esi"),
    Store("eax", 32, "ecx"), Store("eax", 36, "edi"),
    Pop("ebx"), Store("eax", 40, "ebx"), Push("ebx") >>

Save == <<
    Load("eax", "esp", 44),
    Store("eax", 4, "ebx"), Store("eax", 8, "ecx"), Store("eax", 12, "edx"),
    Store("eax", 16, "esi"), Store("eax", 20, "edi"),
    Load("ebx", "esp", 36), Load("ecx", "esp", 40), Load("esi", "esp", 16),
    Load("edi", "esp", 4), Load("edx", "esp", 20), AddTo("edx", 4),
    Store("eax", 0, "ebx"), Store("eax", 24, "edx"), Store("eax", 28, "esi"),
    Store("eax", 32, "ecx"), Store("eax", 36, "edi"),
    Pop("ebx"), Store("eax", 40, "ebx"), Push("ebx") >>

Restore == <<
    Load("eax", "esp", 48),
    Load("ebx", "eax", 4), Load("ecx", "eax", 8), Load("edx", "eax", 12),
    Load("esi", "eax", 16), Load("edi", "eax", 20), Load("ebp", "eax", 28),
    Push("eax"), Load("eax", "eax", 36), Push("eax"), Pop("eflags"), Pop("eax"),
    Load("esp", "eax", 24),
    Push("eax"), Load("eax", "eax", 40), Mov("cr3", "eax"), Pop("eax"),
    Push("eax"), Load("eax", "eax", 32), Exchange("eax"), Load("eax", "eax", 0),
    Ret >>

switchTask ==
    <<Pusha, Push("eflags"), Mov("eax", "cr3"), Push("eax")>> \o Save \o Restore

Switching == 1 .. Len(switchTask)
Returned == 999             \* the instruction of k_preempt after the call
Handler(t) == 1000 + t      \* kmain, main_A, main_B, main_C
InTask == cpu.eip \notin Switching

\* The instruction at eip: the registers after it, and the memory.
Executed(i) ==
    LET to(r, word) == [cpu EXCEPT ![r] = word, !.eip = @ + 1]
    IN  CASE i.op = "pusha" -> to("esp", cpu.esp - 8)
          [] i.op = "push"  -> to("esp", cpu.esp - 1)
          [] i.op = "pop"   -> [to(i.r, mem[cpu.esp]) EXCEPT !.esp = cpu.esp + 1]
          [] i.op = "mov"   -> to(i.r, cpu[i.s])
          [] i.op = "load"  -> to(i.r, mem[cpu[i.s] + i.n])
          [] i.op = "add"   -> to(i.r, cpu[i.r] + i.n)
          [] i.op = "xchg"  -> to(i.r, mem[cpu.esp])
          [] i.op = "store" -> [cpu EXCEPT !.eip = @ + 1]
          [] i.op = "ret"   -> [cpu EXCEPT !.eip = mem[cpu.esp], !.esp = @ + 1]

Written(i) ==
    CASE i.op = "pusha" -> [a \in Memory |-> IF a \in cpu.esp - 8 .. cpu.esp - 1
                                             THEN cpu[Pushed[cpu.esp - a]] ELSE mem[a]]
      [] i.op = "push"  -> [mem EXCEPT ![cpu.esp - 1] = cpu[i.r]]
      [] i.op = "store" -> [mem EXCEPT ![cpu[i.s] + i.n] = cpu[i.r]]
      [] i.op = "xchg"  -> [mem EXCEPT ![cpu.esp] = cpu[i.r]]
      [] OTHER          -> mem

\* The registers of the processor and the memory after a handler has run too.
Spoiled(esp, memory) ==
    [a \in Memory |-> IF a \in esp - frame .. esp - 1 THEN -1 ELSE memory[a]]

Instruction ==
    /\ cpu.eip \in Switching
    /\ LET i == switchTask[cpu.eip]
           r == Executed(i)
       IN  cpu' = r /\ mem' = Spoiled(r.esp, Written(i))
    /\ UNCHANGED <<running, link, made, readyByte, frame, expected>>

-----------------------------------------------------------------------------
(* initTasking and k_preempt.                                              *)

TasksInit ==
    /\ cpu = [r \in Registers |-> CASE r = "esp" -> StackTop(0)
                                    [] r = "eip" -> Handler(0) [] OTHER -> 7]
    /\ mem = [a \in Memory |-> 0]
    /\ running = 0 /\ made = 0
    /\ link = [t \in 0 .. Count - 1 |-> -1]
    /\ readyByte = FALSE /\ frame = 0
    /\ expected = [t \in 0 .. Count - 1 |-> cpu]

\* The main line is the first task; what the byte reads as, and what an
\* interrupt leaves, is the same from here on.
initTasking ==
    /\ made = 0 /\ made' = 1
    /\ mem' = [mem EXCEPT ![Slot(0, "cr3")] = cpu.cr3, ![Slot(0, "eflags")] = cpu.eflags]
    /\ running' = 0 /\ readyByte' \in BOOLEAN /\ frame' \in {0, FrameWords}
    /\ UNCHANGED <<cpu, link, expected>>

\* The registers a task is made with; ebp keeps what it holds.
Start(t) ==
    [r \in Registers |->
        CASE r = "esp" -> StackTop(made) [] r = "eip" -> Handler(t)
          [] r \in {"eflags", "cr3"} -> mem[Slot(0, r)]
          [] r = "ebp" -> mem[Slot(t, r)]
          [] OTHER -> 0]

\* Every task is linked after the first.
MutantLinked(t) == [link EXCEPT ![t] = -1, ![0] = t]
Linked(t) == [link EXCEPT ![t] = -1, ![made - 1] = t]

\* initTasking makes the tasks in order, one call each.
createTask ==
    /\ made \in 1 .. Count - 1 /\ made' = made + 1
    /\ LET t == made
       IN  /\ mem' = [a \in Memory |-> IF a \in regs(t) .. regs(t) + 10
                                       THEN Start(t)[Slots[a - regs(t) + 1]] ELSE mem[a]]
           /\ link' = Linked(t)
           /\ expected' = [expected EXCEPT ![t] = Start(t)]
    /\ UNCHANGED <<cpu, running, readyByte, frame>>

\* The values of a task's registers at its next call, unlike those at its last.
Worked(t) ==
    LET first == [r \in Registers |->
                     IF r = "cr3" THEN cpu.cr3 ELSE 100 * (t + 1) + Slot(0, r)]
    IN  IF cpu.ebx = first.ebx
        THEN [r \in Registers |-> IF r = "cr3" THEN cpu.cr3 ELSE first[r] + 20]
        ELSE first

\* The task returns from its last k_preempt, works, and calls it again: it has
\* a local word and the two arguments on the stack when switchTask begins.
k_preempt ==
    /\ made = Count /\ InTask /\ readyByte
    /\ LET t    == running
           next == IF link[t] # -1 THEN link[t] ELSE 0
           sp   == IF cpu.eip = Returned THEN cpu.esp + 3 ELSE cpu.esp
           own  == [Worked(t) EXCEPT !.esp = sp - 4, !.eip = 1]
       IN  /\ cpu' = own
           /\ mem' = [mem EXCEPT ![sp - 1] = -2 - t, ![sp - 2] = regs(next),
                                 ![sp - 3] = regs(t), ![sp - 4] = Returned]
           /\ running' = next
           /\ expected' = [expected EXCEPT
                               ![t] = [own EXCEPT !.esp = sp - 3, !.eip = Returned]]
    /\ UNCHANGED <<link, made, readyByte, frame>>

\* No task passes the test on the first process: k_preempt returns at once.
NobodyReady == made = Count /\ ~readyByte /\ UNCHANGED taskVars

TaskStep == initTasking \/ createTask \/ Instruction \/ k_preempt \/ NobodyReady

=============================================================================
