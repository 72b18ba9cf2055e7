-------------------------------- MODULE Disk --------------------------------
(***************************************************************************)
(* test_harddisk of main.c and the routines of hd.c it calls, against the  *)
(* two drives of the first ATA channel: IDENTIFY, then one sector written  *)
(* and read back, all three to drive 1: the 0xF0 written to HD_DH before   *)
(* IDENTIFY selects it too.  The kernel is a script of port operations,    *)
(* one step each; every wait goes on WHILE its bit is set, at most         *)
(* Patience times more.  The drives are external.  The words of a sector   *)
(* are told apart by their index.                                          *)
(***************************************************************************)
EXTENDS Integers, Sequences

CONSTANTS
    Words,      \* of a sector: 256
    Patience    \* the counter of the waiting loops: 10000

ASSUME DiskAssumption == Words \in Nat \ {0} /\ Patience \in Nat

VARIABLES
    dpc, timer,             \* the next operation, and the loop's counter
    ident, data2,           \* the words read so far
    present, floating,      \* the drives, and what an absent one's status reads
    selected, state, command, left,     \* the channel and its two drives
    sector,                             \* of the slave
    prompt                  \* history: every wait for DRQ found it set at once

kernelVars == <<dpc, timer, ident, data2>>
driveVars  == <<selected, state, command, left, sector>>
diskVars   == <<kernelVars, driveVars, present, floating, prompt>>

Junk == 0
Sector == [i \in 1 .. Words |-> i]

-----------------------------------------------------------------------------
(* The script.                                                             *)

Op(name, arg) == << [name |-> name, arg |-> arg] >>
Ins(buffer) == [i \in 1 .. Words |-> [name |-> "in", arg |-> buffer]]

ata_soft_reset == Op("reset", 0) \o Op("wait", "BSY")

\* Controller 1 is the first channel here; 0 addresses the other one.
ata_drive_present(controller, slave) ==
    IF controller = 1 THEN Op("select", slave) ELSE <<>>

Identify ==
    Op("select", 1) \o Op("command", "identify") \o Op("wait", "DRQ")
    \o Ins("ident")

\* The last word of the sector is not sent.
MutantWrite(slave) ==
    Op("select", slave) \o Op("command", "write") \o Op("wait", "DRQ")
    \o [i \in 1 .. Words - 1 |-> [name |-> "out", arg |-> Sector[i]]]

ata_pio_write_w(slave) ==
    Op("select", slave) \o Op("command", "write") \o Op("wait", "DRQ")
    \o [i \in 1 .. Words |-> [name |-> "out", arg |-> Sector[i]]]
ata_pio_read_w(slave) ==
    Op("select", slave) \o Op("command", "read") \o Op("wait", "DRQ")
    \o Ins("data2")

test_harddisk ==
    ata_soft_reset \o Op("wait", "RDY") \o Identify
    \o ata_drive_present(1, 0) \o ata_drive_present(1, 1)
    \o ata_pio_write_w(1) \o Op("poll", 0) \o ata_pio_read_w(1)

Finished == Len(test_harddisk) + 1

DiskInit ==
    /\ dpc = 0 /\ timer = Patience
    /\ ident = <<>> /\ data2 = <<>>
    /\ present = {} /\ floating = FALSE /\ selected = 0
    /\ state = [d \in {0, 1} |-> "idle"] /\ command = [d \in {0, 1} |-> "none"]
    /\ left = [d \in {0, 1} |-> 0]
    /\ sector = [i \in 1 .. Words |-> Junk]
    /\ prompt = TRUE

\* The test is called on a machine with these drives.
BeginTest ==
    /\ dpc = 0 /\ dpc' = 1
    /\ present' \in SUBSET {0, 1} /\ floating' \in BOOLEAN
    /\ UNCHANGED <<timer, ident, data2, driveVars, prompt>>

\* It returns: what the model kept of it is forgotten.
EndTest ==
    /\ dpc = Finished /\ dpc' = 0
    /\ timer' = Patience /\ ident' = <<>> /\ data2' = <<>>
    /\ present' = {} /\ floating' = FALSE /\ selected' = 0
    /\ state' = [d \in {0, 1} |-> "idle"] /\ command' = [d \in {0, 1} |-> "none"]
    /\ left' = [d \in {0, 1} |-> 0]
    /\ sector' = [i \in 1 .. Words |-> Junk]
    /\ prompt' = TRUE

-----------------------------------------------------------------------------
(* The channel.                                                            *)

Here == selected \in present
Shows(bit) ==
    IF ~Here THEN floating
    ELSE CASE bit = "BSY" -> state[selected] = "busy"
           [] bit = "DRQ" -> state[selected] = "drq"
           [] bit = "RDY" -> state[selected] # "busy"

Becomes(s, c, n) ==
    /\ state'   = [state EXCEPT ![selected] = s]
    /\ command' = [command EXCEPT ![selected] = c]
    /\ left'    = [left EXCEPT ![selected] = n]

\* A drive takes a command when it is idle, and is ready for its data at once
\* or later; with a transfer outstanding it ignores the command or drops both.
Accept(c) ==
    \/ Here /\ state[selected] = "idle" /\ \E s \in {"busy", "drq"} : Becomes(s, c, Words)
    \/ Here /\ state[selected] = "drq" /\ Becomes("idle", "none", 0)
    \/ /\ ~Here \/ state[selected] # "idle"
       /\ UNCHANGED <<state, command, left>>

\* One word is through; after the last the drive may be busy storing it.
Transferred ==
    IF left[selected] > 1 THEN Becomes("drq", command[selected], left[selected] - 1)
    ELSE \E s \in {"idle", "busy"} : Becomes(s, "none", 0)

DriveReady(d) ==
    /\ state[d] = "busy"
    /\ state' = [state EXCEPT ![d] = IF command[d] = "none" THEN "idle" ELSE "drq"]
    /\ UNCHANGED <<kernelVars, selected, command, left, sector, present, floating, prompt>>

-----------------------------------------------------------------------------
(* The kernel.                                                             *)

Doing(name) == dpc \in 1 .. Finished - 1 /\ test_harddisk[dpc].name = name
Arg == test_harddisk[dpc].arg
Advance == dpc' = dpc + 1 /\ timer' = Patience

\* A software reset, seen by the drives that are there.
Reset ==
    /\ Doing("reset") /\ Advance
    /\ \E busy \in SUBSET present :
           state' = [d \in {0, 1} |-> IF d \in busy THEN "busy" ELSE "idle"]
    /\ selected' = 0 /\ UNCHANGED <<command, left>>
    /\ UNCHANGED <<ident, data2, sector, present, floating, prompt>>

Select ==
    /\ Doing("select") /\ Advance
    /\ selected' = Arg
    /\ UNCHANGED <<ident, data2, state, command, left, sector, present, floating, prompt>>

Command ==
    /\ Doing("command") /\ Advance
    /\ Accept(Arg)
    /\ UNCHANGED <<ident, data2, selected, sector, present, floating, prompt>>

\* if ( !(status & bit) ) break; ... if (--timer < 0) break
Wait ==
    /\ Doing("wait")
    /\ IF Shows(Arg) /\ timer > 0 THEN timer' = timer - 1 /\ UNCHANGED dpc ELSE Advance
    /\ prompt' = (prompt /\ (Arg = "DRQ" /\ timer = Patience => Shows("DRQ")))
    /\ UNCHANGED <<ident, data2, driveVars, present, floating>>

\* The poll is the wrong way round, like the waits.
MutantPoll ==
    /\ Doing("poll")
    /\ IF Shows("BSY") THEN Advance ELSE UNCHANGED <<dpc, timer>>
    /\ UNCHANGED <<ident, data2, driveVars, present, floating, prompt>>

\* while((inb(HD_ST_ALT) & 0xc0) != 0x40)
Poll ==
    /\ Doing("poll")
    /\ IF Shows("RDY") /\ ~Shows("BSY") THEN Advance ELSE UNCHANGED <<dpc, timer>>
    /\ UNCHANGED <<ident, data2, driveVars, present, floating, prompt>>

NextWord == Words - left[selected] + 1

\* inw(HD_DATA)
In ==
    /\ Doing("in") /\ Advance
    /\ LET asked == Shows("DRQ") /\ Here /\ command[selected] \in {"identify", "read"}
           word == IF ~asked THEN Junk
                   ELSE IF command[selected] = "identify" THEN Sector[NextWord]
                   ELSE sector[NextWord]
       IN  /\ IF asked THEN Transferred ELSE UNCHANGED <<state, command, left>>
           /\ IF Arg = "ident" THEN ident' = Append(ident, word) /\ UNCHANGED data2
                               ELSE data2' = Append(data2, word) /\ UNCHANGED ident
    /\ UNCHANGED <<selected, sector, present, floating, prompt>>

\* outw(HD_DATA, data[i])
Out ==
    /\ Doing("out") /\ Advance
    /\ IF Shows("DRQ") /\ Here /\ command[selected] = "write"
       THEN Transferred /\ sector' = [sector EXCEPT ![NextWord] = Arg]
       ELSE UNCHANGED <<state, command, left, sector>>
    /\ UNCHANGED <<ident, data2, selected, present, floating, prompt>>

DiskStep == BeginTest \/ Reset \/ Select \/ Command \/ Wait \/ Poll \/ In \/ Out

=============================================================================
