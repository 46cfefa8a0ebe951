-------------------------------- MODULE Ata --------------------------------
(***************************************************************************)
(* The ATA driver (drivers/ata.c) and the drive behind its ports: the      *)
(* driver polls the status register, writes the task file and moves one    *)
(* sector through the data port.  The drive is external: it works on its   *)
(* own between two polls, takes no command while BSY or DRQ is set, drops  *)
(* data sent in the wrong direction, and may keep written sectors in a     *)
(* write cache.  Calls do not overlap; every caller waits for the result.  *)
(***************************************************************************)
EXTENDS Naturals

CONSTANTS Sector, Value, SPIN,
          Fault   \* what the drive may do: "slow": answer after wait_ready
                  \* gave up; "lost": drop a sector it took, with an error

ASSUME AtaAssumption ==
  /\ SPIN \in Nat
  /\ Sector # {} /\ Value # {}
  /\ Fault \subseteq {"slow", "lost"}

VARIABLES
  bsy, drq, err,  \* the status register
  op,             \* what the drive works on: "none", "read", "write", "store", "flush"
  lba,            \* its LBA registers
  buf,            \* its sector buffer
  kept,           \* its write cache: the sectors not yet on the medium
  medium,         \* what survives a power failure
  pc,             \* where the driver is
  call,           \* the call under way
  spin,           \* wait_ready's countdown
  amiss,          \* history: a call gave up on a drive still at work, or the
                  \* drive dropped a sector it had taken
  holds           \* history: what each sector may hold, by the calls' results

drive == <<bsy, drq, err, op, lba, buf, kept, medium>>
driver == <<pc, call, spin, amiss, holds>>
vars == <<drive, driver>>

NoCall == [op |-> "none"]

\* ata_init, on a drive that is ready.
Init ==
  /\ bsy = FALSE /\ drq = FALSE /\ err = FALSE
  /\ op = "none"
  /\ lba \in Sector
  /\ buf \in Value
  /\ kept = [s \in {} |-> 0]
  /\ medium \in [Sector -> Value]
  /\ pc = "idle"
  /\ call = NoCall
  /\ spin = 0
  /\ amiss = FALSE
  /\ holds = [s \in Sector |-> {medium[s]}]

\* What the drive returns for a sector.
Latest(s) == IF s \in DOMAIN kept THEN kept[s] ELSE medium[s]

-----------------------------------------------------------------------------
(* The drive.                                                               *)

\* A command reaches the drive.
Accept(c) ==
  IF bsy \/ drq THEN UNCHANGED <<bsy, err, op>>
  ELSE bsy' = TRUE /\ err' = FALSE /\ op' = c

Done(failed) == bsy' = FALSE /\ err' = failed /\ op' = "none" /\ UNCHANGED drq

DriveRefuses ==
  /\ bsy /\ op \in {"read", "write"}
  /\ Done(TRUE)
  /\ UNCHANGED <<lba, buf, kept, medium, driver>>

DriveReady ==
  /\ bsy /\ op \in {"read", "write"}
  /\ bsy' = FALSE /\ drq' = TRUE
  /\ buf' = IF op = "read" THEN Latest(lba) ELSE buf
  /\ UNCHANGED <<err, op, lba, kept, medium, driver>>

DriveStores(failed) ==
  /\ bsy /\ op = "store"
  /\ failed => "lost" \in Fault
  /\ kept' = IF failed THEN kept
             ELSE [s \in DOMAIN kept \cup {lba} |-> IF s = lba THEN buf ELSE kept[s]]
  /\ Done(failed)
  /\ amiss' = (amiss \/ failed)
  /\ UNCHANGED <<lba, buf, medium, pc, call, spin, holds>>

\* All the write cache goes to the medium: told so, or of the drive's own accord.
Destage ==
  /\ medium' = [s \in Sector |-> Latest(s)]
  /\ kept' = [s \in {} |-> 0]

DriveFlushes ==
  /\ bsy /\ op = "flush"
  /\ Destage
  /\ Done(FALSE)
  /\ UNCHANGED <<lba, buf, driver>>

DriveDestages ==
  /\ DOMAIN kept # {}
  /\ Destage
  /\ UNCHANGED <<bsy, drq, err, op, lba, buf, driver>>

DriveWorks == DriveReady \/ DriveStores(FALSE) \/ DriveFlushes

-----------------------------------------------------------------------------
(* The driver.                                                              *)

\* ata_read_sector and ata_write_sector begin.
Begin(c) ==
  /\ pc = "idle"
  /\ call' = c
  /\ pc' = "select"
  /\ UNCHANGED <<drive, spin, amiss, holds>>

\* select_and_seek, once it has seen BSY clear.
SelectAndSeek ==
  /\ pc = "select"
  /\ ~bsy
  /\ lba' = call.lba
  /\ pc' = "command"
  /\ UNCHANGED <<bsy, drq, err, op, buf, kept, medium, call, spin, amiss, holds>>

Command ==
  /\ pc = "command"
  /\ Accept(call.op)
  /\ pc' = "busy"
  /\ spin' = SPIN
  /\ UNCHANGED <<drq, lba, buf, kept, medium, call, amiss, holds>>

\* Mutant: the first loop of wait_ready has no bound.
PollBusyForever ==
  /\ pc = "busy"
  /\ ~bsy
  /\ spin' = SPIN /\ pc' = "ready"
  /\ UNCHANGED <<drive, call, amiss, holds>>

\* wait_ready: the loop on BSY, then the one on DRQ and ERR. A drive that is not
\* slow answers before they give up.
PollBusy ==
  /\ pc = "busy"
  /\ bsy /\ spin = 0 => "slow" \in Fault
  /\ IF bsy /\ spin > 0 THEN spin' = spin - 1 /\ UNCHANGED pc
     ELSE spin' = SPIN /\ pc' = "ready"
  /\ UNCHANGED <<drive, call, amiss, holds>>

PollReady ==
  /\ pc = "ready"
  /\ ~err /\ ~drq
  /\ spin > 0
  /\ spin' = spin - 1
  /\ UNCHANGED <<drive, pc, call, amiss, holds>>

\* What is known of the sector of a write that was given up or refused.
Doubt == IF call.op = "write" THEN [holds EXCEPT ![call.lba] = @ \cup {call.val}] ELSE holds

Returned ==
  /\ pc' = "idle"
  /\ call' = NoCall
  /\ spin' = 0

\* Mutant: the command is tried again.
FailsRetries ==
  /\ pc = "ready"
  /\ err \/ (~drq /\ spin = 0)
  /\ pc' = "select"
  /\ amiss' = (amiss \/ ~err)
  /\ UNCHANGED <<drive, call, spin, holds>>

\* The call returns -1.
Fails ==
  /\ pc = "ready"
  /\ err \/ (~drq /\ spin = 0)
  /\ Returned
  /\ amiss' = (amiss \/ ~err)
  /\ holds' = IF err THEN holds ELSE Doubt
  /\ UNCHANGED drive

\* insw, and ata_read_sector returns 0.
Insw ==
  /\ pc = "ready"
  /\ ~err /\ drq /\ call.op = "read"
  /\ IF op = "read" THEN drq' = FALSE /\ op' = "none" ELSE UNCHANGED <<drq, op>>
  /\ Returned
  /\ UNCHANGED <<bsy, err, lba, buf, kept, medium, amiss, holds>>

\* outsw
Outsw ==
  /\ pc = "ready"
  /\ ~err /\ drq /\ call.op = "write"
  /\ IF op = "write" THEN drq' = FALSE /\ bsy' = TRUE /\ op' = "store" /\ buf' = call.val
     ELSE UNCHANGED <<drq, bsy, op, buf>>
  /\ pc' = "flush"
  /\ UNCHANGED <<err, lba, kept, medium, call, spin, amiss, holds>>

Flush ==
  /\ pc = "flush"
  /\ Accept("flush")
  /\ pc' = "drain"
  /\ UNCHANGED <<drq, lba, buf, kept, medium, call, spin, amiss, holds>>

\* Mutant: ata_write_sector returns without waiting for the drive.
DrainedAtOnce ==
  /\ pc = "drain"
  /\ Returned
  /\ holds' = [holds EXCEPT ![call.lba] = {call.val}]
  /\ UNCHANGED <<drive, amiss>>

\* BSY is clear again: ata_write_sector returns 0, whatever ERR says.
Drained ==
  /\ pc = "drain"
  /\ ~bsy
  /\ Returned
  /\ holds' = [holds EXCEPT ![call.lba] = {call.val}]
  /\ UNCHANGED <<drive, amiss>>

DriverStep ==
  SelectAndSeek \/ Command \/ PollBusy \/ PollReady \/ Fails \/ Insw \/ Outsw \/ Flush \/ Drained

Next ==
  \/ \E s \in Sector : Begin([op |-> "read", lba |-> s])
  \/ \E s \in Sector, v \in Value : Begin([op |-> "write", lba |-> s, val |-> v])
  \/ DriverStep
  \/ DriveRefuses \/ DriveReady \/ DriveStores(FALSE) \/ DriveStores(TRUE)
  \/ DriveFlushes \/ DriveDestages

\* The driver polls on; what the drive does is up to it.
Spec == Init /\ [][Next]_vars /\ WF_vars(DriverStep)

-----------------------------------------------------------------------------
(* Properties.                                                              *)

\* ata_read_sector returns 0 with the sector asked for, as the calls before
\* left it, and ata_write_sector with the sector in the drive: when no call gave
\* up on the drive, through errors and refused commands.
GoodSector ==
  ~amiss =>
    /\ pc = "ready" /\ ~err /\ drq /\ call.op = "read" => buf \in holds[call.lba]
    /\ pc = "idle" => \A s \in Sector : Latest(s) \in holds[s]

\* "bounded so a missing disk can't hang the kernel forever": once the command
\* is sent a read returns, whatever the drive does, if it does anything.
ReadsReturn == pc = "command" /\ call.op = "read" ~> pc = "idle"

\* The waits of select_and_seek and ata_write_sector have no bound: they end on
\* every drive that gets done with what it began, slow, refusing or losing
\* sectors as it may be.
CallsReturn == WF_vars(DriveWorks) => (pc # "idle" ~> pc = "idle")

\* "flush the write cache so data actually reaches the disk image": when
\* ata_write_sector has returned, the sector is on the medium.
WritesReachDisk == pc = "idle" /\ ~amiss => DOMAIN kept = {}
=============================================================================
