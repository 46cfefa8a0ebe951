------------------------------ MODULE AtaProofs ------------------------------
(***************************************************************************)
(* ata_read_sector and ata_write_sector do what they say on a drive of any *)
(* size and for any bound of the waits, as long as no call has given up on *)
(* the drive and the drive has dropped nothing.                            *)
(***************************************************************************)
EXTENDS Ata, TLAPS

Read == [op : {"read"}, lba : Sector]
Write == [op : {"write"}, lba : Sector, val : Value]

CallInv ==
  /\ pc \in {"idle", "select", "command", "busy", "ready", "flush", "drain"}
  /\ pc # "idle" => call \in Read \cup Write
  /\ pc \in {"flush", "drain"} => call \in Write

\* The drive is busy, waits for a transfer, or is at rest.
DriveInv ==
  /\ bsy \in BOOLEAN /\ drq \in BOOLEAN /\ err \in BOOLEAN /\ amiss \in BOOLEAN
  /\ lba \in Sector
  /\ DOMAIN kept \subseteq Sector
  /\ bsy => ~drq /\ ~err /\ op \in {"read", "write", "store", "flush"}
  /\ drq => ~err /\ op \in {"read", "write"}
  /\ ~bsy /\ ~drq => op = "none"

\* The driver and the drive agree on the command under way.
Agreed ==
  /\ pc \in {"idle", "select", "command"} => ~bsy /\ ~drq
  /\ pc = "command" => lba = call.lba
  /\ pc \in {"busy", "ready"} =>
       /\ lba = call.lba
       /\ bsy \/ drq => op = call.op
       /\ bsy \/ drq \/ err
       /\ drq /\ op = "read" => buf = Latest(lba)
  /\ pc \in {"flush", "drain"} =>
       /\ ~drq /\ lba = call.lba
       /\ \/ bsy /\ op = "store" /\ buf = call.val
          \/ op \in {"none", "flush"} /\ Latest(lba) = call.val

\* The sectors are as the calls left them, but for the one being written.
Kept ==
  \A s \in Sector :
    Latest(s) \in holds[s] \/ (pc \in {"flush", "drain"} /\ s = call.lba)

AtaInv ==
  /\ CallInv
  /\ DriveInv
  /\ holds \in [Sector -> SUBSET Value]
  /\ ~amiss => Agreed /\ Kept

-----------------------------------------------------------------------------
(* What the drive returns for a sector.                                     *)

\* What the drive returns changes only with its cache and its medium.
LEMMA LatestKept ==
  ASSUME UNCHANGED <<kept, medium>>, NEW s
  PROVE  Latest(s)' = Latest(s)
  BY DEF Latest

\* Moving the write cache to the medium changes nothing a read returns.
LEMMA DestageKeeps ==
  ASSUME Destage, NEW s \in Sector
  PROVE  Latest(s)' = Latest(s) /\ DOMAIN kept' \subseteq Sector
<1>1. DOMAIN kept' = {} /\ medium'[s] = Latest(s)
  BY DEF Destage
<1>2. Latest(s)' = medium'[s]
  BY <1>1 DEF Latest
<1> QED BY <1>1, <1>2

-----------------------------------------------------------------------------
(* The drive.                                                               *)

\* The drive refuses a command.
LEMMA RefusesKeeps ==
  ASSUME AtaInv, DriveRefuses
  PROVE  AtaInv'
<1>1. /\ bsy /\ op \in {"read", "write"} /\ bsy' = FALSE /\ err' = TRUE /\ op' = "none"
      /\ UNCHANGED <<drq, lba, buf, kept, medium, pc, call, spin, amiss, holds>>
  BY DEF DriveRefuses, Done, driver
<1>2. \A s : Latest(s)' = Latest(s)
  BY <1>1, LatestKept
<1>3. CallInv' /\ DriveInv'
  BY <1>1 DEF AtaInv, CallInv, DriveInv
<1>4. ~amiss => Agreed'
  BY <1>1 DEF AtaInv, Agreed, DriveInv, CallInv
<1>5. ~amiss => Kept'
  BY <1>1, <1>2 DEF AtaInv, Kept
<1> QED BY <1>1, <1>3, <1>4, <1>5 DEF AtaInv

\* The drive raises DRQ, for a read with the sector in its buffer.
LEMMA ReadyKeeps ==
  ASSUME AtaInv, DriveReady
  PROVE  AtaInv'
<1>1. /\ bsy /\ op \in {"read", "write"} /\ bsy' = FALSE /\ drq' = TRUE
      /\ buf' = IF op = "read" THEN Latest(lba) ELSE buf
      /\ UNCHANGED <<err, op, lba, kept, medium, pc, call, spin, amiss, holds>>
  BY DEF DriveReady, driver
<1>2. \A s : Latest(s)' = Latest(s)
  BY <1>1, LatestKept
<1>3. CallInv' /\ DriveInv'
  BY <1>1 DEF AtaInv, CallInv, DriveInv
<1>4. Latest(lba)' = Latest(lba)
  BY <1>1 DEF Latest
<1>5. ~amiss => Agreed'
  BY <1>1, <1>4 DEF AtaInv, Agreed, DriveInv, CallInv
<1>6. ~amiss => Kept'
  BY <1>1, <1>2 DEF AtaInv, Kept
<1> QED BY <1>1, <1>3, <1>5, <1>6 DEF AtaInv

\* The drive takes the sector written, or drops it.
LEMMA StoresKeeps ==
  ASSUME AtaInv, NEW failed \in BOOLEAN, DriveStores(failed)
  PROVE  AtaInv'
<1>1. /\ bsy /\ op = "store" /\ bsy' = FALSE /\ err' = failed /\ op' = "none"
      /\ kept' = IF failed THEN kept
                 ELSE [s \in DOMAIN kept \cup {lba} |-> IF s = lba THEN buf ELSE kept[s]]
      /\ amiss' = (amiss \/ failed)
      /\ UNCHANGED <<drq, lba, buf, medium, pc, call, spin, holds>>
  BY DEF DriveStores, Done
<1>2. CallInv' /\ holds' = holds
  BY <1>1 DEF AtaInv, CallInv
<1>3. DriveInv'
  <2>1. DOMAIN kept' \subseteq Sector
    BY <1>1 DEF AtaInv, DriveInv
  <2>2. amiss' \in BOOLEAN
    BY <1>1 DEF AtaInv, DriveInv
  <2> QED BY <1>1, <2>1, <2>2 DEF AtaInv, DriveInv
<1>4. ASSUME ~amiss' PROVE Agreed' /\ Kept'
  <2>1. ~amiss /\ failed = FALSE
    BY <1>1, <1>4
  <2>2. kept' = [s \in DOMAIN kept \cup {lba} |-> IF s = lba THEN buf ELSE kept[s]]
    BY <1>1, <2>1
  <2>3. \A s : Latest(s)' = IF s = lba THEN buf ELSE Latest(s)
    BY <1>1, <2>2 DEF Latest
  <2>4. Latest(lba)' = buf
    BY <1>1, <2>2 DEF Latest
  <2>5. pc \in {"flush", "drain"} /\ buf = call.val /\ lba = call.lba /\ ~drq
    BY <1>1, <2>1 DEF AtaInv, Agreed, CallInv, Read, Write
  <2>6. Agreed'
    BY <1>1, <2>4, <2>5 DEF Agreed
  <2>7. Kept'
    BY <1>1, <2>1, <2>3, <2>5 DEF AtaInv, Kept
  <2> QED BY <2>6, <2>7
<1> QED BY <1>2, <1>3, <1>4 DEF AtaInv

\* The drive empties its write cache, told so or not.
LEMMA DestagesKeep ==
  ASSUME AtaInv, DriveFlushes \/ DriveDestages
  PROVE  AtaInv'
<1>1. /\ Destage
      /\ UNCHANGED <<drq, lba, buf, pc, call, spin, amiss, holds>>
      /\ \/ bsy /\ op = "flush" /\ bsy' = FALSE /\ err' = FALSE /\ op' = "none"
         \/ UNCHANGED <<bsy, err, op>>
  BY DEF DriveFlushes, DriveDestages, Done, driver
<1>2. \A s \in Sector : Latest(s)' = Latest(s)
  BY <1>1, DestageKeeps
<1>3. DOMAIN kept' \subseteq Sector
  BY <1>1 DEF Destage
<1>4. CallInv' /\ DriveInv'
  <2>1. CallInv'
    BY <1>1 DEF AtaInv, CallInv
  <2>2. CASE bsy /\ op = "flush" /\ bsy' = FALSE /\ err' = FALSE /\ op' = "none"
    BY <1>1, <1>3, <2>1, <2>2 DEF AtaInv, DriveInv
  <2>3. CASE UNCHANGED <<bsy, err, op>>
    BY <1>1, <1>3, <2>1, <2>3 DEF AtaInv, DriveInv
  <2> QED BY <1>1, <2>1, <2>2, <2>3
<1>5. Latest(lba)' = Latest(lba)
  <2>1. PICK l \in Sector : l = lba
    BY DEF AtaInv, DriveInv
  <2>2. Latest(l)' = Latest(l)
    BY <1>2
  <2> QED BY <1>1, <2>1, <2>2
<1>6. ~amiss => Agreed'
  BY <1>1, <1>5 DEF AtaInv, Agreed, DriveInv, CallInv, Read, Write
<1>7. ~amiss => Kept'
  BY <1>1, <1>2 DEF AtaInv, Kept
<1> QED BY <1>1, <1>4, <1>6, <1>7 DEF AtaInv

-----------------------------------------------------------------------------
(* The driver.                                                              *)

\* A call begins.
LEMMA BeginKeeps ==
  ASSUME AtaInv, NEW c \in Read \cup Write, Begin(c)
  PROVE  AtaInv'
<1>1. /\ pc = "idle" /\ pc' = "select" /\ call' = c
      /\ UNCHANGED <<bsy, drq, err, op, lba, buf, kept, medium, spin, amiss, holds>>
  BY DEF Begin, drive
<1>2. CallInv' /\ DriveInv'
  BY <1>1 DEF AtaInv, CallInv, DriveInv
<1>3. \A s : Latest(s)' = Latest(s)
  BY <1>1, LatestKept
<1>4. ~amiss => Agreed' /\ Kept'
  BY <1>1, <1>3 DEF AtaInv, Agreed, Kept
<1> QED BY <1>1, <1>2, <1>4 DEF AtaInv

\* select_and_seek
LEMMA SelectKeeps ==
  ASSUME AtaInv, SelectAndSeek
  PROVE  AtaInv'
<1>1. /\ pc = "select" /\ ~bsy /\ lba' = call.lba /\ pc' = "command"
      /\ UNCHANGED <<bsy, drq, err, op, buf, kept, medium, call, spin, amiss, holds>>
  BY DEF SelectAndSeek
<1>2. call.lba \in Sector
  BY <1>1 DEF AtaInv, CallInv, Read, Write
<1>3. CallInv' /\ DriveInv'
  BY <1>1, <1>2 DEF AtaInv, CallInv, DriveInv
<1>4. \A s : Latest(s)' = Latest(s)
  BY <1>1, LatestKept
<1>5. ~amiss => Agreed' /\ Kept'
  BY <1>1, <1>4 DEF AtaInv, Agreed, Kept
<1> QED BY <1>1, <1>3, <1>5 DEF AtaInv

\* On a drive at rest the command is taken.
LEMMA CommandKeeps ==
  ASSUME AtaInv, Command
  PROVE  AtaInv'
<1>1. /\ pc = "command" /\ pc' = "busy" /\ Accept(call.op)
      /\ UNCHANGED <<drq, lba, buf, kept, medium, call, amiss, holds>>
  BY DEF Command
<1>2. call \in Read \cup Write /\ call.op \in {"read", "write"}
  BY <1>1 DEF AtaInv, CallInv, Read, Write
<1>3. CallInv'
  BY <1>1, <1>2 DEF CallInv
<1>4. DriveInv'
  <2>1. CASE bsy \/ drq
    <3>1. UNCHANGED <<bsy, err, op>>
      BY <1>1, <2>1 DEF Accept
    <3> QED BY <1>1, <3>1 DEF AtaInv, DriveInv
  <2>2. CASE ~(bsy \/ drq)
    <3>1. bsy' = TRUE /\ err' = FALSE /\ op' = call.op
      BY <1>1, <2>2 DEF Accept
    <3> QED BY <1>1, <1>2, <2>2, <3>1 DEF AtaInv, DriveInv
  <2> QED BY <2>1, <2>2
<1>5. \A s : Latest(s)' = Latest(s)
  BY <1>1, LatestKept
<1>6. ASSUME ~amiss PROVE Agreed' /\ Kept'
  <2>1. ~bsy /\ ~drq /\ lba = call.lba
    BY <1>1, <1>6 DEF AtaInv, Agreed
  <2>2. bsy' = TRUE /\ err' = FALSE /\ op' = call.op
    BY <1>1, <2>1 DEF Accept
  <2> QED BY <1>1, <1>5, <1>6, <2>1, <2>2 DEF AtaInv, Agreed, Kept
<1> QED BY <1>1, <1>3, <1>4, <1>6 DEF AtaInv

\* The loops of wait_ready only count.
LEMMA PollsKeep ==
  ASSUME AtaInv, PollBusy \/ PollReady
  PROVE  AtaInv'
<1>1. /\ pc \in {"busy", "ready"} /\ pc' \in {"busy", "ready"}
      /\ UNCHANGED <<bsy, drq, err, op, lba, buf, kept, medium, call, amiss, holds>>
  BY DEF PollBusy, PollReady, drive
<1>2. CallInv' /\ DriveInv'
  BY <1>1 DEF AtaInv, CallInv, DriveInv
<1>3. (\A s : Latest(s)' = Latest(s)) /\ Latest(lba)' = Latest(lba)
  BY <1>1 DEF Latest
<1>4. ~amiss => Agreed'
  BY <1>1, <1>3 DEF AtaInv, Agreed
<1>5. ~amiss => Kept'
  BY <1>1, <1>3 DEF AtaInv, Kept
<1> QED BY <1>1, <1>2, <1>4, <1>5 DEF AtaInv

\* wait_ready fails: on an error nothing was stored; a timeout is amiss.
LEMMA FailsKeeps ==
  ASSUME AtaInv, Fails
  PROVE  AtaInv'
<1>1. /\ pc = "ready" /\ pc' = "idle" /\ (err \/ ~drq)
      /\ amiss' = (amiss \/ ~err)
      /\ holds' = IF err THEN holds ELSE Doubt
      /\ UNCHANGED <<bsy, drq, err, op, lba, buf, kept, medium>>
  BY DEF Fails, Returned, drive
<1>2. CallInv'
  BY <1>1 DEF CallInv
<1>3. DriveInv'
  BY <1>1 DEF AtaInv, DriveInv
<1>4. holds' \in [Sector -> SUBSET Value]
  <2>1. CASE call.op = "write"
    <3>1. call.lba \in Sector /\ call.val \in Value
      BY <1>1, <2>1 DEF AtaInv, CallInv, Read, Write
    <3>2. Doubt \in [Sector -> SUBSET Value]
      BY <2>1, <3>1 DEF Doubt, AtaInv
    <3> QED BY <1>1, <3>2 DEF AtaInv
  <2>2. CASE call.op # "write"
    BY <1>1, <2>2 DEF Doubt, AtaInv
  <2> QED BY <2>1, <2>2
<1>5. ASSUME ~amiss' PROVE Agreed' /\ Kept'
  <2>1. ~amiss /\ err
    BY <1>1, <1>5 DEF AtaInv, DriveInv
  <2>2. ~bsy /\ ~drq
    BY <2>1 DEF AtaInv, DriveInv
  <2>3. Agreed'
    BY <1>1, <2>2 DEF Agreed
  <2>4. \A s : Latest(s)' = Latest(s)
    BY <1>1, LatestKept
  <2> QED BY <1>1, <2>1, <2>3, <2>4 DEF AtaInv, Kept
<1> QED BY <1>2, <1>3, <1>4, <1>5 DEF AtaInv

\* A read takes its sector.
LEMMA InswKeeps ==
  ASSUME AtaInv, Insw
  PROVE  AtaInv'
<1>1. /\ pc = "ready" /\ ~err /\ drq /\ call.op = "read" /\ pc' = "idle"
      /\ IF op = "read" THEN drq' = FALSE /\ op' = "none" ELSE UNCHANGED <<drq, op>>
      /\ UNCHANGED <<bsy, err, lba, buf, kept, medium, amiss, holds>>
  BY DEF Insw, Returned
<1>2. CallInv'
  BY <1>1 DEF CallInv
<1>3. DriveInv'
  BY <1>1 DEF AtaInv, DriveInv
<1>4. \A s : Latest(s)' = Latest(s)
  BY <1>1, LatestKept
<1>5. ASSUME ~amiss PROVE Agreed' /\ Kept'
  <2>1. op = "read" /\ ~bsy
    BY <1>1, <1>5 DEF AtaInv, Agreed, DriveInv
  <2>2. Agreed'
    BY <1>1, <2>1 DEF Agreed
  <2> QED BY <1>1, <1>4, <1>5, <2>2 DEF AtaInv, Kept
<1> QED BY <1>1, <1>2, <1>3, <1>5 DEF AtaInv

\* A write sends its sector.
LEMMA OutswKeeps ==
  ASSUME AtaInv, Outsw
  PROVE  AtaInv'
<1>1. /\ pc = "ready" /\ ~err /\ drq /\ call.op = "write" /\ pc' = "flush"
      /\ IF op = "write" THEN drq' = FALSE /\ bsy' = TRUE /\ op' = "store" /\ buf' = call.val
         ELSE UNCHANGED <<drq, bsy, op, buf>>
      /\ UNCHANGED <<err, lba, kept, medium, call, amiss, holds>>
  BY DEF Outsw
<1>2. call \in Write
  BY <1>1 DEF AtaInv, CallInv, Read, Write
<1>3. CallInv'
  BY <1>1, <1>2 DEF CallInv
<1>4. DriveInv'
  BY <1>1 DEF AtaInv, DriveInv
<1>5. \A s : Latest(s)' = Latest(s)
  BY <1>1, LatestKept
<1>6. ASSUME ~amiss PROVE Agreed' /\ Kept'
  <2>1. op = "write" /\ lba = call.lba
    BY <1>1, <1>6 DEF AtaInv, Agreed
  <2>2. Agreed'
    BY <1>1, <2>1 DEF Agreed
  <2> QED BY <1>1, <1>5, <1>6, <2>2 DEF AtaInv, Kept
<1> QED BY <1>1, <1>3, <1>4, <1>6 DEF AtaInv

\* The flush command, taken or ignored.
LEMMA FlushKeeps ==
  ASSUME AtaInv, Flush
  PROVE  AtaInv'
<1>1. /\ pc = "flush" /\ pc' = "drain" /\ Accept("flush")
      /\ UNCHANGED <<drq, lba, buf, kept, medium, call, amiss, holds>>
  BY DEF Flush
<1>2. CallInv'
  BY <1>1 DEF AtaInv, CallInv
<1>4. CASE bsy \/ drq
  <2>1. UNCHANGED <<bsy, err, op>>
    BY <1>1, <1>4 DEF Accept
  <2>2. (\A s : Latest(s)' = Latest(s)) /\ Latest(lba)' = Latest(lba)
    BY <1>1 DEF Latest
  <2>3. DriveInv'
    BY <1>1, <2>1 DEF AtaInv, DriveInv
  <2>4. ~amiss => Agreed'
    BY <1>1, <2>1, <2>2 DEF AtaInv, Agreed
  <2>5. ~amiss => Kept'
    BY <1>1, <2>2 DEF AtaInv, Kept
  <2> QED BY <1>1, <1>2, <2>3, <2>4, <2>5 DEF AtaInv
<1>5. CASE ~(bsy \/ drq)
  <2>1. bsy' = TRUE /\ err' = FALSE /\ op' = "flush"
    BY <1>1, <1>5 DEF Accept
  <2>2. (\A s : Latest(s)' = Latest(s)) /\ Latest(lba)' = Latest(lba)
    BY <1>1 DEF Latest
  <2>3. DriveInv'
    BY <1>1, <1>5, <2>1 DEF AtaInv, DriveInv
  <2>4. ~amiss => Agreed'
    BY <1>1, <1>5, <2>1, <2>2 DEF AtaInv, Agreed
  <2>5. ~amiss => Kept'
    BY <1>1, <2>2 DEF AtaInv, Kept
  <2> QED BY <1>1, <1>2, <2>3, <2>4, <2>5 DEF AtaInv
<1> QED BY <1>4, <1>5

\* When BSY is clear again the drive has the sector.
LEMMA DrainedKeeps ==
  ASSUME AtaInv, Drained
  PROVE  AtaInv'
<1>1. /\ pc = "drain" /\ ~bsy /\ pc' = "idle"
      /\ holds' = [holds EXCEPT ![call.lba] = {call.val}]
      /\ UNCHANGED <<bsy, drq, err, op, lba, buf, kept, medium, amiss>>
  BY DEF Drained, Returned, drive
<1>2. CallInv'
  BY <1>1 DEF CallInv
<1>3. DriveInv'
  BY <1>1 DEF AtaInv, DriveInv
<1>4. PICK l \in Sector, v \in Value : l = call.lba /\ v = call.val
  BY <1>1 DEF AtaInv, CallInv, Write
<1>5. holds' \in [Sector -> SUBSET Value] /\ holds'[l] = {v} /\ \A s \in Sector : s # l => holds'[s] = holds[s]
  BY <1>1, <1>4 DEF AtaInv
<1>6. \A s : Latest(s)' = Latest(s)
  BY <1>1, LatestKept
<1>7. ASSUME ~amiss PROVE Agreed' /\ Kept'
  <2>1. ~drq /\ lba = l /\ Latest(l) = v
    BY <1>1, <1>4, <1>7 DEF AtaInv, Agreed
  <2>2. Agreed'
    BY <1>1, <2>1 DEF Agreed
  <2>3. \A s \in Sector : Latest(s) \in holds'[s]
    BY <1>4, <1>5, <1>7, <2>1 DEF AtaInv, Kept
  <2> QED BY <1>6, <2>2, <2>3 DEF Kept
<1> QED BY <1>1, <1>2, <1>3, <1>5, <1>7 DEF AtaInv

-----------------------------------------------------------------------------

\* The inductive invariant: until something goes amiss the driver and the drive
\* are at the same point of the same command.
THEOREM AtaInvariant == Spec => []AtaInv
<1>1. Init => AtaInv
  <2> SUFFICES ASSUME Init PROVE AtaInv
    OBVIOUS
  <2>1. CallInv /\ DriveInv /\ holds \in [Sector -> SUBSET Value]
    BY DEF Init, CallInv, DriveInv
  <2>2. \A s \in Sector : Latest(s) \in holds[s]
    BY DEF Init, Latest
  <2> QED BY <2>1, <2>2 DEF Init, AtaInv, Agreed, Kept
<1>2. AtaInv /\ [Next]_vars => AtaInv'
  <2> SUFFICES ASSUME AtaInv, [Next]_vars PROVE AtaInv'
    OBVIOUS
  <2>1. CASE \E s \in Sector : Begin([op |-> "read", lba |-> s])
    BY <2>1, BeginKeeps DEF Read
  <2>2. CASE \E s \in Sector, v \in Value : Begin([op |-> "write", lba |-> s, val |-> v])
    BY <2>2, BeginKeeps DEF Write
  <2>3. CASE DriverStep
    BY <2>3, SelectKeeps, CommandKeeps, PollsKeep, FailsKeeps, InswKeeps, OutswKeeps, FlushKeeps,
       DrainedKeeps DEF DriverStep
  <2>4. CASE DriveRefuses \/ DriveReady
    BY <2>4, RefusesKeeps, ReadyKeeps
  <2>5. CASE DriveStores(FALSE) \/ DriveStores(TRUE)
    BY <2>5, StoresKeeps
  <2>6. CASE DriveFlushes \/ DriveDestages
    BY <2>6, DestagesKeep
  <2>7. CASE UNCHANGED vars
    <3>1. UNCHANGED <<bsy, drq, err, op, lba, buf, kept, medium, pc, call, spin, amiss, holds>>
      BY <2>7 DEF vars, drive, driver
    <3> QED BY <3>1 DEF AtaInv, CallInv, DriveInv, Agreed, Kept, Latest
  <2> QED BY <2>1, <2>2, <2>3, <2>4, <2>5, <2>6, <2>7 DEF Next
<1> QED BY <1>1, <1>2, PTL DEF Spec

\* A call that returns 0 has read or written the sector it was asked for, on a
\* drive of any size and for any bound of the waits.
THEOREM SectorsGood == Spec => []GoodSector
<1>1. AtaInv => GoodSector
  <2> SUFFICES ASSUME AtaInv, ~amiss
               PROVE  /\ pc = "ready" /\ ~err /\ drq /\ call.op = "read" => buf \in holds[call.lba]
                      /\ pc = "idle" => \A s \in Sector : Latest(s) \in holds[s]
    BY DEF GoodSector
  <2>1. ASSUME pc = "ready", drq, call.op = "read" PROVE buf \in holds[call.lba]
    <3>1. op = "read" /\ lba = call.lba /\ buf = Latest(lba) /\ lba \in Sector
      BY <2>1 DEF AtaInv, Agreed, DriveInv
    <3>2. Latest(lba) \in holds[lba]
      BY <2>1, <3>1 DEF AtaInv, Kept
    <3> QED BY <3>1, <3>2
  <2>2. ASSUME pc = "idle", NEW s \in Sector PROVE Latest(s) \in holds[s]
    BY <2>2 DEF AtaInv, Kept
  <2> QED BY <2>1, <2>2
<1> QED BY <1>1, AtaInvariant, PTL
=============================================================================
