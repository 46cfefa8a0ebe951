------------------------------ MODULE Persist ------------------------------
(***************************************************************************)
(* What is on the data disk when the power fails: fs/sfs.c over            *)
(* fs/bcache.c sector by sector, from main()'s mount and boot counter      *)
(* (kernel/kernel.c) to the commands of the shell.                         *)
(*                                                                         *)
(* A command changes RAM at once, nobody sees it half done; the sectors it *)
(* writes, by evictions and by its bcache_sync, reach the disk one by one  *)
(* in the order the cache writes them.  Power may fail between any two.    *)
(* All files are in the root directory; module Shell has the others.       *)
(***************************************************************************)
EXTENDS Integers, Sequences, FiniteSets, SequencesExt

CONSTANTS MAX_INODES, INODES_PER_BLOCK, MAX_DATA_BLOCKS, DIRECT, DIRENTS_PER_BLOCK,
          BLOCK_SIZE,   \* characters of a file's block
          SLOTS,        \* of the cache
          Base,         \* of itoa and atoi: 10
          MaxBoots,     \* bound on the boot counter
          MaxCommands,  \* bound on the commands between two boots
          Name,         \* files the commands of the shell are given
          Text,         \* contents of the files they write
          Program,      \* the embedded program, installed as /hello
          Elsewhere,    \* how many blocks of other files a command reads
          FirstBootSafe \* the power does not fail during the first boot

ASSUME PersistAssumption ==
  /\ {MAX_INODES, INODES_PER_BLOCK, MAX_DATA_BLOCKS, DIRECT, BLOCK_SIZE, SLOTS} \subseteq Nat \ {0}
  /\ Base \in Nat /\ Base >= 2
  /\ Name \cap {".", "..", "bootcount", "hello"} = {}
  /\ Elsewhere \subseteq 1..SLOTS
  /\ FirstBootSafe \in BOOLEAN

SFS_ROOT == 0
Fail == -1
Inode == 0..(MAX_INODES - 1)

\* The disk: the superblock, the inode table, the bitmap and the data blocks.
SUPER == 0
TableOf(i) == 1 + i \div INODES_PER_BLOCK
BITMAP == TableOf(MAX_INODES - 1) + 1
Data == (BITMAP + 1)..(BITMAP + MAX_DATA_BLOCKS)
Block == SUPER..(BITMAP + MAX_DATA_BLOCKS)

Least(S) == CHOOSE x \in S : \A y \in S : x <= y

-----------------------------------------------------------------------------
(* What a block holds, and what it says to who reads it as something else.  *)

FreeEntry == [ino |-> Fail, name |-> ""]
FreeInode == [type |-> "free", size |-> 0, blocks |-> <<>>]
NUL == -1
Letter == Base      \* a character that is no digit

Zero == [holds |-> "zero"]
Super == [holds |-> "super"]
Table(f) == [holds |-> "inodes", inodes |-> f]
Bits(S) == [holds |-> "bits", bits |-> S]
Entries(s) == [holds |-> "entries", entries |-> s]
Chars(s) == [holds |-> "chars", chars |-> s]

InodesIn(v) == IF v.holds = "inodes" THEN v.inodes ELSE [i \in Inode |-> FreeInode]
BitsIn(v) == IF v.holds = "bits" THEN v.bits ELSE {}
CharIn(v, k) == IF v.holds = "chars" /\ k <= Len(v.chars) THEN v.chars[k] ELSE NUL

\* The characters of a file, read as entries, are an entry nobody looks for.
EntriesIn(v) ==
  IF v.holds = "entries" THEN v.entries
  ELSE [e \in 1..DIRENTS_PER_BLOCK |->
          IF e = 1 /\ v.holds = "chars" THEN [ino |-> SFS_ROOT, name |-> "garbage"] ELSE FreeEntry]

-----------------------------------------------------------------------------
(* The cache.  A machine m is the slots in use, the hand, the disk as the   *)
(* sectors written so far leave it, and the log of these sectors.           *)

At(m, b) == {i \in DOMAIN m.slot : m.slot[i].blk = b}

\* What bcache_read(b) copies out.
Val(m, b) == IF At(m, b) = {} THEN m.disk[b] ELSE m.slot[Least(At(m, b))].data

WriteSector(m, b, v) ==
  [m EXCEPT !.disk = [@ EXCEPT ![b] = v], !.log = Append(@, [blk |-> b, data |-> v])]

\* evict, and the slot holds b.
Load(m, b, v, dirty) ==
  LET i == m.hand + 1
      s == [blk |-> b, dirty |-> dirty, data |-> v]
  IN  [IF i \in DOMAIN m.slot /\ m.slot[i].dirty
       THEN WriteSector(m, m.slot[i].blk, m.slot[i].data) ELSE m
       EXCEPT !.slot = IF i \in DOMAIN @ THEN [@ EXCEPT ![i] = s] ELSE Append(@, s),
              !.hand = (@ + 1) % SLOTS]

Get(m, b) == IF At(m, b) # {} THEN m ELSE Load(m, b, m.disk[b], FALSE)

Put(m, b, v) ==
  IF At(m, b) = {} THEN Load(m, b, v, TRUE)
  ELSE [m EXCEPT !.slot[Least(At(m, b))] = [@ EXCEPT !.data = v, !.dirty = TRUE]]

\* Mutant: the slots are flushed from the last to the first.
SyncBackwards(m) ==
  LET flush(n, s) == IF s.dirty THEN WriteSector(n, s.blk, s.data) ELSE n
  IN  [FoldRight(LAMBDA s, n : flush(n, s), m.slot, m) EXCEPT
         !.slot = [i \in DOMAIN @ |-> [@[i] EXCEPT !.dirty = FALSE]]]

\* bcache_sync: the dirty slots in the order of their index.
Sync(m) ==
  LET flush(n, s) == IF s.dirty THEN WriteSector(n, s.blk, s.data) ELSE n
  IN  [FoldLeft(flush, m, m.slot) EXCEPT
         !.slot = [i \in DOMAIN @ |-> [@[i] EXCEPT !.dirty = FALSE]]]

GetAll(m, bs) == FoldLeft(Get, m, bs)

-----------------------------------------------------------------------------
(* fs/sfs.c.  Each function returns the machine it leaves and its result.   *)

InodeIn(m, i) == InodesIn(Val(m, TableOf(i)))[i]

WriteInode(m, i, n) ==
  LET b == TableOf(i)
  IN  Put(Get(m, b), b, Table([InodesIn(Val(m, b)) EXCEPT ![i] = n]))

\* alloc_inode reads the table up to the inode it returns.
AllocInode(m) ==
  LET Found(ino) == [m |-> GetAll(m, [k \in 1..TableOf(ino) |-> k]), ino |-> ino]
      From(F)    == IF F = {} THEN [Found(MAX_INODES - 1) EXCEPT !.ino = Fail] ELSE Found(Least(F))
  IN  From({i \in Inode : InodeIn(m, i).type = "free"})

\* Mutant: the bitmap is not written.
AllocBlockUnmarked(m) ==
  LET From(g, F) == IF F = {} THEN [m |-> g, blk |-> 0]
                    ELSE [m |-> Put(g, Least(F), Zero), blk |-> Least(F)]
  IN  From(Get(m, BITMAP), Data \ BitsIn(Val(m, BITMAP)))

AllocBlock(m) ==
  LET Mark(g, b) == Put(g, BITMAP, Bits(BitsIn(Val(m, BITMAP)) \cup {b}))
      From(g, F) == IF F = {} THEN [m |-> g, blk |-> 0]
                    ELSE [m |-> Put(Mark(g, Least(F)), Least(F), Zero), blk |-> Least(F)]
  IN  From(Get(m, BITMAP), Data \ BitsIn(Val(m, BITMAP)))

\* Mutant: the bit is not cleared.
FreeBlockKeepsBit(m, b) == Get(m, BITMAP)

FreeBlock(m, b) == Put(Get(m, BITMAP), BITMAP, Bits(BitsIn(Val(m, BITMAP)) \ {b}))

\* The entries in the blocks bs of a directory, as <<block, entry>>: the free
\* ones, and the ones named n.
Positions(bs) == (DOMAIN bs) \X (1..DIRENTS_PER_BLOCK)
EntryAt(m, bs, p) == EntriesIn(Val(m, bs[p[1]]))[p[2]]
Unused(m, bs) == {p \in Positions(bs) : EntryAt(m, bs, p).ino = Fail}
Named(m, bs, n) == {p \in Positions(bs) : EntryAt(m, bs, p).name = n} \ Unused(m, bs)

\* A scan of directory i for the entries in hits: the first of them, and the
\* machine once the blocks up to it are read.
Scan(m, i, hits) ==
  LET bs       == InodeIn(m, i).blocks
      Read(k)  == GetAll(Get(m, TableOf(i)), SubSeq(bs, 1, k))
      First(H) == CHOOSE p \in H : \A q \in H : p[1] < q[1] \/ (p[1] = q[1] /\ p[2] <= q[2])
      Hit(p)   == [m |-> Read(p[1]), found |-> TRUE, blk |-> bs[p[1]], entry |-> p[2]]
  IN  IF hits = {} THEN [m |-> Read(Len(bs)), found |-> FALSE, blk |-> 0, entry |-> 0]
      ELSE Hit(First(hits))

SetEntry(m, b, e, entry) == Put(m, b, Entries([EntriesIn(Val(m, b)) EXCEPT ![e] = entry]))

DirLookup(m, dir, n) ==
  LET From(s) == [m   |-> s.m,
                  ino |-> IF s.found THEN EntriesIn(Val(m, s.blk))[s.entry].ino ELSE Fail]
  IN  IF InodeIn(m, dir).type # "dir" THEN [m |-> Get(m, TableOf(dir)), ino |-> Fail]
      ELSE From(Scan(m, dir, Named(m, InodeIn(m, dir).blocks, n)))

\* dir_add: a free entry, or the first one of a new block.
DirAdd(m, dir, n, child) ==
  LET entry == [ino |-> child, name |-> n]
      Grow(d, a) ==
        IF a.blk = 0 THEN [m |-> a.m, ok |-> FALSE]
        ELSE [m  |-> SetEntry(WriteInode(a.m, dir, [d EXCEPT !.blocks = Append(@, a.blk),
                                                             !.size = @ + BLOCK_SIZE]),
                              a.blk, 1, entry),
              ok |-> TRUE]
      From(d, s) ==
        IF s.found THEN [m |-> SetEntry(s.m, s.blk, s.entry, entry), ok |-> TRUE]
        ELSE IF Len(d.blocks) = DIRECT THEN [m |-> s.m, ok |-> FALSE]
        ELSE Grow(d, AllocBlock(s.m))
  IN  From(InodeIn(m, dir), Scan(m, dir, Unused(m, InodeIn(m, dir).blocks)))

DirRemove(m, dir, n) ==
  LET From(s) == IF s.found THEN SetEntry(s.m, s.blk, s.entry, FreeEntry) ELSE s.m
  IN  From(Scan(m, dir, Named(m, InodeIn(m, dir).blocks, n)))

\* format, whose first block is the superblock.
Format(m) ==
  LET sb    == Put(m, SUPER, Super)
      clear == FoldLeft(LAMBDA x, b : Put(x, b, Zero), sb, [b \in 1..BITMAP |-> b])
      root  == WriteInode(clear, SFS_ROOT, [FreeInode EXCEPT !.type = "dir"])
  IN  DirAdd(DirAdd(root, SFS_ROOT, ".", SFS_ROOT).m, SFS_ROOT, "..", SFS_ROOT).m

\* Mutant: the magic number is not looked at.
SfsInitFormats(m) == Format(Get(m, SUPER))

SfsInit(m) == IF Val(m, SUPER) = Super THEN Get(m, SUPER) ELSE Format(Get(m, SUPER))

\* sfs_create of a file in the root directory.
SfsCreate(m, n) ==
  LET Added(ino, d) == [m |-> d.m, ino |-> IF d.ok THEN ino ELSE Fail]
      Make(a) ==
        IF a.ino = Fail THEN a
        ELSE Added(a.ino, DirAdd(WriteInode(a.m, a.ino, [FreeInode EXCEPT !.type = "file"]),
                                 SFS_ROOT, n, a.ino))
      From(l) == IF l.ino # Fail THEN l ELSE Make(AllocInode(l.m))
  IN  From(DirLookup(m, SFS_ROOT, n))

Chunk(text, k) ==
  SubSeq(text, (k - 1) * BLOCK_SIZE + 1,
         IF k * BLOCK_SIZE < Len(text) THEN k * BLOCK_SIZE ELSE Len(text))

Chunks(text) ==
  LET n == (Len(text) + BLOCK_SIZE - 1) \div BLOCK_SIZE
  IN  [k \in 1..(IF n < DIRECT THEN n ELSE DIRECT) |-> Chunk(text, k)]

\* One round of sfs_write's loop, unless the disk was full before.
WriteChunk(w, chunk) ==
  LET From(a) == IF a.blk = 0 THEN [w EXCEPT !.m = a.m, !.full = TRUE]
                 ELSE [w EXCEPT !.m = Put(a.m, a.blk, Chars(chunk)),
                                !.blocks = Append(@, a.blk), !.size = @ + Len(chunk)]
  IN  IF w.full THEN w ELSE From(AllocBlock(w.m))

FreeBlocks(m, i) == FoldLeft(FreeBlock, Get(m, TableOf(i)), InodeIn(m, i).blocks)

SfsWrite(m, i, text) ==
  LET None(f)    == [m |-> f, blocks |-> <<>>, size |-> 0, full |-> FALSE]
      From(n, w) == WriteInode(w.m, i, [n EXCEPT !.blocks = w.blocks, !.size = w.size])
  IN  IF InodeIn(m, i).type # "file" THEN Get(m, TableOf(i))
      ELSE From(InodeIn(m, i), FoldLeft(WriteChunk, None(FreeBlocks(m, i)), Chunks(text)))

\* sfs_read of the whole file, by its inode n.
Contents(m, n) ==
  LET last == Len(n.blocks) * BLOCK_SIZE
  IN  [k \in 1..(IF n.size < last THEN n.size ELSE last) |->
         CharIn(Val(m, n.blocks[((k - 1) \div BLOCK_SIZE) + 1]), ((k - 1) % BLOCK_SIZE) + 1)]

SfsRead(m, i) ==
  [m    |-> GetAll(Get(m, TableOf(i)), InodeIn(m, i).blocks),
   text |-> Contents(m, InodeIn(m, i))]

\* sfs_unlink of a file in the root directory.
SfsUnlink(m, n) ==
  LET From(l) == IF l.ino = Fail THEN l.m
                 ELSE DirRemove(WriteInode(FreeBlocks(l.m, l.ino), l.ino, FreeInode), SFS_ROOT, n)
  IN  From(DirLookup(m, SFS_ROOT, n))

\* The file n of the root directory, created when there is none.
OpenOrCreate(m, n) ==
  LET From(l) == IF l.ino = Fail THEN SfsCreate(l.m, n) ELSE l
  IN  From(DirLookup(m, SFS_ROOT, n))

\* text in the file n, as main writes /hello and echo its line.
Store(m, n, text) ==
  LET From(f) == IF f.ino = Fail THEN f.m ELSE SfsWrite(f.m, f.ino, text)
  IN  From(OpenOrCreate(m, n))

-----------------------------------------------------------------------------
(* lib/string.c, for numbers that are not negative.                         *)

\* utoa gathers the digits from the last to the first.
Itoa(n) ==
  LET utoa[v \in 0..n] == IF v < Base THEN <<v>> ELSE Append(utoa[v \div Base], v % Base)
  IN  utoa[n]

\* atoi stops at the first character that is no digit.
Atoi(text) ==
  LET digits == {k \in 0..Len(text) : \A j \in 1..k : text[j] \in 0..(Base - 1)}
      last   == CHOOSE k \in digits : \A j \in digits : j <= k
  IN  FoldLeft(LAMBDA v, c : v * Base + c, 0, SubSeq(text, 1, last))

-----------------------------------------------------------------------------
VARIABLES
  cache,    \* the slots and the hand
  disk,     \* what a power failure leaves
  todo,     \* the sectors the command that runs has still to write
  phase,    \* "off", "count" and "hello" (main's two blocks), "shell"
  commands, \* commands since the machine was switched on
  number,   \* the buffer main prints the counter from
  printed,  \* history: the number printed last, 0 for none
  before,   \* history: the files on the disk when the command began,
  target,   \* the file it is told to change,
  safe      \* and the names that were safe on that disk

vars == <<cache, disk, todo, phase, commands, number, printed, before, target, safe>>

File == Name \cup {"bootcount", "hello"}

Machine == [slot |-> cache.slot, hand |-> cache.hand, disk |-> disk, log |-> <<>>]
Fresh(d) == [slot |-> <<>>, hand |-> 0, disk |-> d, log |-> <<>>]   \* bcache_init

\* What is found under each name by who mounts the disk d.
Catalog(d) ==
  LET Of(ino, node) == [ino |-> ino, type |-> node.type, blocks |-> ToSet(node.blocks),
                        text |-> Contents(Fresh(d), node)]
      From(ino)     == Of(ino, IF ino = Fail THEN FreeInode ELSE InodeIn(Fresh(d), ino))
  IN  [n \in File \cup {"."} |-> From(DirLookup(Fresh(d), SFS_ROOT, n).ino)]

\* In the catalog c of d the inode of n is in use and its blocks are marked, and no
\* other name leads to it or to them: no command on another file frees or takes
\* them. "." stands for the root directory.
Safe(c, d, n) ==
  /\ c[n].ino # Fail => c[n].type # "free"
  /\ c[n].blocks \subseteq BitsIn(d[BITMAP])
  /\ \A k \in DOMAIN c \ {n} :
       c[n].blocks \cap c[k].blocks = {} /\ (c[n].ino # Fail => c[n].ino # c[k].ino)

SafeNames(c, d) == {n \in DOMAIN c : d[SUPER] = Super /\ Safe(c, d, n)}

\* A blank disk, and the machine off.
Init ==
  /\ cache = [slot |-> <<>>, hand |-> 0]
  /\ disk = [b \in Block |-> Zero]
  /\ todo = <<>>
  /\ phase = "off"
  /\ commands = 0
  /\ number = 0
  /\ printed = 0
  /\ before = Catalog(disk)
  /\ target = "none"
  /\ safe = SafeNames(before, disk)

\* A command on the file n leaves the machine m; its bcache_sync follows.
Perform(m, n) ==
  /\ todo = <<>>
  /\ \E s \in {Sync(m)} :
       /\ cache' = [slot |-> s.slot, hand |-> s.hand]
       /\ todo' = s.log
  /\ before' = Catalog(disk)
  /\ target' = n
  /\ safe' = SafeNames(before', disk)
  /\ UNCHANGED disk

\* The file of the boot counter and the boots it counts.
Counter(m) ==
  LET Read(ino, r) == [m |-> r.m, ino |-> ino, boots |-> Atoi(r.text)]
      Made(f)      == [m |-> f.m, ino |-> f.ino, boots |-> 0]
      From(l)      == IF l.ino = Fail THEN Made(SfsCreate(l.m, "bootcount"))
                      ELSE Read(l.ino, SfsRead(l.m, l.ino))
  IN  From(DirLookup(m, SFS_ROOT, "bootcount"))

\* main mounts the disk and counts the boot. When the file cannot be created
\* sfs_write is given inode -1, whose type it reads beside its buffer; the root
\* directory has room for it in this model.
BootCount ==
  /\ phase = "off"
  /\ \E c \in {Counter(SfsInit(Fresh(disk)))} :
       /\ c.ino # Fail
       /\ c.boots < MaxBoots
       /\ Perform(SfsWrite(c.m, c.ino, Itoa(c.boots + 1)), "bootcount")
       /\ number' = c.boots + 1
  /\ phase' = "count"
  /\ UNCHANGED <<commands, printed>>

\* main prints the number, then installs the program as /hello.
InstallHello ==
  /\ phase = "count"
  /\ Perform(Store(Machine, "hello", Program), "hello")
  /\ phase' = "hello"
  /\ printed' = number
  /\ UNCHANGED <<commands, number>>

ShellInit ==
  /\ phase = "hello"
  /\ todo = <<>>
  /\ phase' = "shell"
  /\ UNCHANGED <<cache, disk, todo, commands, number, printed, before, target, safe>>

Command ==
  /\ phase = "shell"
  /\ todo = <<>>
  /\ commands < MaxCommands
  /\ commands' = commands + 1
  /\ UNCHANGED <<phase, number, printed>>

\* echo text > n
Echo(n, text) ==
  /\ Command
  /\ Perform(Store(Machine, n, text), n)

Rm(n) ==
  /\ Command
  /\ Perform(SfsUnlink(Machine, n), n)

\* cat and ls read k blocks that are none of these files'.
ReadElsewhere(k) ==
  LET m == FoldLeft(LAMBDA x, b : Load(x, -1, Zero, FALSE), Machine, [i \in 1..k |-> i])
  IN  /\ Command
      /\ cache' = [slot |-> m.slot, hand |-> m.hand]
      /\ UNCHANGED <<disk, todo, before, target, safe>>

\* ata_write_sector, taken to leave the sector on the medium when it returns. The
\* driver does not ensure it (WritesReachDisk of Ata): what is shown here is of a
\* drive that stores each sector before it takes the next.
WriteNext ==
  /\ todo # <<>>
  /\ disk' = [disk EXCEPT ![Head(todo).blk] = Head(todo).data]
  /\ todo' = Tail(todo)
  /\ UNCHANGED <<cache, phase, commands, number, printed, before, target, safe>>

PowerFails ==
  /\ phase # "off"
  /\ FirstBootSafe => printed > 0
  /\ phase' = "off"
  /\ cache' = [slot |-> <<>>, hand |-> 0]
  /\ todo' = <<>>
  /\ number' = 0
  /\ commands' = 0
  /\ before' = Catalog(disk)
  /\ target' = "none"
  /\ safe' = SafeNames(before', disk)
  /\ UNCHANGED <<disk, printed>>

Next ==
  \/ BootCount
  \/ InstallHello
  \/ ShellInit
  \/ \E n \in Name, text \in Text : Echo(n, text)
  \/ \E n \in Name : Rm(n)
  \/ \E k \in Elsewhere : ReadElsewhere(k)
  \/ WriteNext
  \/ PowerFails

Spec == Init /\ [][Next]_vars

-----------------------------------------------------------------------------
(* Properties.                                                              *)

\* What a command writes to the disk, all of it or what a power failure lets
\* through, costs no safe file but the one it is told to change: the others are
\* read as before and stay safe. Earlier failures may have left other files
\* unsafe; the root directory must be safe. Nothing is promised to a file that is
\* not safe: one whose command was cut short, or one that a later command, run to
\* its end, put on an inode or on blocks of such a file.
UntouchedSurvive ==
  "." \in safe =>
    \E now \in {Catalog(disk)} :
      \A n \in safe \ {target, "."} : now[n] = before[n] /\ Safe(now, disk, n)

\* Once a boot has mounted the disk it stays a filesystem: the root directory is
\* inode 0, a directory with its two entries, and the block they are in stays
\* marked and no file is given it, whatever the power cuts short. This is its
\* first block only: one that dir_add takes later can be in the inode and not in
\* the bitmap when the power fails, and then a file can be given it.
RootSurvives ==
  printed > 0 \/ (phase # "off" /\ todo = <<>>) =>
    LET root == InodeIn(Fresh(disk), SFS_ROOT)
        c    == Catalog(disk)
    IN  /\ disk[SUPER] = Super
        /\ root.type = "dir" /\ root.blocks # <<>>
        /\ root.blocks[1] \in BitsIn(disk[BITMAP])
        /\ \A n \in {".", ".."} : DirLookup(Fresh(disk), SFS_ROOT, n).ino = SFS_ROOT
        /\ \A n \in File : root.blocks[1] \notin c[n].blocks

\* "boot counter: proof that the filesystem persists across reboots": however
\* often the power failed, a boot prints a larger number than every one before.
BootsCount ==
  [][phase = "count" /\ phase' = "hello" => printed' > printed]_vars

-----------------------------------------------------------------------------
(* The blocks implement the filesystem of module SFS.                       *)

Sfs == INSTANCE SFS WITH Name <- File, Truncated <- [n \in File \cup {".", ".."} |-> n],
                         Value <- Text

\* The disk state of SFS that m stands for: blocks numbered from the first data
\* block, sizes in blocks, and nothing in blocks that are free.
Abs(m) ==
  [inode   |-> [i \in Inode |->
                  LET n == InodeIn(m, i)
                  IN  [n EXCEPT !.size = (@ + BLOCK_SIZE - 1) \div BLOCK_SIZE,
                                !.blocks = [k \in DOMAIN @ |-> @[k] - BITMAP]]],
   used    |-> {b - BITMAP : b \in BitsIn(Val(m, BITMAP))},
   content |-> [b \in 1..MAX_DATA_BLOCKS |->
                  LET v == Val(m, b + BITMAP)
                  IN  IF b + BITMAP \notin BitsIn(Val(m, BITMAP)) \/ v.holds = "zero"
                      THEN Sfs!ZeroBlock
                      ELSE IF v.holds = "chars" /\ b + BITMAP \notin ToSet(InodeIn(m, SFS_ROOT).blocks)
                      THEN v.chars ELSE EntriesIn(v)]]

SfsStore(d, n, text) ==
  LET Open(ino) == IF ino = Fail THEN Sfs!SfsCreate(d, SFS_ROOT, n, "file")
                   ELSE [disk |-> d, ino |-> ino]
      From(f)   == IF f.ino = Fail THEN f.disk ELSE Sfs!SfsWrite(f.disk, f.ino, text)
  IN  From(Open(Sfs!DirLookup(d, SFS_ROOT, n)))

\* On a disk whose names are all safe, through a cache in any state, the commands
\* do block by block what the filesystem of SFS does in one step, a full disk and
\* a root directory that grows included.
AgreesWithSfs ==
  phase = "shell" /\ todo = <<>> /\ SafeNames(Catalog(disk), disk) = File \cup {"."} =>
    LET d == Abs(Machine)
    IN  \A n \in Name :
          /\ \A text \in Text : Abs(Store(Machine, n, text)) = SfsStore(d, n, Chunks(text))
          /\ Abs(SfsUnlink(Machine, n)) = Sfs!SfsUnlink(d, SFS_ROOT, n).disk
=============================================================================
