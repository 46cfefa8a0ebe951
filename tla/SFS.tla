-------------------------------- MODULE SFS --------------------------------
(***************************************************************************)
(* The filesystem of fs/sfs.c: an inode table, a bitmap of data blocks and *)
(* directories made of fixed-size entries.  Every function of its API is   *)
(* an operator from the state of the disk, as the cache shows it, to the   *)
(* state it leaves and its result; module Shell composes them into         *)
(* commands.                                                               *)
(*                                                                         *)
(* A file's contents are counted in blocks, one value each.                *)
(***************************************************************************)
EXTENDS Integers, Sequences, FiniteSets

CONSTANTS MAX_INODES, MAX_DATA_BLOCKS, DIRECT, DIRENTS_PER_BLOCK,
          Name,      \* names a caller passes, "." and ".." aside
          Truncated, \* Truncated[n]: the first 27 characters of n
          Value      \* contents of a block of a file

ASSUME SfsAssumption ==
  /\ MAX_INODES \in Nat \ {0} /\ MAX_DATA_BLOCKS \in Nat \ {0}
  /\ DIRECT \in Nat \ {0} /\ DIRENTS_PER_BLOCK \in Nat /\ DIRENTS_PER_BLOCK >= 2
  /\ Name \cup {".", ".."} \subseteq DOMAIN Truncated
  /\ Name \cap {".", ".."} = {}

SFS_ROOT == 0
Inode == 0..(MAX_INODES - 1)
Data == 1..MAX_DATA_BLOCKS     \* DATA_START + i is block i + 1; 0 is no block
Fail == -1

\* An entry with inum1 = 0 is free.
FreeEntry == [ino |-> Fail, name |-> ""]
ZeroBlock == [e \in 1..DIRENTS_PER_BLOCK |-> FreeEntry]
FreeInode == [type |-> "free", size |-> 0, blocks |-> <<>>]

Least(S) == CHOOSE x \in S : \A y \in S : x <= y
Smaller(m, n) == IF m < n THEN m ELSE n

-----------------------------------------------------------------------------
(* Inodes and blocks.  A disk state d is a record: the inode table, the set *)
(* of blocks marked in the bitmap, and the contents of the data blocks.     *)

\* The inode alloc_inode returns.
AllocInode(d) ==
  LET F == {i \in Inode : d.inode[i].type = "free"}
  IN  IF F = {} THEN Fail ELSE Least(F)

\* alloc_block marks the first free block and zeroes it; 0 when the disk is full.
AllocBlock(d) ==
  LET F == Data \ d.used
  IN  IF F = {} THEN [disk |-> d, blk |-> 0]
      ELSE [disk |-> [d EXCEPT !.used = @ \cup {Least(F)},
                               !.content[Least(F)] = ZeroBlock],
            blk |-> Least(F)]

\* free_block on every block of S. What a free block holds is forgotten: it is
\* zeroed or overwritten before an inode refers to it again.
FreeBlocks(d, S) ==
  [d EXCEPT !.used = @ \ S,
            !.content = [b \in Data |-> IF b \in S THEN ZeroBlock ELSE @[b]]]

BlocksOf(d, i) == {d.inode[i].blocks[b] : b \in DOMAIN d.inode[i].blocks}

-----------------------------------------------------------------------------
(* Directories.  The entries of directory i are numbered through its blocks. *)

Positions(d, i) == 1..(Len(d.inode[i].blocks) * DIRENTS_PER_BLOCK)
BlockAt(d, i, k) == d.inode[i].blocks[((k - 1) \div DIRENTS_PER_BLOCK) + 1]
IndexAt(k) == ((k - 1) % DIRENTS_PER_BLOCK) + 1
EntryAt(d, i, k) == d.content[BlockAt(d, i, k)][IndexAt(k)]

Taken(d, i) == {k \in Positions(d, i) : EntryAt(d, i, k).ino # Fail}
Matches(d, i, n) ==
  {k \in Positions(d, i) : EntryAt(d, i, k).name = n /\ EntryAt(d, i, k).ino # Fail}

\* The whole name is compared with the stored one: one longer than 27 characters
\* is never found.
DirLookup(d, i, n) ==
  LET found == Matches(d, i, n)
  IN  IF d.inode[i].type # "dir" \/ found = {} THEN Fail
      ELSE EntryAt(d, i, Least(found)).ino

SetEntry(d, i, k, entry) ==
  [d EXCEPT !.content[BlockAt(d, i, k)][IndexAt(k)] = entry]

\* dir_add: a free entry of the directory, or the first one of a new block.
DirAdd(d, i, n, child) ==
  LET open  == Positions(d, i) \ Taken(d, i)
      entry == [ino |-> child, name |-> Truncated[n]]
      a     == AllocBlock(d)
  IN  IF open # {} THEN [disk |-> SetEntry(d, i, Least(open), entry), ok |-> TRUE]
      ELSE IF Len(d.inode[i].blocks) = DIRECT \/ a.blk = 0 THEN [disk |-> d, ok |-> FALSE]
      ELSE [disk |-> [a.disk EXCEPT !.inode[i].blocks = Append(@, a.blk),
                                    !.inode[i].size = @ + 1,
                                    !.content[a.blk][1] = entry],
            ok |-> TRUE]

DirRemove(d, i, n) ==
  LET found == Matches(d, i, n)
  IN  IF found = {} THEN d ELSE SetEntry(d, i, Least(found), FreeEntry)

-----------------------------------------------------------------------------
(* The API.                                                                 *)

\* format
Format(d) ==
  LET cleared == [d EXCEPT !.inode = [i \in Inode |-> IF i = SFS_ROOT
                                        THEN [FreeInode EXCEPT !.type = "dir"]
                                        ELSE FreeInode],
                           !.used = {}]
      dot     == DirAdd(cleared, SFS_ROOT, ".", SFS_ROOT)
  IN  DirAdd(dot.disk, SFS_ROOT, "..", SFS_ROOT).disk

\* sfs_create. The results of the two dir_add of a new directory are not looked
\* at, and an inode that gets no name stays allocated.
SfsCreate(d, dir, n, type) ==
  LET ino  == AllocInode(d)
      made == [d EXCEPT !.inode[ino] = [FreeInode EXCEPT !.type = type]]
      dots == IF type # "dir" THEN made
              ELSE DirAdd(DirAdd(made, ino, ".", ino).disk, ino, "..", dir).disk
      add  == DirAdd(dots, dir, n, ino)
  IN  IF DirLookup(d, dir, n) # Fail \/ ino = Fail THEN [disk |-> d, ino |-> Fail]
      ELSE [disk |-> add.disk, ino |-> IF add.ok THEN ino ELSE Fail]

\* The blocks alloc_block returns one after the other when F is free, up to n.
Ascending(F, n) ==
  LET m == IF n < Cardinality(F) THEN n ELSE Cardinality(F)
  IN  [k \in 1..m |-> CHOOSE b \in F : Cardinality({c \in F : c < b}) = k - 1]

\* The file i holds text in the blocks new, allocated in disk state d.
Stored(d, i, new, text) ==
  [inode |-> [d.inode EXCEPT ![i].blocks = new, ![i].size = Len(new)],
   used |-> d.used \cup {new[k] : k \in DOMAIN new},
   content |-> [b \in Data |-> IF \E k \in DOMAIN new : new[k] = b
                               THEN text[CHOOSE k \in DOMAIN new : new[k] = b]
                               ELSE d.content[b]]]

\* Mutant: the old blocks are not freed.
SfsWriteKeepsOld(d, i, text) ==
  IF d.inode[i].type # "file" THEN d
  ELSE Stored(d, i, Ascending(Data \ d.used, Smaller(Len(text), DIRECT)), text)

\* Mutant: only the blocks of directories are seen as taken.
SfsWriteOverFiles(d, i, text) ==
  LET freed == FreeBlocks(d, BlocksOf(d, i))
      dirs  == UNION {BlocksOf(d, j) : j \in {j \in Inode : d.inode[j].type = "dir"}}
  IN  IF d.inode[i].type # "file" THEN d
      ELSE Stored(freed, i, Ascending(Data \ dirs, Smaller(Len(text), DIRECT)), text)

\* sfs_write: the old blocks are freed, then as many allocated as the text
\* needs, the inode can hold and the disk has.
SfsWrite(d, i, text) ==
  LET freed == FreeBlocks(d, BlocksOf(d, i))
  IN  IF d.inode[i].type # "file" THEN d
      ELSE Stored(freed, i, Ascending(Data \ freed.used, Smaller(Len(text), DIRECT)), text)

\* sfs_read of the whole file.
SfsRead(d, i) ==
  [b \in 1..Smaller(d.inode[i].size, Len(d.inode[i].blocks)) |->
     d.content[d.inode[i].blocks[b]]]

\* Mutant: directories are removed with what is in them.
SfsUnlinkFull(d, dir, n) ==
  LET ino == DirLookup(d, dir, n)
  IN  IF n \in {".", ".."} \/ ino = Fail THEN [disk |-> d, ok |-> FALSE]
      ELSE [disk |-> DirRemove([FreeBlocks(d, BlocksOf(d, ino)) EXCEPT !.inode[ino] = FreeInode],
                              dir, n),
            ok |-> TRUE]

\* sfs_unlink
SfsUnlink(d, dir, n) ==
  LET ino == DirLookup(d, dir, n)
  IN  IF n \in {".", ".."} \/ ino = Fail THEN [disk |-> d, ok |-> FALSE]
      ELSE IF d.inode[ino].type = "dir" /\ Cardinality(Taken(d, ino)) > 2
      THEN [disk |-> d, ok |-> FALSE]
      ELSE [disk |-> DirRemove([FreeBlocks(d, BlocksOf(d, ino)) EXCEPT !.inode[ino] = FreeInode],
                              dir, n),
            ok |-> TRUE]
=============================================================================
