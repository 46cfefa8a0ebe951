------------------------------- MODULE Shell -------------------------------
(***************************************************************************)
(* The filesystem commands of kernel/shell.c over the filesystem of module *)
(* SFS.  A command runs to its end inside the keyboard interrupt, with     *)
(* interrupts disabled, and ends with a bcache_sync: one action each.      *)
(* Commands that change neither the filesystem nor cwd are left out.       *)
(***************************************************************************)
EXTENDS SFS

CONSTANTS DotArg,  \* which of "." and ".." commands are given as a name
          Path     \* paths given to cd and cp: [abs |-> BOOLEAN, comps |-> Seq]

ASSUME ShellAssumption == DotArg \subseteq {".", ".."}

VARIABLES
  fs,     \* the filesystem, as SFS describes it
  cwd,    \* current directory inode
  short   \* some sfs_create ran out of room after it had begun

vars == <<fs, cwd, short>>

Arg == Name \cup DotArg

\* sfs_init on a blank disk.
Init ==
  /\ fs = Format([inode |-> [i \in Inode |-> FreeInode], used |-> {},
                  content |-> [b \in Data |-> ZeroBlock]])
  /\ cwd = SFS_ROOT
  /\ short = FALSE

-----------------------------------------------------------------------------
(* Helpers.                                                                 *)

\* resolve: Fail if any part is missing.
Resolve(p) ==
  LET at[k \in 0..Len(p.comps)] ==
        IF k = 0 THEN IF p.abs THEN SFS_ROOT ELSE cwd
        ELSE IF at[k - 1] = Fail THEN Fail
        ELSE DirLookup(fs, at[k - 1], p.comps[k])
  IN  at[Len(p.comps)]

IsFile(d, i) == i # Fail /\ d.inode[i].type = "file"

\* The entries of directory i other than "." and "..".
Children(d, i) ==
  IF d.inode[i].type # "dir" THEN {}
  ELSE {k \in Taken(d, i) : EntryAt(d, i, k).name \notin {".", ".."}}

\* The named entry, created as a file if it is missing: touch, cp, echo.
Ensure(d, n) ==
  LET i == DirLookup(d, cwd, n)
  IN  IF i # Fail THEN [disk |-> d, ino |-> i] ELSE SfsCreate(d, cwd, n, "file")

\* History: a create that allocated an inode failed to add an entry. Its new
\* directory lacks an entry, or the inode has no name. A name too long for an
\* entry has one, though no lookup finds it.
CutShort(d, e, n, type) ==
  /\ AllocInode(d) # Fail
  /\ DirLookup(d, cwd, n) = Fail
  /\ \/ \A k \in Taken(e, cwd) : EntryAt(e, cwd, k).ino # AllocInode(d)
     \/ type = "dir" /\ Cardinality(Taken(e, AllocInode(d))) # 2

\* cmd_cp in disk state d; oom when its kmalloc fails.
Copied(d, s, dst, oom) ==
  LET text == SfsRead(d, s)
      to   == Ensure(d, dst)
  IN  IF ~IsFile(d, s) \/ oom THEN d
      ELSE IF to.ino = Fail THEN to.disk
      ELSE SfsWrite(to.disk, to.ino, text)

-----------------------------------------------------------------------------
(* rm -r                                                                    *)

RECURSIVE RmRec(_, _, _), Emptied(_, _)

\* The first real child is removed, until there is none.
Emptied(d, i) ==
  IF Children(d, i) = {} THEN d
  ELSE Emptied(RmRec(d, i, EntryAt(d, i, Least(Children(d, i))).name), i)

\* Mutant: directories are not emptied first.
RmRecShallow(d, parent, n) == SfsUnlink(d, parent, n).disk

\* rm_rec
RmRec(d, parent, n) ==
  LET i == DirLookup(d, parent, n)
  IN  IF i = Fail THEN d
      ELSE SfsUnlink(Emptied(d, i), parent, n).disk

-----------------------------------------------------------------------------
(* Commands.                                                                *)

Touch(n) ==
  /\ fs' = Ensure(fs, n).disk
  /\ short' = (short \/ CutShort(fs, fs', n, "file"))
  /\ UNCHANGED cwd

Mkdir(n) ==
  /\ fs' = SfsCreate(fs, cwd, n, "dir").disk
  /\ short' = (short \/ CutShort(fs, fs', n, "dir"))
  /\ UNCHANGED cwd

\* echo text > n, and echo text >> n. When its kmalloc fails the latter does what
\* touch does.
Echo(n, text, append) ==
  LET to  == Ensure(fs, n)
      old == IF append THEN SfsRead(to.disk, to.ino) ELSE <<>>
  IN  /\ fs' = IF to.ino = Fail THEN to.disk
               ELSE SfsWrite(to.disk, to.ino, old \o text)
      /\ short' = (short \/ CutShort(fs, to.disk, n, "file"))
      /\ UNCHANGED cwd

\* cmd_cp; when its kmalloc fails it changes nothing.
Cp(src, dst) ==
  /\ IsFile(fs, Resolve(src))
  /\ fs' = Copied(fs, Resolve(src), dst, FALSE)
  /\ short' = (short \/ CutShort(fs, fs', dst, "file"))
  /\ UNCHANGED cwd


\* cmd_mv: copy, then unlink the source if the destination's name exists.
Moved(src, dst, oom) ==
  LET e == Copied(fs, DirLookup(fs, cwd, src), dst, oom)
  IN  IF DirLookup(e, cwd, dst) = Fail THEN e ELSE SfsUnlink(e, cwd, src).disk

Mv(src, dst, oom) ==
  LET s == DirLookup(fs, cwd, src)
  IN  /\ IsFile(fs, s)
      /\ fs' = Moved(src, dst, oom)
      /\ short' = (short \/ (~oom /\ CutShort(fs, Copied(fs, s, dst, oom), dst, "file")))
      /\ UNCHANGED cwd

Rm(n) ==
  /\ fs' = SfsUnlink(fs, cwd, n).disk
  /\ UNCHANGED <<cwd, short>>

RmR(n) ==
  /\ fs' = RmRec(fs, cwd, n)
  /\ UNCHANGED <<cwd, short>>

Cd(p) ==
  /\ Resolve(p) # Fail
  /\ fs.inode[Resolve(p)].type = "dir"
  /\ cwd' = Resolve(p)
  /\ UNCHANGED <<fs, short>>

Text == {<<>>} \cup {<<v>> : v \in Value}

Next ==
  \/ \E n \in Arg : Touch(n)
  \/ \E n \in Arg : Mkdir(n)
  \/ \E n \in Arg, t \in Text, append \in BOOLEAN : Echo(n, t, append)
  \/ \E p \in Path, n \in Arg : Cp(p, n)
  \/ \E m, n \in Arg, oom \in BOOLEAN : Mv(m, n, oom)
  \/ \E n \in Arg : Rm(n)
  \/ \E n \in Arg : RmR(n)
  \/ \E p \in Path : Cd(p)

Spec == Init /\ [][Next]_vars

-----------------------------------------------------------------------------
(* Properties.                                                              *)

InUse == {i \in Inode : fs.inode[i].type # "free"}
Directory == {i \in Inode : fs.inode[i].type = "dir"}

\* Every block marked in the bitmap belongs to exactly one place of one inode and
\* every other block to none: not after a write that ran out of space, a failed
\* create or a recursive delete is a block shared, lost, or in use and free for
\* alloc_block to hand out again.
BitmapExact ==
  \A b \in Data :
    Cardinality({p \in Inode \X (1..DIRECT) :
                   /\ p[2] \in DOMAIN fs.inode[p[1]].blocks
                   /\ fs.inode[p[1]].blocks[p[2]] = b}) = IF b \in fs.used THEN 1 ELSE 0

\* As long as no create was cut short by a full disk, the directories form a
\* tree: every inode in use except the root has exactly one name, entries name
\* inodes in use, ".." leads back to the directory that holds the name, and out
\* of every set of directories without the root, so no part is cut off.
Tree ==
  ~short =>
    /\ \A i \in Directory : \A k \in Taken(fs, i) : EntryAt(fs, i, k).ino \in InUse
    /\ \A c \in InUse \ {SFS_ROOT} :
         \E i \in Directory : \E k \in Children(fs, i) :
           /\ EntryAt(fs, i, k).ino = c
           /\ \A j \in Directory : \A m \in Children(fs, j) :
                EntryAt(fs, j, m).ino = c => j = i /\ m = k
           /\ c \in Directory => DirLookup(fs, c, ".") = c /\ DirLookup(fs, c, "..") = i
    /\ \A S \in SUBSET (Directory \ {SFS_ROOT}) :
         S # {} => \E c \in S : DirLookup(fs, c, "..") \notin S

\* What a file holds changes only when a command is told to write that file:
\* the blocks a write frees and takes are no other file's.
OnlyTargetChanges ==
  [][\A i \in Inode :
       fs.inode[i].type = "file" /\ fs'.inode[i].type = "file" /\ SfsRead(fs, i) # SfsRead(fs', i)
         => \E n \in Arg :
              /\ DirLookup(fs, cwd, n) = i
              /\ \/ \E t \in Text, append \in BOOLEAN : Echo(n, t, append)
                 \/ \E p \in Path : Cp(p, n)
                 \/ \E m \in Arg : Mv(m, n, FALSE)]_vars

\* The inodes whose chain of parents passes through i.
Below(i) ==
  LET up[k \in 0..MAX_INODES] ==
        IF k = 0 THEN {i}
        ELSE up[k - 1] \cup UNION {{EntryAt(fs, j, m).ino : m \in Children(fs, j)} : j \in up[k - 1]}
  IN  up[MAX_INODES]

\* rm -r of any name, in any state, removes the subtree it names, all of it, and
\* no other inode: the loop that restarts after each removal neither skips an
\* entry nor stops early.
RmRemovesSubtree ==
  ~short =>
    \A n \in Name : DirLookup(fs, cwd, n) # Fail =>
      {i \in Inode : RmRec(fs, cwd, n).inode[i].type # "free"}
        = InUse \ Below(DirLookup(fs, cwd, n))

\* A disk with room for the text under name n of cwd: the old text is freed
\* first, and a new entry may need one block more.
HasRoom(n, text) ==
  LET i    == DirLookup(fs, cwd, n)
      full == i = Fail /\ Taken(fs, cwd) = Positions(fs, cwd)
  IN  Len(text) + (IF full THEN 1 ELSE 0)
        <= Cardinality(Data \ fs.used) + (IF i = Fail THEN 0 ELSE fs.inode[i].size)

=============================================================================
