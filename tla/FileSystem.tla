----------------------------- MODULE FileSystem -----------------------------
(***************************************************************************)
(* The inode file system of fs.rs over the format of shared/src/fs.rs, the *)
(* image mkfs lays out, and the path calls and file descriptor operations  *)
(* of usermode.rs and vfs.rs that reach it.                                *)
(*                                                                         *)
(* One operation runs at a time (the calls are made inside the system call *)
(* handler), but it is a sequence of block writes, and the machine may     *)
(* stop between any two of them: an operation computes the disk after each *)
(* of its writes, and these reach the disk one step at a time.             *)
(*                                                                         *)
(* A block holds CELLS cells; a cell is a dirent, a block pointer or a     *)
(* unit of data, so CELLS stands for DIRENTS_PER_BLOCK, PTRS_PER_BLOCK and *)
(* BLOCK_SIZE, and sizes are counted in cells.                             *)
(***************************************************************************)
EXTENDS Integers, FiniteSets, SequencesExt

CONSTANTS
    INODE_COUNT,  \* inodes 1 .. INODE_COUNT - 1, of which 1 is the root
    DATA_BLOCKS,  \* data blocks, numbered from 1; 0 is no block
    NDIRECT,
    CELLS,
    Staged,       \* what mkfs puts on the image: <<[path, data], ...>>
    Paths,        \* the paths programs use: [absolute, comps]
    Offsets,      \* where programs seek to
    Datas,        \* what programs write: sequences of values
    MaxOps        \* bound on the operations of a behaviour

ROOT_INODE == 1
Inodes == 1 .. INODE_COUNT - 1
FsBlocks == 1 .. DATA_BLOCKS

T_FREE == 0
T_FILE == 1
T_DIR == 2

ASSUME FsAssumption ==
    /\ INODE_COUNT \in Nat \ {0, 1}
    /\ DATA_BLOCKS \in Nat \ {0}
    /\ NDIRECT \in Nat \ {0}
    /\ CELLS \in Nat \ {0}
    /\ MaxOps \in Nat

VARIABLES
    media,     \* the blocks of the disk
    pending,  \* the disk after each write still to come of the running operation
    cur,      \* the running operation, or the last one
    fd,       \* the program's open file, or NoFd
    cwd,      \* its working directory
    ops,      \* operations so far
    \* History, for the properties.
    known,    \* per inode, the data cells that were written
    crashed,  \* there was a crash
    torn,     \* the inodes it caught half freed
    doubled,  \* the inode it caught under two names
    damage    \* what has gone wrong since that the code does not guard against

fs_vars == <<media, pending, cur, fd, cwd, ops, known, crashed, torn, doubled, damage>>
crash_vars == <<crashed, torn, doubled>>

-----------------------------------------------------------------------------
(* The on-disk format.                                                     *)

Cell(name, v) == [name |-> name, v |-> v]
ZeroBlock == [c \in 0 .. CELLS - 1 |-> Cell("", 0)]

empty_inode == [kind |-> T_FREE, size |-> 0, direct |-> [i \in 0 .. NDIRECT - 1 |-> 0],
                indirect |-> 0, double_indirect |-> 0]

BlankDisk == [bitmap |-> [b \in FsBlocks |-> FALSE],
              inode |-> [i \in Inodes |-> empty_inode],
              data |-> [b \in FsBlocks |-> ZeroBlock]]

(* An operation under way: the disk, its successive contents, the inode    *)
(* held in memory and the result of the last call, 0 for None.             *)
Begin(d) == [d |-> d, t |-> <<>>, node |-> empty_inode, r |-> 0]

(* One block reaches the disk.                                             *)
Wrote(s, d) == [s EXCEPT !.d = d, !.t = Append(@, d)]
write_bitmap(s, b, used) == Wrote(s, [s.d EXCEPT !.bitmap[b] = used])
write_block(s, b, data) == Wrote(s, [s.d EXCEPT !.data[b] = data])
write_inode(s, ino, node) == Wrote(s, [s.d EXCEPT !.inode[ino] = node])

read_inode(s, ino) == [s EXCEPT !.node = s.d.inode[ino]]
Returns(s, r) == [s EXCEPT !.r = r]

-----------------------------------------------------------------------------
(* Allocation.                                                             *)

(* Mutant: the bitmap keeps the block free.                                *)
alloc_block_NotMarked(s) ==
    LET free == {b \in FsBlocks : ~s.d.bitmap[b]} IN
    IF free = {} THEN Returns(s, 0)
    ELSE LET b == Min(free) IN Returns(write_block(s, b, ZeroBlock), b)

(* The first free block, marked used and then zeroed.                      *)
alloc_block(s) ==
    LET free == {b \in FsBlocks : ~s.d.bitmap[b]} IN
    IF free = {} THEN Returns(s, 0)
    ELSE LET b == Min(free) IN
         Returns(write_block(write_bitmap(s, b, TRUE), b, ZeroBlock), b)

free_block(s, b) == IF b = 0 THEN s ELSE write_bitmap(s, b, FALSE)

alloc_inode(d) ==
    LET free == {i \in Inodes \ {ROOT_INODE} : d.inode[i].kind = T_FREE} IN
    IF free = {} THEN 0 ELSE Min(free)

(* A pointer of the index block blk, allocated on demand.                  *)
SetPointer(a, iblk, blk, slot) ==
    IF a.r = 0 THEN a ELSE write_block(a, iblk, [blk EXCEPT ![slot] = Cell("", a.r)])

indirect_slot(s, iblk, slot, alloc) ==
    LET blk == s.d.data[iblk] IN
    IF blk[slot].v # 0 \/ ~alloc THEN Returns(s, blk[slot].v)
    ELSE SetPointer(alloc_block(s), iblk, blk, slot)

InMiddle(mid, slot, alloc) ==
    IF mid.r = 0 THEN mid ELSE indirect_slot(mid, mid.r, slot, alloc)

(* From the pointer a.r of the inode to the block of block index at.       *)
Follow(a, at, alloc) ==
    LET bi == at - NDIRECT - CELLS IN
    IF a.r = 0 THEN a
    ELSE IF at < NDIRECT THEN [a EXCEPT !.node.direct[at] = a.r]
    ELSE IF at < NDIRECT + CELLS
    THEN indirect_slot([a EXCEPT !.node.indirect = a.r], a.r, at - NDIRECT, alloc)
    ELSE InMiddle(indirect_slot([a EXCEPT !.node.double_indirect = a.r], a.r, bi \div CELLS, alloc),
                  bi % CELLS, alloc)

(* The block of the file's block index at: direct, through the indirect    *)
(* block, or through the double-indirect one.  The pointers of the inode   *)
(* change in memory only: the caller writes the inode.                     *)
block_for(s, at, alloc) ==
    LET held == IF at < NDIRECT THEN s.node.direct[at]
                ELSE IF at < NDIRECT + CELLS THEN s.node.indirect
                ELSE s.node.double_indirect
    IN  IF at >= NDIRECT + CELLS + CELLS * CELLS THEN Returns(s, 0)
        ELSE Follow(IF held = 0 /\ alloc THEN alloc_block(s) ELSE Returns(s, held), at, alloc)

(* The blocks an index block points at, then the block itself.             *)
free_indirect(s, iblk) ==
    IF iblk = 0 THEN s
    ELSE LET blk == s.d.data[iblk]
             ptrs == [c \in 1 .. CELLS |-> blk[c - 1].v]
         IN  free_block(FoldLeft(free_block, s, ptrs), iblk)

free_all_blocks(s, node) ==
    LET direct == [i \in 1 .. NDIRECT |-> node.direct[i - 1]]
        blk == IF node.double_indirect = 0 THEN ZeroBlock ELSE s.d.data[node.double_indirect]
        mids == [c \in 1 .. CELLS |-> blk[c - 1].v]
        s1 == free_indirect(FoldLeft(free_block, s, direct), node.indirect)
    IN  free_block(FoldLeft(free_indirect, s1, mids), node.double_indirect)

-----------------------------------------------------------------------------
(* Directories: only direct blocks are searched, and a cleared slot is     *)
(* never used again.                                                       *)

(* The dirents in the order the scans meet them: <<block, cell>>.          *)
DirentsIn(blks, size) ==
    [k \in 1 .. Min({size, Len(blks) * CELLS}) |-> <<blks[(k - 1) \div CELLS + 1], (k - 1) % CELLS>>]

DirSlots(d, ino) ==
    LET node == d.inode[ino] IN
    DirentsIn(SelectSeq([i \in 1 .. NDIRECT |-> node.direct[i - 1]], LAMBDA b : b # 0), node.size)

Dirent(d, at) == d.data[at[1]][at[2]]

is_dir(d, ino) == d.inode[ino].kind = T_DIR
is_file(d, ino) == d.inode[ino].kind = T_FILE

(* The first live entry for name, in scan order.                           *)
FindNamed(d, entries, name) ==
    LET at == {k \in 1 .. Len(entries) :
                 Dirent(d, entries[k]).v # 0 /\ Dirent(d, entries[k]).name = name}
    IN  IF at = {} THEN 0 ELSE Dirent(d, entries[Min(at)]).v

dir_lookup(d, ino, name) ==
    IF is_dir(d, ino) THEN FindNamed(d, DirSlots(d, ino), name) ELSE 0

namei(d, path) ==
    FoldLeft(LAMBDA ino, comp : IF ino = 0 THEN 0 ELSE dir_lookup(d, ino, comp), ROOT_INODE, path)

(* "." is dropped and ".." takes the last component off, if there is one.  *)
resolve(dir, path) ==
    FoldLeft(LAMBDA out, comp : IF comp = "." THEN out
                                ELSE IF comp # ".." THEN Append(out, comp)
                                ELSE IF out = <<>> THEN out ELSE Front(out),
             <<>>, IF path.absolute THEN path.comps ELSE dir \o path.comps)

(* The parent's inode, 0 if the parent is no directory, and the last name. *)
split_parent(d, path) ==
    LET pino == IF path = <<>> THEN ROOT_INODE ELSE namei(d, Front(path)) IN
    [pino |-> IF pino # 0 /\ is_dir(d, pino) THEN pino ELSE 0,
     name |-> IF path = <<>> THEN "" ELSE Last(path)]

(* The entries list_dir returns.                                           *)
list_dir(d, ino) ==
    {Dirent(d, at).name : at \in {x \in Range(DirSlots(d, ino)) : Dirent(d, x).v # 0}}

dir_is_empty(d, ino) == list_dir(d, ino) = {}

(* Appends a dirent; result 1, or 0 when the directory or the disk is full.*)
LinkAt(b, at, pino, cell) ==
    LET linked == write_block(b, b.r, [b.d.data[b.r] EXCEPT ![at % CELLS] = cell]) IN
    IF b.r = 0 THEN b
    ELSE Returns(write_inode(linked, pino, [linked.node EXCEPT !.size = @ + 1]), 1)

dir_link(s0, pino, name, ino) ==
    LET s == read_inode(s0, pino)
        at == s.node.size
    IN  IF at \div CELLS >= NDIRECT THEN Returns(s, 0)
        ELSE LinkAt(block_for(s, at \div CELLS, TRUE), at, pino, Cell(name, ino))

ClearAt(s, x) ==
    Returns(write_block(s, x[1], [s.d.data[x[1]] EXCEPT ![x[2]] = Cell("", 0)]), 1)

ClearNamed(s, entries, cell) ==
    LET at == {k \in 1 .. Len(entries) : Dirent(s.d, entries[k]) = cell} IN
    IF at = {} THEN Returns(s, 0) ELSE ClearAt(s, entries[Min(at)])

clear_dirent(s, pino, ino, name) ==
    ClearNamed(s, DirSlots(s.d, pino), Cell(name, ino))

-----------------------------------------------------------------------------
(* The operations.  The result is an inode, a count or 1, and 0 on failure.*)

alloc_node(s, kind) ==
    LET ino == alloc_inode(s.d) IN
    IF ino = 0 THEN Returns(s, 0)
    ELSE Returns(write_inode(s, ino, [empty_inode EXCEPT !.kind = kind]), ino)

(* A fresh inode under name, released again when it cannot be linked.      *)
Linked(l, ino) ==
    IF l.r = 0 THEN Returns(write_inode(l, ino, empty_inode), 0) ELSE Returns(l, ino)

LinkNode(a, pino, name) ==
    IF a.r = 0 THEN a ELSE Linked(dir_link(a, pino, name, a.r), a.r)

NewEntry(s, pino, name, kind) == LinkNode(alloc_node(s, kind), pino, name)

create(d, name) ==
    IF dir_lookup(d, ROOT_INODE, name) # 0 THEN Begin(d)
    ELSE NewEntry(Begin(d), ROOT_INODE, name, T_FILE)

MakeIn(d, p) ==
    IF p.pino = 0 \/ p.name = "" THEN Begin(d)
    ELSE IF dir_lookup(d, p.pino, p.name) # 0 THEN Begin(d)
    ELSE NewEntry(Begin(d), p.pino, p.name, T_DIR)

mkdir(d, path) == MakeIn(d, split_parent(d, path))

(* The blocks, then the inode, then the name.                              *)
FreeEntry(s, pino, ino, name) ==
    clear_dirent(write_inode(free_all_blocks(s, s.d.inode[ino]), ino, empty_inode), pino, ino, name)

RemoveDir(d, p, ino) ==
    IF ino \in {0, ROOT_INODE} THEN Begin(d)
    ELSE IF ~is_dir(d, ino) \/ ~dir_is_empty(d, ino) \/ p.pino = 0 \/ p.name = "" THEN Begin(d)
    ELSE FreeEntry(Begin(d), p.pino, ino, p.name)

rmdir(d, path) == RemoveDir(d, split_parent(d, path), namei(d, path))

RemoveFile(d, p, ino) ==
    IF p.pino = 0 \/ p.name = "" THEN Begin(d)
    ELSE IF ino = 0 THEN Begin(d)
    ELSE IF ~is_file(d, ino) THEN Begin(d)
    ELSE FreeEntry(Begin(d), p.pino, ino, p.name)

Unlinked(d, p) == RemoveFile(d, p, IF p.pino = 0 THEN 0 ELSE dir_lookup(d, p.pino, p.name))

unlink(d, path) == Unlinked(d, split_parent(d, path))

(* What a rename is asked to do, [ok |-> FALSE] when it is refused.        *)
RenameInodes(d, sp, dp, ino, dino) ==
    [ok |-> ino # 0 /\ dp.pino # 0 /\ dp.name # ""
            /\ IF dino \in {0, ino} THEN TRUE ELSE is_file(d, dino),
     sp |-> sp, dp |-> dp, ino |-> ino, dino |-> dino]

RenameIn(d, sp, dp) ==
    RenameInodes(d, sp, dp, IF sp.pino = 0 THEN 0 ELSE dir_lookup(d, sp.pino, sp.name),
                            IF dp.pino = 0 THEN 0 ELSE dir_lookup(d, dp.pino, dp.name))

RenameArgs(d, src, dst) == RenameIn(d, split_parent(d, src), split_parent(d, dst))

(* The disk without the destination a rename replaces.                     *)
Replaced(d, a) ==
    IF a.dino = 0 THEN Begin(d) ELSE FreeEntry(Begin(d), a.dp.pino, a.dino, a.dp.name)

(* Mutant: the old name goes before the new one is linked.                 *)
Move_UnlinksFirst(d, a) ==
    dir_link(clear_dirent(Replaced(d, a), a.sp.pino, a.ino, a.sp.name),
             a.dp.pino, a.dp.name, a.ino)

ClearOld(l, a) == IF l.r = 0 THEN l ELSE clear_dirent(l, a.sp.pino, a.ino, a.sp.name)

(* An existing destination is freed first, then the new name is linked,    *)
(* and then the old one cleared.                                           *)
Move(d, a) == ClearOld(dir_link(Replaced(d, a), a.dp.pino, a.dp.name, a.ino), a)

Renamed(d, a) ==
    IF ~a.ok THEN Begin(d) ELSE IF a.dino = a.ino THEN Returns(Begin(d), 1) ELSE Move(d, a)

rename(d, src, dst) == Renamed(d, RenameArgs(d, src, dst))

(* The boot demo's removal from the root directory: only the first block   *)
(* is read, but all the entries are scanned, and past the block the slice  *)
(* is out of range.                                                        *)
ClearFirst(s, first, entries, cell) ==
    LET at == {c \in 0 .. Min({entries, CELLS}) - 1 : s.d.data[first][c] = cell} IN
    IF at = {} THEN [s |-> s, panics |-> entries > CELLS]
    ELSE [s |-> ClearAt(s, <<first, Min(at)>>), panics |-> FALSE]

DeleteNode(d, name, ino) ==
    LET root == d.inode[ROOT_INODE] IN
    IF ino = 0 THEN [s |-> Begin(d), panics |-> FALSE]
    ELSE ClearFirst(write_inode(free_all_blocks(Begin(d), d.inode[ino]), ino, empty_inode),
                    root.direct[0], root.size, Cell(name, ino))

delete(d, name) == DeleteNode(d, name, dir_lookup(d, ROOT_INODE, name))

(* One block of a write: the cells of data that fall into block index bi.  *)
FillBlock(b, from, data) ==
    IF b.r = 0 THEN b
    ELSE write_block(b, b.r, [c \in 0 .. CELLS - 1 |->
             IF from + c \in 1 .. Len(data) THEN Cell("", data[from + c]) ELSE b.d.data[b.r][c]])

WriteBlock(s, bi, offset, data) ==
    FillBlock(block_for(s, bi, TRUE), bi * CELLS - offset + 1, data)

(* Block after block until one cannot be had, then the inode.              *)
WroteBlock(w, s, bi) == [s |-> s, stop |-> s.r = 0, to |-> IF s.r = 0 THEN w.to ELSE bi + 1]

WriteNode(s, ino, offset, done) ==
    Returns(write_inode(s, ino, [s.node EXCEPT !.size = Max({@, offset + done})]), done)

EndWrite(w, ino, offset, n) ==
    WriteNode(w.s, ino, offset,
              IF w.to = offset \div CELLS THEN 0 ELSE Min({w.to * CELLS - offset, n}))

write_at(d, ino, offset, data) ==
    LET first == offset \div CELLS
        last == (offset + Len(data) - 1) \div CELLS
        Step(w, bi) == IF w.stop THEN w ELSE WroteBlock(w, WriteBlock(w.s, bi, offset, data), bi)
    IN  EndWrite(FoldLeft(Step, [s |-> read_inode(Begin(d), ino), stop |-> FALSE, to |-> first],
                          [k \in 1 .. last - first + 1 |-> first + k - 1]),
                 ino, offset, Len(data))

(* The n cells from offset, cut short at the end of file or at a hole.     *)
read_at(d, ino, offset, n) ==
    LET want == {o \in offset .. offset + n - 1 : o < d.inode[ino].size}
        blk(o) == block_for(read_inode(Begin(d), ino), o \div CELLS, FALSE).r
        got == {o \in want : \A p \in want : p <= o => blk(p) # 0}
    IN  [k \in 1 .. Cardinality(got) |-> d.data[blk(offset + k - 1)][(offset + k - 1) % CELLS].v]

truncate(d, ino) == write_inode(Begin(d), ino, [d.inode[ino] EXCEPT !.size = 0])

-----------------------------------------------------------------------------
(* The image mkfs builds: blocks and inodes are handed out in order.       *)

MkBlocks(m, n) == [k \in 1 .. n |-> m.next_data + k - 1]
MkUsed(m, n) ==
    [m EXCEPT !.d.bitmap = [b \in FsBlocks |-> @[b] \/ b \in m.next_data .. m.next_data + n - 1],
              !.next_data = @ + n]

(* A directory: an inode and its first block.                              *)
alloc_dir(m, path) ==
    LET m1 == MkUsed(m, 1) IN
    [m1 EXCEPT !.next_ino = @ + 1,
               !.dirs = Append(@, [path |-> path, ino |-> m.next_ino,
                                   blocks |-> MkBlocks(m, 1), len |-> 0])]

DirAt(m, path) == {i \in 1 .. Len(m.dirs) : m.dirs[i].path = path}

(* A dirent in the directory numbered di, which grows when it is full.     *)
GrowDir(m, di) ==
    IF m.dirs[di].len \div CELLS < Len(m.dirs[di].blocks) THEN m
    ELSE [MkUsed(m, 1) EXCEPT !.dirs[di].blocks = @ \o MkBlocks(m, 1)]

PutDirent(m, di, cell) ==
    LET dir == m.dirs[di] IN
    [m EXCEPT !.d.data[dir.blocks[dir.len \div CELLS + 1]][dir.len % CELLS] = cell,
              !.dirs[di].len = @ + 1]

MkLink(m, di, name, ino) == PutDirent(GrowDir(m, di), di, Cell(name, ino))

(* The directories above path, made where they are missing.                *)
MkParent(m, dir) ==
    IF DirAt(m, dir) # {} THEN m
    ELSE MkLink(alloc_dir(m, dir), Min(DirAt(m, Front(dir))), Last(dir), m.next_ino)

MkParents(m, path) ==
    FoldLeft(LAMBDA acc, k : MkParent(acc, SubSeq(path, 1, k)), m, [k \in 1 .. Len(path) - 1 |-> k])

(* A file's data blocks, in a row from next_data, and its inode.           *)
MkData(m, data, nb) ==
    [MkUsed(m, nb) EXCEPT !.next_ino = @ + 1,
       !.d.inode[m.next_ino].kind = T_FILE,
       !.d.inode[m.next_ino].size = Len(data),
       !.d.inode[m.next_ino].direct = [i \in 0 .. NDIRECT - 1 |-> IF i < nb THEN m.next_data + i ELSE 0],
       !.d.data = [b \in FsBlocks |->
           LET from == (b - m.next_data) * CELLS IN
           IF b \in m.next_data .. m.next_data + nb - 1
           THEN [c \in 0 .. CELLS - 1 |->
                   Cell("", IF from + c < Len(data) THEN data[from + c + 1] ELSE 0)]
           ELSE @[b]]]

(* An index block holding the pointers ptrs.                               *)
MkIndex(m, ptrs) ==
    [MkUsed(m, 1) EXCEPT !.d.data[m.next_data] =
        [c \in 0 .. CELLS - 1 |-> IF c < Len(ptrs) THEN Cell("", ptrs[c + 1]) ELSE Cell("", 0)]]

(* The tiers above the blocks the inode has no room for, as block_for      *)
(* finds them.                                                             *)
MkIndirect(m, ino, ptrs) ==
    IF ptrs = <<>> THEN m
    ELSE MkIndex([m EXCEPT !.d.inode[ino].indirect = m.next_data], ptrs)

MkDouble(m, ino, rest) ==
    LET chunks == (Len(rest) + CELLS - 1) \div CELLS
        Chunk(k) == SubSeq(rest, (k - 1) * CELLS + 1, Min({Len(rest), k * CELLS}))
    IN  IF rest = <<>> THEN m
        ELSE FoldLeft(LAMBDA acc, k : MkIndex(acc, Chunk(k)),
                      MkIndex([m EXCEPT !.d.inode[ino].double_indirect = m.next_data],
                              [k \in 1 .. chunks |-> m.next_data + k]),
                      [k \in 1 .. chunks |-> k])

(* A file: its data blocks, spread over the tiers, and its name.           *)
MkNode(m, f) ==
    LET nb == (Len(f.data) + CELLS - 1) \div CELLS
        blocks == MkBlocks(m, nb)
        first == SubSeq(blocks, NDIRECT + 1, Min({nb, NDIRECT + CELLS}))
        rest == SubSeq(blocks, NDIRECT + CELLS + 1, nb)
    IN  MkLink(MkDouble(MkIndirect(MkData(m, f.data, nb), m.next_ino, first), m.next_ino, rest),
               Min(DirAt(m, Front(f.path))), Last(f.path), m.next_ino)

MkFile(m, f) == MkNode(MkParents(m, f.path), f)

build_fs_image ==
    LET start == [d |-> BlankDisk, next_ino |-> ROOT_INODE, next_data |-> 1, dirs |-> <<>>]
        m == FoldLeft(MkFile, alloc_dir(start, <<>>), Staged)
        DirInode(dir) == [empty_inode EXCEPT !.kind = T_DIR, !.size = dir.len,
            !.direct = [i \in 0 .. NDIRECT - 1 |-> IF i < Len(dir.blocks) THEN dir.blocks[i + 1] ELSE 0]]
    IN  FoldLeft(LAMBDA d, dir : [d EXCEPT !.inode[dir.ino] = DirInode(dir)], m.d, m.dirs)

-----------------------------------------------------------------------------
(* Who points at a block.                                                  *)

Live(d) == {i \in Inodes : d.inode[i].kind # T_FREE}

(* Where block b is pointed at from: an inode and a path of pointers.      *)
PointersTo(d, i, b) ==
    LET node == d.inode[i]
        ind == node.indirect
        dbl == node.double_indirect
        Slots(iblk, v) == IF iblk = 0 THEN {} ELSE {c \in DOMAIN ZeroBlock : d.data[iblk][c].v = v}
        mids == IF dbl = 0 THEN {} ELSE {c \in DOMAIN ZeroBlock : d.data[dbl][c].v # 0}
    IN  {<<"direct", k>> : k \in {k \in DOMAIN node.direct : node.direct[k] = b}}
        \cup {<<"index", 0>> : x \in {ind} \cap {b}} \cup {<<"index", 1>> : x \in {dbl} \cap {b}}
        \cup {<<"indirect", c>> : c \in Slots(ind, b)}
        \cup {<<"middle", c>> : c \in Slots(dbl, b)}
        \cup UNION {{<<"double", c, e>> : e \in Slots(d.data[dbl][c].v, b)} : c \in mids}

Owners(d, b) == UNION {{<<i, at>> : at \in PointersTo(d, i, b)} : i \in Live(d)}

-----------------------------------------------------------------------------
NoFd == [ino |-> 0]
NoMove == [ino |-> 0]
NoOp == [freed |-> {}, move |-> NoMove, after |-> <<>>]

(* The data cells a value is known for: offset to value.                   *)
Nothing == [o \in {} |-> 0]
Cells(offset, data) == [o \in offset .. offset + Len(data) - 1 |-> data[o - offset + 1]]

FsInit ==
    /\ media = build_fs_image
    /\ pending = <<>>
    /\ cur = NoOp
    /\ fd = NoFd
    /\ cwd = <<>>
    /\ known = [i \in Inodes |->
                  LET f == {k \in 1 .. Len(Staged) : namei(media, Staged[k].path) = i} IN
                  IF f = {} THEN Nothing ELSE Cells(0, Staged[Min(f)].data)]
    /\ crashed = FALSE /\ torn = {} /\ doubled = {} /\ damage = {}
    /\ ops = 0

(* The operation s begins: it frees the inodes in freed and changes what   *)
(* is known to during, and once all of it is on the disk to after.         *)
Run(s, freed, move, during, after) ==
    /\ pending' = s.t
    /\ cur' = [freed |-> freed, move |-> move, after |-> after]
    /\ known' = IF s.t = <<>> THEN after ELSE during
    /\ ops' = ops + 1
    /\ UNCHANGED <<media, crash_vars>>

(* A call can be made: the previous one has returned, and the kernel has   *)
(* not panicked.                                                           *)
Ready == pending = <<>> /\ ops < MaxOps /\ "panic" \notin damage
Damaged(what, if) == damage' = IF if THEN damage \cup {what} ELSE damage

(* An operation that changes nobody's data.                                *)
Keeps(s) == Run(s, {}, NoMove, known, known)

(* An operation that frees the inode ino, if it succeeds.  A descriptor    *)
(* open on it stays open.                                                  *)
Frees(s, ino, move) ==
    LET freed == IF s.t = <<>> \/ ino = 0 THEN {} ELSE {ino}
        left == [i \in Inodes |-> IF i \in freed THEN Nothing ELSE known[i]]
    IN  /\ Run(s, freed, move, left, left)
        /\ fd' = IF fd.ino \in freed THEN [fd EXCEPT !.stale = TRUE] ELSE fd

sys_mkdir(p) ==
    /\ Ready
    /\ Keeps(mkdir(media, resolve(cwd, p)))
    /\ UNCHANGED <<fd, cwd, damage>>

sys_rmdir(p) ==
    /\ Ready
    /\ LET path == resolve(cwd, p) IN Frees(rmdir(media, path), namei(media, path), NoMove)
    /\ UNCHANGED <<cwd, damage>>

sys_unlink(p) ==
    /\ Ready
    /\ LET path == resolve(cwd, p) IN Frees(unlink(media, path), namei(media, path), NoMove)
    /\ UNCHANGED <<cwd, damage>>

(* Moving a directory below itself cuts it off.                            *)
sys_rename(p, q) ==
    LET src == resolve(cwd, p)
        dst == resolve(cwd, q)
        a == RenameArgs(media, src, dst)
    IN  /\ Ready
        /\ Frees(rename(media, src, dst), IF a.ok /\ a.dino # a.ino THEN a.dino ELSE 0,
                 IF a.ok THEN a ELSE NoMove)
        /\ Damaged("loop", a.ok /\ a.dino # a.ino /\ IsStrictPrefix(src, dst))
        /\ UNCHANGED cwd

(* run_demo, after a boot: no program has a file open yet.  It deletes     *)
(* files, which it has just created.                                       *)
DemoDelete(name) ==
    /\ Ready
    /\ fd = NoFd
    /\ cwd = <<>>
    /\ LET ino == dir_lookup(media, ROOT_INODE, name) IN IF ino = 0 THEN FALSE ELSE is_file(media, ino)
    /\ LET x == delete(media, name) IN
       /\ Frees(x.s, dir_lookup(media, ROOT_INODE, name), NoMove)
       /\ Damaged("panic", x.panics)
    /\ UNCHANGED cwd

sys_chdir(p) ==
    LET path == resolve(cwd, p)
        ino == namei(media, path)
    IN  /\ Ready
        /\ IF ino = 0 THEN FALSE ELSE is_dir(media, ino)
        /\ cwd' = path
        /\ Keeps(Begin(media))
        /\ UNCHANGED <<fd, damage>>

Open(ino, offset, writable) ==
    [ino |-> ino, offset |-> offset, writable |-> writable, stale |-> FALSE]

open_read(p) ==
    LET ino == namei(media, resolve(cwd, p)) IN
    /\ Ready
    /\ fd = NoFd
    /\ IF ino = 0 THEN FALSE ELSE is_file(media, ino)
    /\ fd' = Open(ino, 0, FALSE)
    /\ Keeps(Begin(media))
    /\ UNCHANGED <<cwd, damage>>

(* An existing file is truncated unless appended to; a missing one is      *)
(* created, in the root directory only.                                    *)
open_write(p, append) ==
    LET path == resolve(cwd, p)
        ino == namei(media, path)
        c == create(media, path[1])
    IN  /\ Ready
        /\ fd = NoFd
        /\ IF ino # 0
           THEN /\ is_file(media, ino)
                /\ fd' = Open(ino, IF append THEN media.inode[ino].size ELSE 0, TRUE)
                /\ IF append THEN Keeps(Begin(media))
                   ELSE LET left == [known EXCEPT ![ino] = Nothing] IN
                        Run(truncate(media, ino), {}, NoMove, left, left)
           ELSE /\ Len(path) = 1
                /\ fd' = IF c.r = 0 THEN NoFd ELSE Open(c.r, 0, TRUE)
                /\ Keeps(c)
        /\ UNCHANGED <<cwd, damage>>

(* Writing through a descriptor whose inode was freed meanwhile goes to    *)
(* whatever the inode is now.                                              *)
write(data) ==
    LET w == write_at(media, fd.ino, fd.offset, data)
        new == Cells(fd.offset, SubSeq(data, 1, w.r))
        old == [o \in DOMAIN known[fd.ino] \ (fd.offset .. fd.offset + Len(data) - 1)
                  |-> known[fd.ino][o]]
    IN  /\ Ready
        /\ fd # NoFd
        /\ fd.writable
        /\ Run(w, {}, NoMove, [known EXCEPT ![fd.ino] = old], [known EXCEPT ![fd.ino] = old @@ new])
        /\ fd' = [fd EXCEPT !.offset = @ + w.r]
        /\ Damaged("stale fd", fd.stale)
        /\ UNCHANGED cwd

read(n) ==
    /\ Ready
    /\ fd # NoFd
    /\ ~fd.writable
    /\ fd' = [fd EXCEPT !.offset = @ + Len(read_at(media, fd.ino, @, n))]
    /\ Keeps(Begin(media))
    /\ UNCHANGED <<cwd, damage>>

seek(to) ==
    /\ Ready
    /\ fd # NoFd
    /\ fd' = [fd EXCEPT !.offset = to]
    /\ Keeps(Begin(media))
    /\ UNCHANGED <<cwd, damage>>

close ==
    /\ Ready
    /\ fd # NoFd
    /\ fd' = NoFd
    /\ Keeps(Begin(media))
    /\ UNCHANGED <<cwd, damage>>

(* The next block write of the running operation reaches the disk.  A      *)
(* block whose bit a cut-short unlink cleared may get a second owner.      *)
BlockReachesDisk ==
    /\ pending # <<>>
    /\ media' = Head(pending)
    /\ pending' = Tail(pending)
    /\ known' = IF Len(pending) = 1 THEN cur.after ELSE known
    /\ Damaged("shared block", torn # {} /\ \E b \in FsBlocks : Cardinality(Owners(media', b)) > 1)
    /\ UNCHANGED <<cur, fd, cwd, crash_vars, ops>>

(* The machine stops between two writes, once in a behaviour, and mounts   *)
(* the disk again: memory is gone, check_superblock finds the layout       *)
(* unchanged, and programs go on from there.                               *)
Crash ==
    /\ pending # <<>>
    /\ ~crashed
    /\ crashed' = TRUE
    /\ torn' = cur.freed
    /\ doubled' = {cur.move.ino} \ {0}
    /\ pending' = <<>>
    /\ fd' = NoFd
    /\ cwd' = <<>>
    /\ UNCHANGED <<media, cur, known, damage, ops>>

FsNext ==
    \/ \E p \in Paths : \/ sys_mkdir(p) \/ sys_rmdir(p) \/ sys_unlink(p) \/ sys_chdir(p)
                        \/ open_read(p)
                        \/ \E q \in Paths : sys_rename(p, q)
                        \/ \E append \in BOOLEAN : open_write(p, append)
    \/ \E p \in Paths : Len(p.comps) = 1 /\ DemoDelete(p.comps[1])
    \/ \E data \in Datas : write(data)
    \/ \E to \in Offsets : seek(to)
    \/ read(CELLS)
    \/ close
    \/ BlockReachesDisk
    \/ Crash

FsSpec == FsInit /\ [][FsNext]_fs_vars

-----------------------------------------------------------------------------
(* Properties.                                                             *)

(* The inodes whose bits went first: being freed now, or when it crashed.  *)
HalfFreed == torn \cup IF pending = <<>> THEN {} ELSE cur.freed

(* The two structures say the same at every single block write, and after  *)
(* a crash at any of them: a block an inode points at, directly or through *)
(* index blocks, is marked used in the bitmap and pointed at once, so      *)
(* alloc_block can never hand it out again.  (The order of writes in       *)
(* alloc_block, indirect_slot, dir_link and write_at.)  The exception is   *)
(* the inode that unlink, rmdir or rename is freeing, whose bits go first: *)
(* after a crash in it the others stay sound while programs go on, until   *)
(* alloc_block hands out one of the blocks it still points at.             *)
BlocksSound ==
    "shared block" \notin damage =>
        \A b \in FsBlocks :
            LET own == {x \in Owners(media, b) : x[1] \notin HalfFreed} IN
            Cardinality(own) <= 1 /\ (own # {} => media.bitmap[b])

(* "Allocate a free data block": no block ever has two owners.  It has,    *)
(* after a crash in an unlink.                                             *)
AllocatesFree == "shared block" \notin damage

(* No block is lost: with no operation under way and no crash behind, a    *)
(* block marked used is pointed at.  Full disks, full directories and      *)
(* refused operations included (the releases of create and mkdir, the      *)
(* partly done write_at).  A write through a descriptor whose file was     *)
(* unlinked loses its blocks.                                              *)
BlocksConserved ==
    pending = <<>> /\ ~crashed /\ "stale fd" \notin damage =>
        \A b \in FsBlocks : media.bitmap[b] => Owners(media, b) # {}

(* Between operations every live inode but the root is named by one entry, *)
(* and no entry names a free one; a crash that cuts a creation may leave   *)
(* an inode without a name, and one that cuts an unlink or a rename leaves *)
(* the inode it was about with a name too many, and only that one.         *)
Names(ino) ==
    UNION {{<<i, at>> : at \in {x \in Range(DirSlots(media, i)) : Dirent(media, x).v = ino}} :
             i \in {i \in Live(media) : is_dir(media, i)}}

NamespaceSound ==
    pending = <<>> /\ damage \cap {"shared block", "stale fd"} = {} =>
        \A ino \in Inodes \ (torn \cup doubled) :
            IF ino \in Live(media) \ {ROOT_INODE}
            THEN Cardinality(Names(ino)) <= 1 /\ (~crashed => Names(ino) # {})
            ELSE Names(ino) = {}

(* The directories form a tree: what is live can be reached from the root, *)
(* unless a crash cut it off or rename moved a directory below itself.     *)
Below(found) ==
    {Dirent(media, at).v : at \in UNION {Range(DirSlots(media, i)) : i \in {i \in found : is_dir(media, i)}}}
    \ {0}
Reachable == FoldLeft(LAMBDA found, k : found \cup Below(found), {ROOT_INODE}, [k \in Inodes |-> k])

TreeSound == pending = <<>> /\ ~crashed /\ damage = {} => Live(media) = Reachable

(* "Works for files and directories": what rename moved can be reached.    *)
(* A directory moved to a place below itself cannot.                       *)
RenamedReachable ==
    pending = <<>> /\ cur.move # NoMove /\ ~crashed /\ damage \subseteq {"loop"} =>
        cur.move.ino \in Reachable

(* A file keeps its data: what mkfs staged and what write_at reported      *)
(* written reads back at its offset until it is overwritten, truncated or  *)
(* unlinked, through every tier of the block map, whatever is done to      *)
(* other files meanwhile and wherever a crash cuts it.  Not so the file    *)
(* whose unlink a crash cut short, and nothing once one of its blocks was  *)
(* given to another file or a write went through a descriptor whose file   *)
(* was unlinked.                                                           *)
ContentsKept ==
    damage \cap {"stale fd", "shared block"} = {} =>
        \A ino \in Inodes \ torn : \A o \in DOMAIN known[ino] :
            read_at(media, ino, o, 1) = <<known[ino][o]>>

(* rename never loses the file: at every block write of it, and after a    *)
(* crash at any, the inode is found under its old name or its new one.     *)
RenameKeepsFile ==
    LET m == cur.move IN
    m # NoMove => m.ino \in {dir_lookup(media, m.sp.pino, m.sp.name),
                             dir_lookup(media, m.dp.pino, m.dp.name)}

(* "Delete `name`: free its blocks + inode and clear its dirent": delete   *)
(* comes back, with the entry cleared.                                     *)
DeleteReturns == "panic" \notin damage

(* The on-disk structures are sound at every block write of every          *)
(* operation and after a crash at any, and stay so while programs go on,   *)
(* except for the inode the crash caught half freed or under two names:    *)
(* blocks used once and not lost, entries naming exactly the live inodes,  *)
(* and directories in a tree.                                              *)
FsSound == BlocksSound /\ BlocksConserved /\ NamespaceSound /\ TreeSound

(* What users rely on survives every operation and every crash: written    *)
(* data read back, and a renamed file is never without a name.             *)
FilesKept == ContentsKept /\ RenameKeepsFile

=============================================================================
