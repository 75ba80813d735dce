------------------------------- MODULE Memory -------------------------------
(***************************************************************************)
(* Physical frames and user address spaces (kernel/src/frames.rs,          *)
(* arch/x86_64/paging.rs, elf.rs, vm.rs and the fork, exec, brk, wait and  *)
(* fault paths of usermode.rs).  An address space is its PML4 frame; the   *)
(* four levels of tables are one table frame per region of TABLE_SPAN      *)
(* pages; a page's bytes are one value.  The loader, fork, brk and reap    *)
(* run with interrupts off and are one step each; the disk read of an exec *)
(* blocks, so other processes run between its two steps.                   *)
(***************************************************************************)
EXTENDS Naturals, FiniteSets, SequencesExt

CONSTANTS
    NFRAMES,     \* frames of physical memory
    Usable,      \* how many of them the boot loader's map calls usable
    MmPids,
    Images,      \* the programs kmain runs
    Execs,       \* the image and arguments of the execs from the disk tried
    StoreVas, BrkTargets, DmaRuns    \* the stores, brk requests and DMA runs tried

(* The layout: two image pages, a page for the stack and trampoline pages, *)
(* the brk heap and the demand-paged page kmain registers.                 *)
STACK_VA == 3
USER_HEAP_BASE == 4
LAZY_VA == 6
Vas == 1..LAZY_VA
TABLE_SPAN == 3
Region(v) == (v - 1) \div TABLE_SPAN
Regions == {Region(v) : v \in Vas}

Frames == 1..NFRAMES
NoFrame == 0
KERNEL == NFRAMES + 1               \* the boot address space: not a frame of the pool
NoPages == [v \in Vas |-> NoFrame]
NoTables == [r \in Regions |-> NoFrame]
None == "none"

VARIABLES
    ram,       \* the bitmap, the leaves and tables of every space, what frames hold
    task,      \* pid -> [state, pml4, brk, parent, elfbuf]
    running,   \* the pid on the CPU, or 0 for the boot context
    cr3,       \* LAST_PML4: the space loaded
    pfh,       \* the PageFaultHandler's state
    halted,    \* the kernel panicked or halted
    asked,     \* pid -> the image its exec asked for
    view       \* pid -> page -> what the process put there, for the properties
mm_vars == <<ram, task, running, cr3, pfh, halted, asked, view>>

-----------------------------------------------------------------------------
(* frames.rs.  A failed allocation is NoFrame; a frame nobody maps holds    *)
(* junk.                                                                   *)
FreeFrames(m) == Frames \ m.used
alloc_frame(m) == IF FreeFrames(m) = {} THEN NoFrame ELSE Min(FreeFrames(m))
Take(m, f) == [m EXCEPT !.used = @ \cup {f}]
free_frame(m, f) == [m EXCEPT !.used = @ \ {f}, !.holds[f] = "junk"]
alloc_contiguous(m, k) ==
    LET runs == {f \in Frames : f..(f + k - 1) \subseteq FreeFrames(m)}
    IN  IF k = 0 \/ runs = {} THEN m
        ELSE [m EXCEPT !.used = @ \cup Min(runs)..(Min(runs) + k - 1)]

-----------------------------------------------------------------------------
(* paging.rs.  An expect that fails leaves m.panicked set.                 *)
Panic(m) == [m EXCEPT !.panicked = TRUE]
next_table(m, p, r) ==
    IF m.panicked \/ m.table[p][r] # NoFrame THEN m
    ELSE IF alloc_frame(m) = NoFrame THEN Panic(m)
    ELSE [Take(m, alloc_frame(m)) EXCEPT !.table[p][r] = alloc_frame(m)]
map_in(m, p, v, f) ==
    LET t == next_table(m, p, Region(v))
    IN  IF t.panicked THEN t ELSE [t EXCEPT !.leaf[p][v] = f]
unmap(m, active, v) ==
    IF m.table[active][Region(v)] = NoFrame THEN m
    ELSE [m EXCEPT !.leaf[active][v] = NoFrame,
                   !.holds = [f \in Frames |-> IF f = m.leaf[active][v] THEN "junk" ELSE @[f]]]
new_space(m) ==
    LET f == alloc_frame(m)
    IN  IF f = NoFrame THEN Panic(m)
        ELSE [Take(m, f) EXCEPT !.leaf[f] = NoPages, !.table[f] = NoTables]

Mapped(m, p) == SetToSortSeq({v \in Vas : m.leaf[p][v] # NoFrame}, <)
fork_space(m, parent) ==
    LET child == alloc_frame(m)
        copy(n, v) ==
            LET f == alloc_frame(n)
            IN  IF n.panicked THEN n
                ELSE IF f = NoFrame THEN Panic(n)
                ELSE map_in([Take(n, f) EXCEPT !.holds[f] = n.holds[n.leaf[parent][v]]],
                            child, v, f)
    IN  FoldLeft(copy, new_space(m), Mapped(m, parent))
FramesOf(m, p) ==
    ({m.leaf[p][v] : v \in Vas} \cup {m.table[p][r] : r \in Regions} \cup {p}) \ {NoFrame}
(* A space no TCB names any more: its frames stay used, its pages are junk.*)
Abandon(m, p) ==
    [m EXCEPT !.leaf[p] = NoPages, !.table[p] = NoTables,
              !.holds = [f \in Frames |-> IF f \in FramesOf(m, p) THEN "junk" ELSE @[f]]]
free_space(m, p) == [Abandon(m, p) EXCEPT !.used = @ \ FramesOf(m, p)]

-----------------------------------------------------------------------------
(* elf.rs and the ElfLoader: an image is the page list its PT_LOAD headers *)
(* name, a page whose file range lies outside the file ends the load.      *)
Header(img) == img \notin {"short", "bad_magic"}
Segments(img) ==
    CASE img = "sh"      -> <<[va |-> 1, inside |-> TRUE]>>
      [] img = "cc"      -> <<[va |-> 1, inside |-> TRUE], [va |-> 2, inside |-> TRUE]>>
      [] img = "corrupt" -> <<[va |-> 1, inside |-> TRUE], [va |-> 2, inside |-> FALSE]>>
      [] OTHER           -> <<>>

(* One page: allocate, fill, map in the new space, remember for rollback.  *)
load_page(l, p, v, byte, inside) ==
    LET f == alloc_frame(l.m)
        m == [Take(l.m, f) EXCEPT !.holds[f] = byte]
    IN  IF ~l.ok \/ l.m.panicked THEN l
        ELSE IF f = NoFrame \/ ~inside THEN [l EXCEPT !.ok = FALSE]
        ELSE [l EXCEPT !.m = map_in(m, p, v, f), !.mapped = Append(@, <<v, f>>)]
map_segments(l, p, img) ==
    FoldLeft(LAMBDA a, s : load_page(a, p, s.va, img, s.inside), l, Segments(img))
build_stack(l, p) == load_page(l, p, STACK_VA, "zero", TRUE)

(* The rollback unmaps the pages in the ACTIVE space and frees the frames. *)
cleanup(m, active, mapped) ==
    FoldLeft(LAMBDA n, e : free_frame(unmap(n, active, e[1]), e[2]), m, mapped)

ElfLoader(m, p, active, img) ==
    LET none == [m |-> m, ok |-> Header(img), mapped |-> <<>>]
        l == build_stack(map_segments(none, p, img), p)
    IN  IF l.ok THEN l ELSE [l EXCEPT !.m = Abandon(cleanup(l.m, active, l.mapped), p)]
(* An exec in flight: the image and the arguments it asked for.  What its  *)
(* process then finds: the image, and the arguments or an empty stack.     *)
NoExec == [img |-> None, argv |-> None]
StackPage(e) == IF e.argv = None THEN "zero" ELSE e.argv
Loaded(e) ==
    [v \in Vas |-> CASE v = STACK_VA -> StackPage(e)
                     [] \E i \in 1..Len(Segments(e.img)) : Segments(e.img)[i].va = v -> e.img
                     [] OTHER -> None]

-----------------------------------------------------------------------------
NoTask == [state |-> "free", pml4 |-> KERNEL, brk |-> USER_HEAP_BASE, parent |-> 0,
           elfbuf |-> NoExec]
Unknown == [v \in Vas |-> None]

MmInit ==
    /\ \E n \in Usable :
       ram = [used |-> (n + 1)..NFRAMES, panicked |-> FALSE, holds |-> [f \in Frames |-> "junk"],
              leaf |-> [p \in Frames \cup {KERNEL} |-> NoPages],
              table |-> [p \in Frames \cup {KERNEL} |-> NoTables]]
    /\ task = [p \in MmPids |-> NoTask]
    /\ running = 0 /\ cr3 = KERNEL
    /\ pfh = "Classifying" /\ halted = FALSE
    /\ asked = [p \in MmPids |-> NoExec] /\ view = [p \in MmPids |-> Unknown]

me == running
Live == {p \in MmPids : task[p].state # "free"}
InKernelFor(p) == ~halted /\ p # 0 /\ task[p].state = "ready"
OnCpu == InKernelFor(me) /\ task[me].elfbuf = NoExec
(* A step whose memory is m: the kernel stops where an expect failed.      *)
MmBecomes(m) == ram' = m /\ halted' = m.panicked

(* run_one: the boot context loads a baked program and admits it.          *)
run_one(p, img) ==
    LET pml4 == alloc_frame(ram)
        n == new_space(ram)
        l == ElfLoader(n, pml4, cr3, img)
    IN  /\ ~halted /\ running = 0 /\ Live = {} /\ p = Min(MmPids)
        /\ IF n.panicked THEN MmBecomes(n) /\ UNCHANGED <<task, view>>
           ELSE /\ MmBecomes(l.m)
                /\ IF l.ok /\ ~l.m.panicked
                   THEN /\ task' = [task EXCEPT ![p] = [NoTask EXCEPT !.state = "ready",
                                                                      !.pml4 = pml4]]
                        /\ view' = [view EXCEPT ![p] = Loaded([NoExec EXCEPT !.img = img])]
                   ELSE UNCHANGED <<task, view>>
        /\ UNCHANGED <<running, cr3, pfh, asked>>

(* schedule: the CPU goes to a ready process or back to the boot context,  *)
(* and CR3 is reloaded when the target space is another one.               *)
mm_schedule(p) ==
    LET target == IF p = 0 THEN KERNEL ELSE task[p].pml4
    IN  /\ ~halted /\ p # running
        /\ p # 0 => task[p].state = "ready"
        /\ p = 0 => \A q \in MmPids : task[q].state # "ready"
        /\ running' = p
        /\ cr3' = IF target # cr3 THEN target ELSE cr3
        /\ UNCHANGED <<ram, task, pfh, halted, asked, view>>

do_fork(child) ==
    LET m == fork_space(ram, cr3)
    IN  /\ OnCpu /\ task[child].state = "free"
        /\ child = Min({q \in MmPids : task[q].state = "free"
                           /\ \A r \in Live : task[r].parent # q})
        /\ MmBecomes(m)
        /\ IF m.panicked THEN UNCHANGED <<task, view>>
           ELSE /\ task' = [task EXCEPT ![child] = [NoTask EXCEPT !.state = "ready",
                        !.pml4 = alloc_frame(ram), !.brk = task[me].brk, !.parent = me]]
                /\ view' = [view EXCEPT ![child] = view[me]]
        /\ UNCHANGED <<running, cr3, pfh, asked>>

(* read_exec_elf: file and arguments are read into this exec's own buffers;*)
(* the read blocks: the process sleeps until its completion readies it.    *)
\* Mutant: one buffer for every exec in flight.
read_exec_elf_Shared(e) ==
    [q \in MmPids |-> IF q = me THEN [task[q] EXCEPT !.elfbuf = e, !.state = "blocked"]
                      ELSE IF task[q].elfbuf # NoExec THEN [task[q] EXCEPT !.elfbuf = e]
                      ELSE task[q]]
read_exec_elf(e) == [task EXCEPT ![me].elfbuf = e, ![me].state = "blocked"]
ExecReads(e) ==
    /\ OnCpu /\ task' = read_exec_elf(e) /\ asked' = [asked EXCEPT ![me] = e]
    /\ UNCHANGED <<ram, running, cr3, pfh, halted, view>>
do_exec_path(e) == e.argv = None /\ ExecReads(e)
do_exec_argv(e) == e.argv # None /\ ExecReads(e)
disk_wakes(p) ==
    /\ ~halted /\ task[p].state = "blocked"
    /\ task' = [task EXCEPT ![p].state = "ready"]
    /\ UNCHANGED <<ram, running, cr3, pfh, halted, asked, view>>

build_initial_stack(m, p, e) == [m EXCEPT !.holds[m.leaf[p][STACK_VA]] = StackPage(e)]
(* exec_image, exec_image_args: load into a fresh space; exec_into swaps   *)
(* the process onto it and abandons the old one, then the arguments go on  *)
(* the new stack.  A failed load returns to the caller.                    *)
exec_image(e, wanted) ==
    LET pml4 == alloc_frame(ram)
        n == new_space(ram)
        l == ElfLoader(n, pml4, cr3, e.img)
    IN  /\ IF n.panicked \/ l.m.panicked
           THEN MmBecomes(Panic(n)) /\ UNCHANGED <<task, cr3, view>>
           ELSE IF l.ok
           THEN /\ MmBecomes(build_initial_stack(Abandon(l.m, cr3), pml4, e))
                /\ task' = [task EXCEPT ![me].pml4 = pml4, ![me].elfbuf = NoExec,
                                        ![me].brk = USER_HEAP_BASE]
                /\ cr3' = pml4
                /\ view' = [view EXCEPT ![me] = Loaded(wanted)]
           ELSE /\ MmBecomes(l.m)
                /\ task' = [task EXCEPT ![me].elfbuf = NoExec]
                /\ UNCHANGED <<cr3, view>>
        /\ asked' = [asked EXCEPT ![me] = NoExec]
        /\ UNCHANGED <<running, pfh>>
(* A baked program is there at once; one from the disk once it is read.    *)
do_exec == LET hello == [img |-> "sh", argv |-> None] IN OnCpu /\ exec_image(hello, hello)
exec_resumes ==
    InKernelFor(me) /\ task[me].elfbuf # NoExec /\ exec_image(task[me].elfbuf, asked[me])

(* do_brk: grow page by page, rolled back when frames run out; shrink.     *)
unmap_range(m, active, lo, hi) ==
    LET drop(n, v) == IF n.leaf[active][v] = NoFrame THEN n
                      ELSE free_frame(unmap(n, active, v), n.leaf[active][v])
    IN  FoldLeft(drop, m, [i \in 1..(hi - lo) |-> lo + i - 1])
brk_page(g, active, v) ==
    LET f == alloc_frame(g.m)
    IN  IF ~g.ok \/ g.m.panicked THEN g
        ELSE IF f = NoFrame
             THEN [m |-> unmap_range(g.m, active, g.from, v), ok |-> FALSE, from |-> g.from]
        ELSE [g EXCEPT !.m = map_in([Take(g.m, f) EXCEPT !.holds[f] = "zero"], active, v, f)]
do_brk(target) ==
    LET cur == task[me].brk
        g == FoldLeft(LAMBDA a, v : brk_page(a, cr3, v),
                      [m |-> ram, ok |-> TRUE, from |-> cur],
                      [i \in 1..(IF target > cur THEN target - cur ELSE 0) |-> cur + i - 1])
        grown == {v \in Vas : cur <= v /\ v < target}
        cut == {v \in Vas : target <= v /\ v < cur}
    IN  /\ OnCpu /\ target # cur
        /\ MmBecomes(IF target > cur THEN g.m ELSE unmap_range(ram, cr3, target, cur))
        /\ IF target > cur /\ (~g.ok \/ g.m.panicked) THEN UNCHANGED <<task, view>>
           ELSE /\ task' = [task EXCEPT ![me].brk = target]
                /\ view' = [view EXCEPT ![me] = [v \in Vas |->
                      IF v \in grown THEN "zero" ELSE IF v \in cut THEN None ELSE @[v]]]
        /\ UNCHANGED <<running, cr3, pfh, asked>>

(* A user store: lands in the frame the page maps, or faults.              *)
Writable(v) == v # LAZY_VA /\ ram.leaf[cr3][v] # NoFrame
user_store(v) ==
    /\ OnCpu /\ Writable(v)
    /\ ram' = [ram EXCEPT !.holds[ram.leaf[cr3][v]] = "stored"]
    /\ view' = [view EXCEPT ![me][v] = "stored"]
    /\ UNCHANGED <<task, running, cr3, pfh, halted, asked>>

(* exit_current, from exit or from a fatal fault: the process is a zombie  *)
(* and keeps its space until it is reaped.                                 *)
exit_current == task' = [task EXCEPT ![me].state = "zombie"]
do_exit == OnCpu /\ exit_current /\ UNCHANGED <<ram, running, cr3, pfh, halted, asked, view>>

(* page_fault_handler: a lazy page is mapped and the access retried; a     *)
(* ring-3 fault kills the process; a kernel fault halts.                   *)
lazy_map(m, v) ==
    LET f == alloc_frame(m) IN IF f = NoFrame THEN m ELSE map_in(Take(m, f), cr3, v, f)
page_fault_handler(v) ==
    LET lazy == v = LAZY_VA /\ alloc_frame(ram) # NoFrame
    IN  /\ ~halted /\ pfh # "Fatal"
        /\ IF me = 0 THEN v = LAZY_VA /\ ram.leaf[cr3][v] = NoFrame ELSE OnCpu /\ ~Writable(v)
        /\ IF lazy
           THEN MmBecomes(lazy_map(ram, v)) /\ pfh' = "Classifying" /\ UNCHANGED task
           ELSE IF me # 0
           THEN pfh' = "Killing" /\ exit_current /\ UNCHANGED <<ram, halted>>
           ELSE pfh' = "Fatal" /\ halted' = TRUE /\ UNCHANGED <<ram, task>>
        /\ UNCHANGED <<running, cr3, asked, view>>

(* wait: a dead child of the caller is reaped and its space freed.         *)
reap_child(c) ==
    /\ OnCpu /\ task[c].state = "zombie" /\ task[c].parent = me
    /\ ram' = free_space(ram, task[c].pml4)
    /\ task' = [task EXCEPT ![c] = NoTask]
    /\ view' = [view EXCEPT ![c] = Unknown]
    /\ UNCHANGED <<running, cr3, pfh, halted, asked>>
(* run_one's own reap, when its program has left the CPU: the table slot   *)
(* is freed and the space is left behind.                                  *)
run_one_reaps(p) ==
    /\ ~halted /\ running = 0 /\ task[p].state = "zombie" /\ task[p].parent = 0
    /\ \A q \in MmPids : task[q].state \in {"free", "zombie"}
    /\ ram' = Abandon(ram, task[p].pml4)
    /\ task' = [task EXCEPT ![p] = NoTask]
    /\ view' = [view EXCEPT ![p] = Unknown]
    /\ UNCHANGED <<running, cr3, pfh, halted, asked>>

(* A driver takes a contiguous run for DMA, before any process exists.     *)
dma_alloc(k) ==
    /\ ~halted /\ running = 0 /\ Live = {} /\ 1 \notin ram.used
    /\ ram' = alloc_contiguous(ram, k) /\ UNCHANGED <<task, running, cr3, pfh, halted, asked, view>>

MmNext ==
    \/ \E k \in DmaRuns : dma_alloc(k)
    \/ \E p \in MmPids, img \in Images : run_one(p, img)
    \/ \E p \in MmPids \cup {0} : mm_schedule(p)
    \/ \E c \in MmPids : do_fork(c) \/ reap_child(c) \/ disk_wakes(c) \/ run_one_reaps(c)
    \/ do_exec \/ exec_resumes
    \/ \E e \in Execs : do_exec_path(e) \/ do_exec_argv(e)
    \/ \E t \in BrkTargets : do_brk(t)
    \/ \E v \in StoreVas : user_store(v)
    \/ do_exit
    \/ \E v \in Vas : page_fault_handler(v)
MmSpec == MmInit /\ [][MmNext]_mm_vars

-----------------------------------------------------------------------------
OwnedFrames(p) == FramesOf(ram, p) \ {KERNEL}
Entries(p) == {<<"leaf", v>> : v \in {v \in Vas : ram.leaf[p][v] # NoFrame}}
              \cup {<<"table", r>> : r \in {r \in Regions : ram.table[p][r] # NoFrame}}
              \cup ({<<"root", 0>>} \ (IF p = KERNEL THEN {<<"root", 0>>} ELSE {}))

(* A frame that a process or the kernel can still reach is never free in   *)
(* the bitmap, never reached twice - as two pages, as a page and a table,  *)
(* from two processes - and the space in CR3 is that of the process on the *)
(* CPU, through every order of fork, exec, brk, faults and reaps and       *)
(* through every allocation that fails (free_space, cleanup, do_brk).      *)
FramesExclusive ==
    /\ \A p \in {KERNEL} \cup {task[q].pml4 : q \in Live} :
          OwnedFrames(p) \subseteq ram.used /\ Cardinality(OwnedFrames(p)) = Cardinality(Entries(p))
    /\ \A p, q \in Live : p # q => OwnedFrames(task[p].pml4) \cap OwnedFrames(task[q].pml4) = {}
    /\ \A p \in Live : OwnedFrames(task[p].pml4) \cap OwnedFrames(KERNEL) = {}
    /\ cr3 = (IF running \in Live THEN task[running].pml4 ELSE KERNEL)

(* Every page a process can read holds what that process last put there:   *)
(* its own stores, its parent's before the fork, zeroes for fresh heap, or *)
(* the image its own exec asked for, whatever other processes stored,      *)
(* loaded or freed meanwhile (fork_space, do_brk, read_exec_elf).          *)
ContentsOwn ==
    ~halted =>
    \A p \in MmPids : task[p].state \in {"ready", "blocked"} =>
        \A v \in Vas \ {LAZY_VA} : LET f == ram.leaf[task[p].pml4][v]
                                  IN  f # NoFrame => ram.holds[f] = view[p][v]

(* exec_image's doc comments: a load that fails returns u64::MAX and the   *)
(* caller keeps running.  Its pages are then all still there.              *)
CallerKeepsPages ==
    ~halted =>
    \A p \in MmPids : task[p].state \in {"ready", "blocked"} =>
        \A v \in Vas : view[p][v] # None => ram.leaf[task[p].pml4][v] # NoFrame

(* Address spaces are private: no frame is reached twice or while free,    *)
(* and each page holds what its own process put there.                     *)
MemorySound == FramesExclusive /\ ContentsOwn

=============================================================================
