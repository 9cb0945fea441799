------------------------------- MODULE Paging -------------------------------
(***************************************************************************)
(* Paging, arch/x86/paging.c and what is left of mmu.c, from the moment    *)
(* the boot code of head.S fills its own page tables.  The kernel changes  *)
(* page tables through the page tables: first through the mapping of the   *)
(* boot code, then through the recursive entry of its own page directory.  *)
(* Every access of the kernel to a table is therefore translated here, by  *)
(* the processor's walk of the tables or by a translation its TLB has      *)
(* kept.                                                                   *)
(*                                                                         *)
(* A directory and a table have N entries each.  An entry is the frame it  *)
(* points to, NoFrame when its present bit is not set; the other flags     *)
(* play no part.  The processor is outside the repository: it keeps any    *)
(* present translation it likes, drops any at any time, and drops all when *)
(* CR3 is loaded (PAGE_GLOBAL has no effect, CR4.PGE is never set).        *)
(***************************************************************************)
EXTENDS Integers, FiniteSets

CONSTANTS
    N,                  \* NBR_PD_ENTRIES = NBR_PT_ENTRIES
    KernelPde,          \* KERNEL_SPACE >> 22
    MBPages,            \* 1 MB in pages
    BootStart,          \* first page of the image of the kernel
    KernelEnd,          \* the page after its last
    BootPgd, BootPgt,   \* the frames of boot_pgd, boot_pgt, ...
    Kpgd, FirstKpgt,    \* ... _kpgd and _first_kpgt
    SpareTables,        \* frames that clients turn into page tables
    MapFrames,          \* frames that clients map
    UserVpns,           \* virtual pages that clients map
    MaxPages,           \* bound on the pages of one map_pages
    Watched, MaxTlb,    \* bounds on what the TLB keeps
    NoFrame

RecPde == N - 1         \* REC_PAGING_ENTRY
Entries == 0..(N - 1)
Frames == 0..(N - 1)    \* 4 MB of memory fill one page table
Image == BootStart..(KernelEnd - 1)
Tables == {BootPgd, BootPgt, Kpgd, FirstKpgt} \cup SpareTables
Vpns == 0..(N * N - 1)
Pde(v) == v \div N      \* get_pde_index_of
Pte(v) == v % N         \* get_pte_index_of
KernelVpn == KernelPde * N

ASSUME SizeAssumption == N \in Nat /\ N > 2 /\ KernelPde \in 1..(N - 2)
\* The linker script puts the tables in the image, and the image under 2 MB.
ASSUME ImageAssumption ==
    /\ MBPages \in Nat /\ BootStart \in Nat /\ KernelEnd \in Nat
    /\ 0 < MBPages /\ MBPages <= BootStart /\ KernelEnd <= N
    /\ {BootPgd, BootPgt, Kpgd, FirstKpgt} \subseteq Image
    /\ BootPgd # BootPgt /\ BootPgd # Kpgd /\ BootPgd # FirstKpgt
    /\ BootPgt # Kpgd /\ BootPgt # FirstKpgt /\ Kpgd # FirstKpgt
\* Clients own the frames they map, and pages outside the image and the
\* recursive entry.
ASSUME ClientAssumption ==
    /\ SpareTables \cup MapFrames \subseteq Frames \ Image
    /\ SpareTables \cap MapFrames = {}
    /\ UserVpns \subseteq {v \in Vpns : Pde(v) # RecPde}
    /\ \A f \in Image \cup 0..(MBPages - 1) : KernelVpn + f \notin UserVpns
    /\ MaxPages \in Nat /\ MaxTlb \in Nat /\ Watched \subseteq Vpns
ASSUME NoFrameAssumption == NoFrame \notin Int

VARIABLES
    mem,      \* the entries of every table
    cr3,      \* the directory in use
    tlb,      \* the frame that the TLB keeps for a page, or NoFrame
    pc,       \* where the kernel is
    cursor,   \* the counter of a loop of paging_boot_init
    call,     \* the arguments of map_pages, as its loop advances them
    cause     \* why the kernel stopped

vars == <<mem, cr3, tlb, pc, cursor, call, cause>>

Entry == Frames \cup {NoFrame}
NoCall == [vpn |-> 0, ppn |-> 0, left |-> 0, present |-> FALSE, big |-> FALSE]
Empty == [i \in Entries |-> NoFrame]
NoTlb == [v \in Vpns |-> NoFrame]

\* Paging is on once CR3 is loaded.
On == pc \notin {"start", "enable"}

\* A page fault without handler, or panic().
Halt(why) == /\ cause' = why /\ pc' = "halted"
             /\ UNCHANGED <<mem, cr3, tlb, cursor, call>>
Halted == pc = "halted" /\ UNCHANGED vars
----------------------------------------------------------------------------
(***************************************************************************)
(* The processor.                                                          *)
(***************************************************************************)
Content(t, i) == IF t \in Tables THEN mem[t][i] ELSE NoFrame
Walk(v) == Content(Content(cr3, Pde(v)), Pte(v))
Translate(v) == IF tlb[v] # NoFrame THEN tlb[v] ELSE Walk(v)

\* The TLB keeps a translation, or drops one.
Keep(v) ==
    /\ On /\ pc # "halted" /\ tlb[v] = NoFrame /\ Walk(v) # NoFrame
    /\ Cardinality({u \in Watched : tlb[u] # NoFrame}) < MaxTlb
    /\ tlb' = [tlb EXCEPT ![v] = Walk(v)]
    /\ UNCHANGED <<mem, cr3, pc, cursor, call, cause>>
Drop(v) ==
    /\ pc # "halted" /\ tlb[v] # NoFrame
    /\ tlb' = [tlb EXCEPT ![v] = NoFrame]
    /\ UNCHANGED <<mem, cr3, pc, cursor, call, cause>>

\* The kernel writes entry i of the table it sees at page v.
Write(v, i, e) ==
    LET t == Translate(v) IN mem' = [mem EXCEPT ![t] = [@ EXCEPT ![i] = e]]
----------------------------------------------------------------------------
(***************************************************************************)
(* Boot.                                                                   *)
(***************************************************************************)
\* _start clears the bss, where _kpgd and _first_kpgt are, and fills boot_pgd
\* and boot_pgt.  Page 0 is left out of the latter.
IdentityOf(pages) == [i \in Entries |-> IF i \in pages THEN i ELSE NoFrame]
BootPgdEntries == [Empty EXCEPT ![0] = BootPgt, ![KernelPde] = BootPgt]
SetBootPgt ==
    /\ pc = "start" /\ pc' = "enable"
    /\ mem' = [t \in Tables |-> IF t = BootPgd THEN BootPgdEntries
                               ELSE IF t = BootPgt THEN IdentityOf(Entries \ {0})
                               ELSE Empty]
    /\ UNCHANGED <<cr3, tlb, cursor, call, cause>>

BootEnablePaging ==
    /\ pc = "enable" /\ pc' = "jump" /\ cr3' = BootPgd
    /\ UNCHANGED <<mem, tlb, cursor, call, cause>>

\* The far jump to KERNEL_SPACE, and main up to paging_boot_init.
JumpToKernelSpace ==
    /\ pc = "jump" /\ pc' = "clear"
    /\ UNCHANGED <<mem, cr3, tlb, cursor, call, cause>>

\* The two memset of paging_boot_init.
BootClear ==
    /\ pc = "clear"
    /\ LET d == Translate(KernelVpn + Kpgd)
           t == Translate(KernelVpn + FirstKpgt)
       IN IF NoFrame \in {d, t} THEN Halt("fault")
          ELSE /\ mem' = [mem EXCEPT ![d] = Empty, ![t] = Empty]
               /\ pc' = "dir"
               /\ UNCHANGED <<cr3, tlb, cursor, call, cause>>

\* The two entries of the page directory.
KernelDirectory == [Empty EXCEPT ![KernelPde] = FirstKpgt, ![RecPde] = Kpgd]
BootDirectory ==
    /\ pc = "dir"
    /\ LET d == Translate(KernelVpn + Kpgd) IN
       IF d = NoFrame THEN Halt("fault")
       ELSE /\ mem' = [mem EXCEPT ![d] = KernelDirectory]
            /\ pc' = "image" /\ cursor' = BootStart
            /\ UNCHANGED <<cr3, tlb, call, cause>>

\* One iteration of a loop that maps the pages of _first_kpgt to themselves.
BootEntry(place, last, then, first) ==
    /\ pc = place
    /\ IF cursor > last
       THEN pc' = then /\ cursor' = first /\ UNCHANGED mem
       ELSE /\ Translate(KernelVpn + FirstKpgt) # NoFrame
            /\ Write(KernelVpn + FirstKpgt, cursor, cursor)
            /\ cursor' = cursor + 1 /\ UNCHANGED pc
    /\ UNCHANGED <<cr3, tlb, call, cause>>

LastImagePage == KernelEnd - 1

BootImage   == BootEntry("image", LastImagePage, "first", 0)
BootFirstMB == BootEntry("first", MBPages - 1, "load", 0)

LoadPgd ==
    /\ pc = "load" /\ pc' = "idle"
    /\ cr3' = Kpgd /\ tlb' = NoTlb
    /\ UNCHANGED <<mem, cursor, call, cause>>
----------------------------------------------------------------------------
(***************************************************************************)
(* The interface, through the recursive entry: the table of directory      *)
(* entry i is seen at page i of the last table, the directory at its last. *)
(***************************************************************************)
RecVpn(i) == RecPde * N + i
GetPde(i) == Content(Translate(RecVpn(RecPde)), i)

\* Mutant of GetPte: the entry is read in the directory.
GetPteOfDirectory(i, j) == Content(Translate(RecVpn(RecPde)), j)
GetPte(i, j) == Content(Translate(RecVpn(i)), j)

\* virt_to_phys_addr, of the page: 0 is NULL.  Its branch for 4 MB pages is left
\* out: map_page stops the kernel instead of making one, and so does a client.
VirtToPhys(v) ==
    IF GetPde(Pde(v)) # NoFrame /\ GetPte(Pde(v), Pte(v)) # NoFrame
    THEN GetPte(Pde(v), Pte(v)) ELSE 0

\* set_pde: a client installs an empty table in an entry that is not present.
SetPde(i, t) ==
    /\ pc = "idle" /\ GetPde(i) = NoFrame /\ mem[t] = Empty
    /\ \A j \in Entries : GetPde(j) # t
    /\ Write(RecVpn(RecPde), i, t)
    /\ UNCHANGED <<cr3, tlb, pc, cursor, call, cause>>

\* map_pages of n pages; map_page is the same of one page.
MapPages(v, f, n, present, big) ==
    /\ pc = "idle"
    /\ pc' = "map"
    /\ call' = [vpn |-> v, ppn |-> f, left |-> n, present |-> present, big |-> big]
    /\ UNCHANGED <<mem, cr3, tlb, cursor, cause>>

NullPage(v) == v = 0

\* Mutant of Done: one page too many.
DoneLate == call.left < 0
Done == call.left = 0

\* The tests of map_pages and map_page, up to that of the directory entry.
MapCheck ==
    /\ pc = "map"
    /\ IF NullPage(call.vpn) THEN Halt("null")
       ELSE IF Done THEN pc' = "idle" /\ UNCHANGED <<mem, cr3, tlb, cursor, call, cause>>
       ELSE IF call.big THEN Halt("big")
       ELSE IF Translate(RecVpn(RecPde)) = NoFrame THEN Halt("fault")
       ELSE IF GetPde(Pde(call.vpn)) = NoFrame THEN Halt("notable")
       ELSE pc' = "set" /\ UNCHANGED <<mem, cr3, tlb, cursor, call, cause>>

\* Mutant of PteOf: the entry of the page table is that of the directory.
PteOfDirectory(v) == Pde(v)
PteOf(v) == Pte(v)

MapSetPte ==
    /\ pc = "set"
    /\ IF Translate(RecVpn(Pde(call.vpn))) = NoFrame THEN Halt("fault")
       ELSE /\ Write(RecVpn(Pde(call.vpn)), PteOf(call.vpn),
                     IF call.present THEN call.ppn ELSE NoFrame)
            /\ pc' = "invlpg"
            /\ UNCHANGED <<cr3, tlb, cursor, call, cause>>

\* Mutant of Invlpg: nothing is dropped.
InvlpgNothing(v) == tlb
Invlpg(v) == [tlb EXCEPT ![v] = NoFrame]

\* invlpg, and the end of the loop of map_pages.
MapInvlpg ==
    /\ pc = "invlpg" /\ pc' = "map"
    /\ tlb' = Invlpg(call.vpn)
    /\ call' = [call EXCEPT !.vpn = @ + 1, !.ppn = @ + 1, !.left = @ - 1]
    /\ UNCHANGED <<mem, cr3, cursor, cause>>
----------------------------------------------------------------------------
(***************************************************************************)
(* The contexts of mmu.c.  Its body commented out, mmu_context_create      *)
(* returns NULL, but the structure is public: a client may fill one.       *)
(***************************************************************************)
NullContext == NoFrame

\* Mutant of PreserveKernelSpace: it says that it is done.
PreservedAlready(context) == TRUE

\* preserve_kernel_space, whose body is commented out too.
PreserveKernelSpace(context) == FALSE

\* mmu_context_load.  A null directory is frame 0.
MmuContextLoad(context) ==
    /\ pc = "idle"
    /\ IF context \notin {NullContext, 0} /\ PreserveKernelSpace(context)
       THEN cr3' = context /\ tlb' = NoTlb /\ UNCHANGED <<mem, pc, cursor, call, cause>>
       ELSE Halt("mmu")
----------------------------------------------------------------------------
Init ==
    /\ \E garbage \in {NoFrame, N - 1} :
         mem = [t \in Tables |-> [i \in Entries |->
                   IF t \in SpareTables THEN NoFrame ELSE garbage]]
    /\ cr3 = BootPgd /\ tlb = NoTlb /\ pc = "start"
    /\ cursor = 0 /\ call = NoCall /\ cause = "none"

Boot == \/ SetBootPgt \/ BootEnablePaging \/ JumpToKernelSpace \/ BootClear
        \/ BootDirectory \/ BootImage \/ BootFirstMB \/ LoadPgd

\* Clients map pages of their own, in runs that may cross the end of a table,
\* or page 0 by mistake.
Client ==
    \/ \E v \in UserVpns \cup {0}, f \in MapFrames, n \in 0..MaxPages,
          present, big \in BOOLEAN :
         /\ big => present
         /\ f .. (f + n - 1) \subseteq MapFrames
         /\ v .. (v + n - 1) \subseteq UserVpns \cup {0}
         /\ MapPages(v, f, n, present, big)
    \/ \E i \in {Pde(v) : v \in UserVpns}, t \in SpareTables : SetPde(i, t)
    \/ \E context \in {NullContext, 0} \cup SpareTables : MmuContextLoad(context)

MapStep == MapCheck \/ MapSetPte \/ MapInvlpg

Tlb == \E v \in Watched : Keep(v) \/ Drop(v)

Next == Boot \/ Client \/ MapStep \/ Tlb \/ Halted

Spec == Init /\ [][Next]_vars
----------------------------------------------------------------------------
(***************************************************************************)
(* Properties.                                                             *)
(***************************************************************************)
TypeOK ==
    /\ mem \in [Tables -> [Entries -> Entry]]
    /\ cr3 \in {BootPgd, Kpgd} /\ tlb \in [Vpns -> Entry]
    /\ pc \in {"start", "enable", "jump", "clear", "dir", "image", "first",
               "load", "idle", "map", "set", "invlpg", "halted"}
    /\ cursor \in 0..N
    /\ call \in [vpn : 0..(N * N), ppn : 0..N, left : 0..MaxPages,
                 present : BOOLEAN, big : BOOLEAN]
    /\ cause \in {"none", "fault", "null", "big", "notable", "mmu"}

\* From the moment paging is on, the processor finds the kernel's code, data
\* and stack where the kernel expects them, before and after each directory
\* is loaded, whatever the TLB has kept and whatever clients map; and it never
\* faults on a page table: the recursive entry leads to every table map_page
\* changes, and the boot mapping to those paging_boot_init sets.
KernelStaysMapped ==
    /\ cause # "fault"
    /\ On => \A f \in Image :
              Translate((IF pc = "jump" THEN 0 ELSE KernelVpn) + f) = f

\* Between calls the TLB keeps nothing that the tables do not say, so a page
\* that was mapped again is nowhere seen at its old frame.  (set_pde relies on
\* this too: it does not invalidate the page through which the table is seen.)
TlbCoherent ==
    pc = "idle" => \A v \in Vpns : tlb[v] # NoFrame => tlb[v] = Walk(v)

\* virt_to_phys_addr, which reads the tables through the recursive entry,
\* finds what the processor finds.
VirtToPhysAgrees ==
    pc = "idle" => \A v \in Vpns :
        VirtToPhys(v) = IF Translate(v) = NoFrame THEN 0 ELSE Translate(v)

(***************************************************************************)
(* The inductive invariant.  The processor reaches the tables it walks, and *)
(* the kernel those it writes, through entries that no call can change:    *)
(* each table is in the directory once, and users' pages are neither the   *)
(* kernel's nor seen through the recursive entry.                          *)
(***************************************************************************)
Booting == pc \in {"start", "enable", "jump", "clear", "dir", "image", "first", "load"}

\* The pages of the first table that paging_boot_init has set.
FirstMB == 0..(MBPages - 1)
SetUp == CASE pc = "image" -> BootStart..(cursor - 1)
           [] pc = "first" -> Image \cup 0..(cursor - 1)
           [] OTHER -> Image \cup FirstMB

BootInv ==
    /\ cr3 = IF Booting THEN BootPgd ELSE Kpgd
    /\ ~On => tlb = NoTlb
    /\ pc # "start" => /\ mem[BootPgd] = BootPgdEntries
                       /\ mem[BootPgt] = IdentityOf(Entries \ {0})
    /\ pc = "dir" => mem[FirstKpgt] = Empty
    /\ pc \in {"image", "first", "load"} =>
          mem[Kpgd] = KernelDirectory /\ mem[FirstKpgt] = IdentityOf(SetUp)
    /\ pc = "image" => cursor \in BootStart..KernelEnd
    /\ pc = "first" => cursor \in 0..MBPages

TablesInv ==
    ~Booting =>
        /\ mem[Kpgd][KernelPde] = FirstKpgt /\ mem[Kpgd][RecPde] = Kpgd
        /\ \A i \in Entries \ {KernelPde, RecPde} :
              mem[Kpgd][i] \in SpareTables \cup {NoFrame}
        /\ \A i, j \in Entries :
              i # j /\ mem[Kpgd][i] # NoFrame => mem[Kpgd][i] # mem[Kpgd][j]
        /\ \A f \in Image \cup FirstMB : mem[FirstKpgt][f] = f

CallInv ==
    pc \in {"map", "set", "invlpg"} =>
        /\ call.vpn .. (call.vpn + call.left - 1) \subseteq UserVpns \cup {0}
        /\ call.ppn .. (call.ppn + call.left - 1) \subseteq MapFrames
        /\ pc # "map" => /\ call.left > 0 /\ call.vpn # 0
                         /\ mem[Kpgd][Pde(call.vpn)] # NoFrame
        /\ pc = "invlpg" =>
              Walk(call.vpn) = IF call.present THEN call.ppn ELSE NoFrame

TlbInv ==
    \A v \in Vpns : tlb[v] # NoFrame /\ tlb[v] # Walk(v) =>
        pc = "invlpg" /\ v = call.vpn

PagingInv == /\ TypeOK /\ BootInv /\ TablesInv /\ CallInv /\ TlbInv
             /\ cause # "fault"

\* To its users the kernel's address space is AddressSpace: boot maps the
\* first MB and the image, and map_pages changes one page at a time, of the
\* pages it was asked for, and at once in spite of the TLB.
SpacePages == {v \in Vpns : Pde(v) # RecPde}
BootMap == [v \in SpacePages |-> IF v - KernelVpn \in Image \cup 0..(MBPages - 1)
                                 THEN v - KernelVpn ELSE NoFrame]
NothingMapped == [v \in SpacePages |-> NoFrame]
SpaceMap == IF cr3 = Kpgd THEN [v \in SpacePages |-> Translate(v)] ELSE NothingMapped
Space == INSTANCE AddressSpace WITH
    Pages <- SpacePages, Frames <- MapFrames, Users <- UserVpns, BootMap <- BootMap,
    map <- SpaceMap, up <- (cr3 = Kpgd), stopped <- (pc = "halted")

ImplementsAddressSpace == Space!Spec
=============================================================================
