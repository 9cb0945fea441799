---------------------------- MODULE PagingProofs ----------------------------
(***************************************************************************)
(* The safety of paging for tables of any size, any layout of the image,   *)
(* any clients' pages and any behaviour of the TLB.                        *)
(***************************************************************************)
EXTENDS Paging, TLAPS

\* The sizes of directory, image and first megabyte, as numbers.
LEMMA Sizes ==
    /\ N \in Nat /\ N > 2 /\ KernelPde \in 1..(N - 2) /\ RecPde = N - 1
    /\ MBPages \in Nat /\ BootStart \in Nat /\ KernelEnd \in Nat
    /\ 0 < MBPages /\ MBPages <= BootStart /\ BootStart < KernelEnd /\ KernelEnd <= N
<1>1. BootStart < KernelEnd
  BY ImageAssumption DEF Image
<1> QED
  BY <1>1, SizeAssumption, ImageAssumption DEF RecPde

\* The four tables of boot are distinct frames of the image.
LEMMA TableFrames ==
    /\ Kpgd \in Image /\ FirstKpgt \in Image /\ BootPgd \in Image /\ BootPgt \in Image
    /\ BootPgd # BootPgt /\ BootPgd # Kpgd /\ BootPgd # FirstKpgt
    /\ BootPgt # Kpgd /\ BootPgt # FirstKpgt /\ Kpgd # FirstKpgt
    /\ Image \subseteq Entries \ {0} /\ FirstMB \subseteq Entries
    /\ SpareTables \subseteq Frames \ Image /\ MapFrames \subseteq Frames \ Image
    /\ Entries = Frames /\ Tables \subseteq Frames
    /\ NoFrame \notin Entries /\ NoFrame \notin Tables
<1>1. Image \subseteq Entries \ {0} /\ FirstMB \subseteq Entries /\ Entries = Frames
  BY Sizes DEF Image, Entries, Frames, FirstMB
<1>2. NoFrame \notin Entries
  BY NoFrameAssumption, Sizes DEF Entries
<1> QED
  BY <1>1, <1>2, ImageAssumption, ClientAssumption DEF Tables

\* A page is its entry in the directory and its entry in the table.
LEMMA PageOf ==
    ASSUME NEW v \in Vpns
    PROVE  Pde(v) \in Entries /\ Pte(v) \in Entries /\ v = Pde(v) * N + Pte(v)
<1>1. v \in Nat /\ v < N * N
  BY Sizes DEF Vpns
<1>2. v \div N \in Nat /\ v % N \in 0..(N - 1) /\ v = (v \div N) * N + (v % N)
  BY <1>1, Sizes
<1>3. \A q, r \in Nat : q >= N => q * N + r >= N * N
  BY Sizes
<1>4. v \div N < N
  BY <1>1, <1>2, <1>3, Sizes
<1> QED
  BY <1>2, <1>4, Sizes DEF Pde, Pte, Entries

\* A page number is an entry of the directory and one of a table.
LEMMA PageAt ==
    ASSUME NEW a \in Entries, NEW i \in Entries
    PROVE  a * N + i \in Vpns /\ Pde(a * N + i) = a /\ Pte(a * N + i) = i
<1>1. a \in Nat /\ i \in 0..(N - 1) /\ a <= N - 1
  BY Sizes DEF Entries
<1>2. (a * N + i) \div N = a /\ (a * N + i) % N = i
  BY <1>1, Sizes
<1>3. a * N <= (N - 1) * N /\ a * N \in Nat
  BY <1>1, Sizes
<1>4. (N - 1) * N + (N - 1) = N * N - 1
  BY Sizes
<1> QED
  BY <1>1, <1>2, <1>3, <1>4, Sizes DEF Pde, Pte, Vpns

\* The pages of the kernel's space, those of the first table seen as itself,
\* and those of the recursive entry.
LEMMA Pages ==
    ASSUME NEW i \in Entries
    PROVE  /\ KernelVpn + i \in Vpns /\ Pde(KernelVpn + i) = KernelPde /\ Pte(KernelVpn + i) = i
           /\ RecVpn(i) \in Vpns /\ Pde(RecVpn(i)) = RecPde /\ Pte(RecVpn(i)) = i
           /\ i \in Vpns /\ Pde(i) = 0 /\ Pte(i) = i
<1>1. KernelPde \in Entries /\ RecPde \in Entries /\ 0 \in Entries /\ 0 * N + i = i
  BY Sizes DEF Entries
<1> QED
  BY <1>1, PageAt DEF KernelVpn, RecVpn

\* The pages of clients are none of the recursive ones.
LEMMA UserPages ==
    ASSUME NEW v \in UserVpns
    PROVE  /\ v \in Vpns /\ Pde(v) # RecPde
           /\ \A i \in Entries : v # RecVpn(i)
           /\ \A f \in Image \cup FirstMB : v # KernelVpn + f
BY ClientAssumption, Pages DEF FirstMB

\* What the kernel sees is what the tables say, except while map_page is
\* between the entry and invlpg.
LEMMA Coherent ==
    ASSUME TlbInv, NEW v \in Vpns, pc = "invlpg" => v # call.vpn
    PROVE  Translate(v) = Walk(v)
BY DEF TlbInv, Translate

\* The boot code's tables show the first N pages, but page 0, at KERNEL_SPACE.
LEMMA BootWalk ==
    ASSUME PagingInv, On, Booting, NEW f \in Entries \ {0}
    PROVE  /\ Translate(KernelVpn + f) = f
           /\ Walk(f) = f
           /\ pc = "jump" => Translate(f) = f
<1>1. cr3 = BootPgd /\ mem[BootPgd] = BootPgdEntries /\ mem[BootPgt] = IdentityOf(Entries \ {0})
  BY DEF PagingInv, BootInv, On
<1>2. 0 \in Entries /\ KernelPde \in Entries /\ KernelPde # 0
  BY Sizes DEF Entries
<1>3. Content(BootPgd, KernelPde) = BootPgt /\ Content(BootPgd, 0) = BootPgt
  BY <1>1, <1>2 DEF Content, Tables, BootPgdEntries, Empty
<1>4. Content(BootPgt, f) = f
  BY <1>1 DEF Content, Tables, IdentityOf
<1>5. Walk(KernelVpn + f) = f /\ Walk(f) = f
  BY <1>1, <1>3, <1>4, Pages DEF Walk
<1> QED
  BY <1>5, Coherent, Pages DEF PagingInv, Booting

\* Once _kpgd is loaded, the recursive entry shows the directory and the
\* tables that are in it, and the kernel's pages are where they should be.
LEMMA RecWalk ==
    ASSUME PagingInv, ~Booting
    PROVE  /\ \A i \in Entries : Translate(RecVpn(i)) = mem[Kpgd][i]
           /\ \A i \in Entries : GetPde(i) = mem[Kpgd][i]
           /\ \A i \in Entries : mem[Kpgd][i] \in Tables \cup {NoFrame}
           /\ \A f \in Image \cup FirstMB : Translate(KernelVpn + f) = f
<1>1. cr3 = Kpgd /\ mem[Kpgd][RecPde] = Kpgd /\ mem[Kpgd][KernelPde] = FirstKpgt
  BY DEF PagingInv, BootInv, TablesInv
<1>2. RecPde \in Entries /\ KernelPde \in Entries
  BY Sizes DEF Entries
<1>3. \A i \in Entries : mem[Kpgd][i] \in Tables \cup {NoFrame}
  BY <1>1 DEF PagingInv, TablesInv, Tables
<1>4. pc = "invlpg" => call.vpn \in UserVpns
  <2> SUFFICES ASSUME pc = "invlpg" PROVE call.vpn \in UserVpns
    OBVIOUS
  <2>1. call.vpn \in Int /\ call.left \in Int /\ call.left > 0 /\ call.vpn # 0
        /\ call.vpn .. (call.vpn + call.left - 1) \subseteq UserVpns \cup {0}
    BY Sizes, ClientAssumption DEF PagingInv, CallInv, TypeOK
  <2> QED
    BY <2>1
<1>5. \A i \in Entries : Translate(RecVpn(i)) = mem[Kpgd][i]
  <2> SUFFICES ASSUME NEW i \in Entries PROVE Translate(RecVpn(i)) = mem[Kpgd][i]
    OBVIOUS
  <2>1. Walk(RecVpn(i)) = mem[Kpgd][i]
    BY <1>1, <1>2, Pages DEF Walk, Content, Tables
  <2>2. pc = "invlpg" => RecVpn(i) # call.vpn
    BY <1>4, UserPages
  <2> QED
    BY <2>1, <2>2, Coherent, Pages DEF PagingInv
<1>6. \A i \in Entries : GetPde(i) = mem[Kpgd][i]
  BY <1>1, <1>2, <1>5 DEF GetPde, Content, Tables
<1>7. \A f \in Image \cup FirstMB : Translate(KernelVpn + f) = f
  <2> SUFFICES ASSUME NEW f \in Image \cup FirstMB PROVE Translate(KernelVpn + f) = f
    OBVIOUS
  <2>1. f \in Entries
    BY TableFrames
  <2>2. mem[FirstKpgt][f] = f
    BY DEF PagingInv, TablesInv
  <2>3. Walk(KernelVpn + f) = f
    BY <1>1, <2>1, <2>2, Pages DEF Walk, Content, Tables
  <2>4. pc = "invlpg" => KernelVpn + f # call.vpn
    BY <1>4, UserPages
  <2> QED
    BY <2>1, <2>3, <2>4, Coherent, Pages DEF PagingInv
<1> QED
  BY <1>3, <1>5, <1>6, <1>7

\* A walk of the tables ends in an entry.
LEMMA WalkType == TypeOK => \A v \in Vpns : Walk(v) \in Entry
<1> SUFFICES ASSUME TypeOK, NEW v \in Vpns PROVE Walk(v) \in Entry
  OBVIOUS
<1> QED
  BY PageOf DEF TypeOK, Walk, Content, Entry

\* The tables as SetUp describes them, place by place.
LEMMA SetUpAt ==
    /\ pc = "image" => SetUp = BootStart..(cursor - 1)
    /\ pc = "first" => SetUp = Image \cup 0..(cursor - 1)
    /\ pc \notin {"image", "first"} => SetUp = Image \cup FirstMB
BY DEF SetUp

\* The identity table of boot is a table.
LEMMA IdentityType == \A pages : IdentityOf(pages) \in [Entries -> Entry]
BY TableFrames DEF IdentityOf, Entry

\* While the boot code's tables stay as they are, so does every walk of them.
LEMMA BootWalksSame ==
    ASSUME cr3 = BootPgd, cr3' = BootPgd, BootPgdEntries = mem[BootPgd],
           mem'[BootPgd] = mem[BootPgd], mem'[BootPgt] = mem[BootPgt],
           NEW v \in Vpns
    PROVE  Walk(v)' = Walk(v)
<1>1. Pde(v) \in Entries
  BY PageOf
<1>2. mem[BootPgd][Pde(v)] \in {BootPgt, NoFrame}
  BY <1>1 DEF BootPgdEntries, Empty
<1> QED
  BY <1>2, TableFrames DEF Walk, Content, Tables

\* The kernel stopped by one of its own tests.
LEMMA HaltInv ==
    ASSUME PagingInv, ~Booting, pc # "invlpg", Halt(cause'), cause' # "fault",
           cause' \in {"null", "big", "notable", "mmu"}
    PROVE  PagingInv'
<1> USE DEF PagingInv, Halt
<1>1. TypeOK'
  BY DEF TypeOK
<1>2. BootInv' /\ TablesInv'
  BY DEF BootInv, TablesInv, Booting, On
<1>3. CallInv' /\ TlbInv'
  BY DEF CallInv, TlbInv, Walk, Content
<1> QED
  BY <1>1, <1>2, <1>3

\* The image is loaded with paging off.
LEMMA InitInv == Init => PagingInv
<1> SUFFICES ASSUME Init PROVE PagingInv
  OBVIOUS
<1> USE DEF Init
<1>1. TypeOK
  <2>1. N - 1 \in Entry /\ NoFrame \in Entry
    BY Sizes DEF Entry, Frames
  <2>2. mem \in [Tables -> [Entries -> Entry]]
    BY <2>1
  <2>3. N * N \in Nat
    BY Sizes
  <2> QED
    BY <2>2, <2>3, Sizes, ClientAssumption DEF TypeOK, Entry, NoTlb, NoCall
<1>2. BootInv /\ TablesInv /\ CallInv
  BY DEF BootInv, TablesInv, CallInv, Booting, On
<1>3. TlbInv
  BY DEF TlbInv, NoTlb
<1> QED
  BY <1>1, <1>2, <1>3 DEF PagingInv

\* The boot code fills its directory and table, paging still off.
LEMMA SetBootPgtInv == PagingInv /\ SetBootPgt => PagingInv'
<1> SUFFICES ASSUME PagingInv, SetBootPgt PROVE PagingInv'
  OBVIOUS
<1> USE DEF PagingInv, SetBootPgt
<1>1. BootPgdEntries \in [Entries -> Entry] /\ Empty \in [Entries -> Entry]
  BY TableFrames, Sizes DEF BootPgdEntries, Empty, Entry
<1>2. TypeOK'
  <2>1. mem' \in [Tables -> [Entries -> Entry]]
    BY <1>1, IdentityType
  <2> QED
    BY <2>1 DEF TypeOK
<1>3. BootInv' /\ TablesInv' /\ CallInv'
  BY TableFrames DEF BootInv, TablesInv, CallInv, Booting, On, Tables
<1>4. TlbInv'
  BY DEF TlbInv, NoTlb, BootInv, On
<1> QED
  BY <1>2, <1>3, <1>4

\* The boot code loads cr3 with its directory and turns paging on.
LEMMA BootEnablePagingInv == PagingInv /\ BootEnablePaging => PagingInv'
<1> SUFFICES ASSUME PagingInv, BootEnablePaging PROVE PagingInv'
  OBVIOUS
<1> USE DEF PagingInv, BootEnablePaging
<1>1. TypeOK'
  BY DEF TypeOK
<1>2. BootInv' /\ TablesInv' /\ CallInv'
  BY DEF BootInv, TablesInv, CallInv, Booting, On
<1>3. TlbInv'
  BY DEF TlbInv, NoTlb, BootInv, On
<1> QED
  BY <1>1, <1>2, <1>3

\* The far jump to KERNEL_SPACE, under the tables of the boot code.
LEMMA JumpInv == PagingInv /\ JumpToKernelSpace => PagingInv'
<1> SUFFICES ASSUME PagingInv, JumpToKernelSpace PROVE PagingInv'
  OBVIOUS
<1> USE DEF PagingInv, JumpToKernelSpace
<1>1. TypeOK'
  BY DEF TypeOK
<1>2. BootInv' /\ TablesInv' /\ CallInv'
  BY DEF BootInv, TablesInv, CallInv, Booting, On
<1>3. TlbInv'
  BY DEF TlbInv, Walk, Content
<1> QED
  BY <1>1, <1>2, <1>3

\* A step of boot that changes only the kernel's own tables, not the ones in
\* use, makes no translation stale.
LEMMA BootTlbInv ==
    ASSUME PagingInv, Booting, On, pc' # "invlpg", UNCHANGED <<cr3, tlb>>,
           mem'[BootPgd] = mem[BootPgd], mem'[BootPgt] = mem[BootPgt]
    PROVE  TlbInv'
<1>1. cr3 = BootPgd /\ mem[BootPgd] = BootPgdEntries
  BY DEF PagingInv, BootInv, On
<1>2. \A v \in Vpns : Walk(v)' = Walk(v)
  BY <1>1, BootWalksSame
<1> QED
  BY <1>2 DEF PagingInv, TlbInv, Booting

\* paging_boot_init clears the kernel's directory and table.
LEMMA BootClearInv == PagingInv /\ BootClear => PagingInv'
<1> SUFFICES ASSUME PagingInv, BootClear PROVE PagingInv'
  OBVIOUS
<1>1. On /\ Booting /\ pc = "clear"
  BY DEF BootClear, On, Booting
<1>2. Translate(KernelVpn + Kpgd) = Kpgd /\ Translate(KernelVpn + FirstKpgt) = FirstKpgt
  BY <1>1, BootWalk, TableFrames
<1>3. /\ mem' = [mem EXCEPT ![Kpgd] = Empty, ![FirstKpgt] = Empty]
      /\ pc' = "dir" /\ UNCHANGED <<cr3, tlb, cursor, call, cause>>
  BY <1>2, TableFrames DEF BootClear
<1> USE DEF PagingInv
<1>4. TypeOK'
  BY <1>3 DEF TypeOK, Empty, Entry
<1>5. /\ mem'[BootPgd] = mem[BootPgd] /\ mem'[BootPgt] = mem[BootPgt]
      /\ mem'[FirstKpgt] = Empty
  BY <1>3, TableFrames DEF TypeOK, Tables
<1>6. BootInv' /\ TablesInv' /\ CallInv'
  BY <1>1, <1>3, <1>5 DEF BootInv, TablesInv, CallInv, Booting, On
<1>7. TlbInv'
  BY <1>1, <1>3, <1>5, BootTlbInv
<1> QED
  BY <1>3, <1>4, <1>6, <1>7

\* paging_boot_init writes the kernel's entry and the recursive one.
LEMMA BootDirectoryInv == PagingInv /\ BootDirectory => PagingInv'
<1> SUFFICES ASSUME PagingInv, BootDirectory PROVE PagingInv'
  OBVIOUS
<1>1. On /\ Booting /\ pc = "dir"
  BY DEF BootDirectory, On, Booting
<1>2. Translate(KernelVpn + Kpgd) = Kpgd
  BY <1>1, BootWalk, TableFrames
<1>3. /\ mem' = [mem EXCEPT ![Kpgd] = KernelDirectory]
      /\ pc' = "image" /\ cursor' = BootStart /\ UNCHANGED <<cr3, tlb, call, cause>>
  BY <1>2, TableFrames DEF BootDirectory
<1> USE DEF PagingInv
<1>4. TypeOK'
  <2>1. KernelDirectory \in [Entries -> Entry]
    BY TableFrames DEF KernelDirectory, Empty, Entry
  <2>2. cursor' \in 0..N
    BY <1>3, Sizes
  <2> QED
    BY <1>3, <2>1, <2>2 DEF TypeOK
<1>5. /\ mem'[BootPgd] = mem[BootPgd] /\ mem'[BootPgt] = mem[BootPgt]
      /\ mem'[FirstKpgt] = mem[FirstKpgt] /\ mem'[Kpgd] = KernelDirectory
  BY <1>3, TableFrames DEF TypeOK, Tables
<1>6. mem'[FirstKpgt] = IdentityOf(SetUp')
  <2>1. mem[FirstKpgt] = Empty
    BY <1>1 DEF BootInv
  <2>2. SetUp' = {}
    BY <1>3, Sizes DEF SetUp
  <2> QED
    BY <1>5, <2>1, <2>2 DEF IdentityOf, Empty
<1>7. BootInv' /\ TablesInv' /\ CallInv'
  BY <1>1, <1>3, <1>5, <1>6, Sizes DEF BootInv, TablesInv, CallInv, Booting, On
<1>8. TlbInv'
  BY <1>1, <1>3, <1>5, BootTlbInv
<1> QED
  BY <1>3, <1>4, <1>7, <1>8

\* One entry of _first_kpgt set to its own page.
LEMMA WriteIdentity ==
    ASSUME NEW pages \in SUBSET Entries, NEW f \in Entries
    PROVE  [IdentityOf(pages) EXCEPT ![f] = f] = IdentityOf(pages \cup {f})
BY DEF IdentityOf

\* A write of paging_boot_init to its table lands in that table.
LEMMA BootEntryWrites ==
    ASSUME PagingInv, pc \in {"image", "first"},
           Write(KernelVpn + FirstKpgt, cursor, cursor), cursor \in Entries,
           UNCHANGED <<cr3, tlb, pc, call, cause>>, cursor' = cursor + 1,
           SetUp \in SUBSET Entries, SetUp' = SetUp \cup {cursor}
    PROVE  /\ mem' \in [Tables -> [Entries -> Entry]] /\ TlbInv'
           /\ mem'[BootPgd] = mem[BootPgd] /\ mem'[BootPgt] = mem[BootPgt]
           /\ mem'[Kpgd] = mem[Kpgd] /\ mem'[FirstKpgt] = IdentityOf(SetUp')
<1> USE DEF PagingInv
<1>1. On /\ Booting /\ pc # "invlpg"
  BY DEF On, Booting
<1>2. mem' = [mem EXCEPT ![FirstKpgt] = [@ EXCEPT ![cursor] = cursor]]
  BY <1>1, BootWalk, TableFrames DEF Write
<1>3. /\ mem'[BootPgd] = mem[BootPgd] /\ mem'[BootPgt] = mem[BootPgt]
      /\ mem'[Kpgd] = mem[Kpgd]
      /\ mem'[FirstKpgt] = [mem[FirstKpgt] EXCEPT ![cursor] = cursor]
  BY <1>2, TableFrames DEF TypeOK, Tables
<1>4. mem[FirstKpgt] = IdentityOf(SetUp)
  BY DEF BootInv
<1>5. mem'[FirstKpgt] = IdentityOf(SetUp')
  BY <1>3, <1>4, WriteIdentity
<1>6. mem' \in [Tables -> [Entries -> Entry]]
  BY <1>2, TableFrames DEF TypeOK, Entry
<1>7. TlbInv'
  BY <1>1, <1>3, BootTlbInv
<1> QED
  BY <1>3, <1>5, <1>6, <1>7

\* paging_boot_init maps one page of the image.
LEMMA BootImageInv == PagingInv /\ BootImage => PagingInv'
<1> SUFFICES ASSUME PagingInv, BootImage PROVE PagingInv'
  OBVIOUS
<1> USE DEF PagingInv
<1>1. On /\ Booting /\ pc = "image" /\ cursor \in BootStart..KernelEnd
  BY DEF BootImage, BootEntry, On, Booting, BootInv
<1>2. CASE cursor > LastImagePage
  <2>1. /\ pc' = "first" /\ cursor' = 0 /\ UNCHANGED <<mem, cr3, tlb, call, cause>>
    BY <1>2 DEF BootImage, BootEntry
  <2>2. TypeOK'
    BY <2>1, Sizes DEF TypeOK
  <2>3. SetUp' = SetUp
    BY <1>1, <1>2, <2>1, Sizes DEF SetUp, LastImagePage, Image
  <2>4. BootInv' /\ TablesInv' /\ CallInv'
    BY <1>1, <2>1, <2>3, Sizes DEF BootInv, TablesInv, CallInv, Booting, On
  <2>5. TlbInv'
    BY <1>1, <2>1, BootTlbInv
  <2> QED
    BY <2>1, <2>2, <2>4, <2>5
<1>3. CASE ~(cursor > LastImagePage)
  <2>1. /\ Write(KernelVpn + FirstKpgt, cursor, cursor)
        /\ cursor' = cursor + 1 /\ UNCHANGED <<cr3, tlb, pc, call, cause>>
    BY <1>3 DEF BootImage, BootEntry
  <2>2. cursor \in Entries /\ cursor' \in BootStart..KernelEnd /\ cursor' \in 0..N
    BY <1>1, <1>3, <2>1, Sizes DEF LastImagePage, Entries
  <2>3. SetUp \in SUBSET Entries /\ SetUp' = SetUp \cup {cursor}
    BY <1>1, <2>1, <2>2, Sizes DEF SetUp, Entries
  <2>4. /\ mem' \in [Tables -> [Entries -> Entry]] /\ TlbInv'
        /\ mem'[BootPgd] = mem[BootPgd] /\ mem'[BootPgt] = mem[BootPgt]
        /\ mem'[Kpgd] = mem[Kpgd] /\ mem'[FirstKpgt] = IdentityOf(SetUp')
    BY <1>1, <2>1, <2>2, <2>3, BootEntryWrites
  <2>5. TypeOK'
    BY <2>1, <2>2, <2>4 DEF TypeOK
  <2>6. BootInv' /\ TablesInv' /\ CallInv'
    BY <1>1, <2>1, <2>2, <2>4 DEF BootInv, TablesInv, CallInv, Booting, On
  <2> QED
    BY <2>1, <2>4, <2>5, <2>6
<1> QED
  BY <1>2, <1>3

\* paging_boot_init maps one page of the first megabyte.
LEMMA BootFirstMBInv == PagingInv /\ BootFirstMB => PagingInv'
<1> SUFFICES ASSUME PagingInv, BootFirstMB PROVE PagingInv'
  OBVIOUS
<1> USE DEF PagingInv
<1>1. On /\ Booting /\ pc = "first" /\ cursor \in 0..MBPages
  BY DEF BootFirstMB, BootEntry, On, Booting, BootInv
<1>2. CASE cursor > MBPages - 1
  <2>1. /\ pc' = "load" /\ cursor' = 0 /\ UNCHANGED <<mem, cr3, tlb, call, cause>>
    BY <1>2 DEF BootFirstMB, BootEntry
  <2>2. TypeOK'
    BY <2>1, Sizes DEF TypeOK
  <2>3. SetUp' = SetUp
    BY <1>1, <1>2, <2>1, Sizes DEF SetUp, FirstMB
  <2>4. BootInv' /\ TablesInv' /\ CallInv'
    BY <1>1, <2>1, <2>3, Sizes DEF BootInv, TablesInv, CallInv, Booting, On
  <2>5. TlbInv'
    BY <1>1, <2>1, BootTlbInv
  <2> QED
    BY <2>1, <2>2, <2>4, <2>5
<1>3. CASE ~(cursor > MBPages - 1)
  <2>1. /\ Write(KernelVpn + FirstKpgt, cursor, cursor)
        /\ cursor' = cursor + 1 /\ UNCHANGED <<cr3, tlb, pc, call, cause>>
    BY <1>3 DEF BootFirstMB, BootEntry
  <2>2. cursor \in Entries /\ cursor' \in 0..MBPages /\ cursor' \in 0..N
    BY <1>1, <1>3, <2>1, Sizes DEF Entries
  <2>3. SetUp \in SUBSET Entries /\ SetUp' = SetUp \cup {cursor}
    <3>1. 0..(cursor - 1) \in SUBSET Entries /\ 0..cursor = 0..(cursor - 1) \cup {cursor}
      BY <1>1, <2>2, Sizes DEF Entries
    <3>2. SetUp = Image \cup 0..(cursor - 1) /\ SetUp' = Image \cup 0..cursor
      BY <1>1, <2>1, <2>2 DEF SetUp
    <3> QED
      BY <3>1, <3>2, TableFrames
  <2>4. /\ mem' \in [Tables -> [Entries -> Entry]] /\ TlbInv'
        /\ mem'[BootPgd] = mem[BootPgd] /\ mem'[BootPgt] = mem[BootPgt]
        /\ mem'[Kpgd] = mem[Kpgd] /\ mem'[FirstKpgt] = IdentityOf(SetUp')
    BY <1>1, <2>1, <2>2, <2>3, BootEntryWrites
  <2>5. TypeOK'
    BY <2>1, <2>2, <2>4 DEF TypeOK
  <2>6. BootInv' /\ TablesInv' /\ CallInv'
    BY <1>1, <2>1, <2>2, <2>4 DEF BootInv, TablesInv, CallInv, Booting, On
  <2> QED
    BY <2>1, <2>4, <2>5, <2>6
<1> QED
  BY <1>2, <1>3

\* cr3 is loaded with the kernel's directory, which flushes the TLB.
LEMMA LoadPgdInv == PagingInv /\ LoadPgd => PagingInv'
<1> SUFFICES ASSUME PagingInv, LoadPgd PROVE PagingInv'
  OBVIOUS
<1> USE DEF PagingInv, LoadPgd
<1>1. TypeOK'
  BY TableFrames DEF TypeOK, NoTlb, Entry
<1>2. BootInv'
  BY DEF BootInv, Booting, On
<1>3. TablesInv'
  <2>1. mem' = mem /\ mem[Kpgd] = KernelDirectory /\ mem[FirstKpgt] = IdentityOf(Image \cup FirstMB)
    BY SetUpAt DEF BootInv
  <2>2. KernelPde \in Entries /\ RecPde \in Entries /\ KernelPde # RecPde
    BY Sizes DEF Entries
  <2>3. \A f \in Image \cup FirstMB : mem[FirstKpgt][f] = f
    BY <2>1, TableFrames DEF IdentityOf
  <2>4. /\ mem[Kpgd][KernelPde] = FirstKpgt /\ mem[Kpgd][RecPde] = Kpgd
        /\ \A i \in Entries \ {KernelPde, RecPde} : mem[Kpgd][i] = NoFrame
    BY <2>1, <2>2 DEF KernelDirectory, Empty
  <2>5. \A i, j \in Entries :
            i # j /\ mem[Kpgd][i] # NoFrame => mem[Kpgd][i] # mem[Kpgd][j]
    BY <2>4, TableFrames
  <2> QED
    BY <2>1, <2>3, <2>4, <2>5 DEF TablesInv
<1>4. CallInv' /\ TlbInv'
  BY DEF CallInv, TlbInv, NoTlb
<1> QED
  BY <1>1, <1>2, <1>3, <1>4

\* A client calls for pages to be mapped or unmapped.
LEMMA MapPagesInv ==
    ASSUME PagingInv, NEW v \in UserVpns \cup {0}, NEW f \in MapFrames, NEW n \in 0..MaxPages,
           NEW present \in BOOLEAN, NEW big \in BOOLEAN,
           f .. (f + n - 1) \subseteq MapFrames,
           v .. (v + n - 1) \subseteq UserVpns \cup {0},
           MapPages(v, f, n, present, big)
    PROVE  PagingInv'
<1> USE DEF PagingInv, MapPages
<1>1. TypeOK'
  <2>1. v \in 0..(N * N)
    <3>1. v \in Vpns \/ v = 0
      BY UserPages
    <3>2. N * N \in Nat
      BY Sizes
    <3> QED
      BY <3>1, <3>2 DEF Vpns
  <2>2. f \in 0..N
    BY ClientAssumption, Sizes DEF Frames
  <2> QED
    BY <2>1, <2>2 DEF TypeOK
<1>2. BootInv' /\ TablesInv'
  BY DEF BootInv, TablesInv, Booting, On
<1>3. CallInv' /\ TlbInv'
  BY DEF CallInv, TlbInv, Walk, Content
<1> QED
  BY <1>1, <1>2, <1>3

\* A new table is empty, and nobody has seen a translation through the entry
\* it is put in, so no translation changes but of the page that shows it.
LEMMA SetPdeInv ==
    ASSUME PagingInv, NEW i \in Entries, NEW t \in SpareTables, SetPde(i, t)
    PROVE  PagingInv'
<1> USE DEF PagingInv
<1>1. ~Booting /\ pc = "idle" /\ pc' = "idle" /\ UNCHANGED <<cr3, tlb, cursor, call, cause>>
  BY DEF SetPde, Booting
<1>2. RecPde \in Entries /\ KernelPde \in Entries
  BY Sizes DEF Entries
<1>3. mem' = [mem EXCEPT ![Kpgd] = [@ EXCEPT ![i] = t]]
  BY <1>1, <1>2, RecWalk DEF SetPde, Write, TablesInv
<1>4. /\ mem[Kpgd][i] = NoFrame /\ mem[t] = Empty
      /\ \A j \in Entries : mem[Kpgd][j] # t
  BY <1>1, RecWalk DEF SetPde
<1>5. t \in Tables /\ t \notin Image /\ t \in Frames /\ t # Kpgd
  BY TableFrames DEF Tables
<1>6. /\ mem'[Kpgd] = [mem[Kpgd] EXCEPT ![i] = t]
      /\ \A u \in Tables \ {Kpgd} : mem'[u] = mem[u]
      /\ mem[Kpgd] \in [Entries -> Entry]
  BY <1>3 DEF TypeOK, Tables
<1>7. i # KernelPde /\ i # RecPde
  BY <1>1, <1>4, TableFrames DEF TablesInv
<1>8. TypeOK'
  BY <1>1, <1>3, <1>5, <1>6, TableFrames DEF TypeOK, Entry
<1>9. BootInv'
  BY <1>1, <1>6, TableFrames DEF BootInv, On, Booting, Tables
<1>10. TablesInv'
  <2>1. mem'[Kpgd][KernelPde] = FirstKpgt /\ mem'[Kpgd][RecPde] = Kpgd
    BY <1>1, <1>2, <1>6, <1>7 DEF TablesInv
  <2>2. \A j \in Entries \ {KernelPde, RecPde} : mem'[Kpgd][j] \in SpareTables \cup {NoFrame}
    BY <1>1, <1>6 DEF TablesInv
  <2>3. \A j, k \in Entries :
            j # k /\ mem'[Kpgd][j] # NoFrame => mem'[Kpgd][j] # mem'[Kpgd][k]
    BY <1>1, <1>4, <1>6 DEF TablesInv
  <2>4. \A f \in Image \cup FirstMB : mem'[FirstKpgt][f] = f
    BY <1>1, <1>6, TableFrames DEF TablesInv, Tables
  <2> QED
    BY <2>1, <2>2, <2>3, <2>4 DEF TablesInv
<1>11. CallInv'
  BY <1>1 DEF CallInv
<1>12. TlbInv'
  <2> SUFFICES ASSUME NEW v \in Vpns, tlb[v] # NoFrame PROVE Walk(v)' = Walk(v)
    BY <1>1 DEF TlbInv
  <2>1. cr3 = Kpgd /\ cr3' = Kpgd /\ Kpgd \in Tables
    BY <1>1 DEF BootInv, Tables
  <2>2. Walk(v) = tlb[v]
    BY <1>1 DEF TlbInv
  <2>3. Pde(v) \in Entries /\ Pte(v) \in Entries
    BY PageOf
  <2>4. CASE Pde(v) = i
    <3>1. Walk(v) = NoFrame
      BY <1>4, <2>1, <2>4, TableFrames DEF Walk, Content
    <3> QED
      BY <2>2, <3>1
  <2>5. CASE Pde(v) # i
    <3>1. Content(cr3, Pde(v))' = Content(cr3, Pde(v))
      BY <1>6, <2>1, <2>3, <2>5 DEF Content
    <3>2. CASE mem[Kpgd][Pde(v)] = Kpgd
      <4>1. Walk(v) = mem[Kpgd][Pte(v)] /\ Walk(v)' = mem'[Kpgd][Pte(v)]
        BY <2>1, <3>1, <3>2 DEF Walk, Content
      <4>2. Pte(v) # i
        BY <1>4, <2>2, <4>1
      <4> QED
        BY <1>6, <2>3, <4>1, <4>2
    <3>3. CASE mem[Kpgd][Pde(v)] # Kpgd
      BY <1>6, <2>1, <3>1, <3>3 DEF Walk, Content
    <3> QED
      BY <3>2, <3>3
  <2> QED
    BY <2>4, <2>5
<1> QED
  BY <1>1, <1>8, <1>9, <1>10, <1>11, <1>12

\* mmu_context_load stops: the code that would load the directory is commented out.
LEMMA MmuContextLoadInv ==
    ASSUME PagingInv, NEW context, MmuContextLoad(context)
    PROVE  PagingInv'
BY HaltInv DEF MmuContextLoad, PreserveKernelSpace, Halt, Booting

\* What the loop of map_pages is about to map.
LEMMA CallPages ==
    ASSUME PagingInv, pc \in {"map", "set", "invlpg"}, call.left # 0, call.vpn # 0
    PROVE  /\ call.vpn \in UserVpns /\ call.ppn \in MapFrames
           /\ call.left \in 1..MaxPages
<1>1. call.vpn \in Int /\ call.ppn \in Int /\ call.left \in 1..MaxPages
  BY Sizes, ClientAssumption DEF PagingInv, TypeOK
<1>2. /\ call.vpn .. (call.vpn + call.left - 1) \subseteq UserVpns \cup {0}
      /\ call.ppn .. (call.ppn + call.left - 1) \subseteq MapFrames
  BY DEF PagingInv, CallInv
<1> QED
  BY <1>1, <1>2

\* map_page tests the page it has come to.
LEMMA MapCheckInv == PagingInv /\ MapCheck => PagingInv'
<1> SUFFICES ASSUME PagingInv, MapCheck PROVE PagingInv'
  OBVIOUS
<1> USE DEF PagingInv
<1>1. ~Booting /\ pc = "map"
  BY DEF MapCheck, Booting
<1>2. Translate(RecVpn(RecPde)) # NoFrame
  <2>1. RecPde \in Entries
    BY Sizes DEF Entries
  <2> QED
    BY <1>1, <2>1, RecWalk, TableFrames DEF TablesInv
<1>3. CASE \E why \in {"null", "big", "notable"} : Halt(why)
  BY <1>1, <1>3, HaltInv DEF Halt
<1>4. CASE /\ pc' \in {"idle", "set"} /\ UNCHANGED <<mem, cr3, tlb, cursor, call, cause>>
           /\ pc' = "set" => /\ ~NullPage(call.vpn) /\ ~Done
                             /\ GetPde(Pde(call.vpn)) # NoFrame
  <2>1. TypeOK'
    BY <1>4 DEF TypeOK
  <2>2. BootInv' /\ TablesInv'
    BY <1>1, <1>4 DEF BootInv, TablesInv, Booting, On
  <2>3. TlbInv'
    BY <1>1, <1>4 DEF TlbInv, Walk, Content
  <2>4. CallInv'
    <3>1. SUFFICES ASSUME pc' = "set" PROVE CallInv'
      BY <1>4 DEF CallInv
    <3>2. call.left \in Nat /\ call.left # 0 /\ call.vpn # 0
      BY <1>4, <3>1, ClientAssumption DEF TypeOK, NullPage, Done
    <3>3. mem[Kpgd][Pde(call.vpn)] # NoFrame
      <4>1. Pde(call.vpn) \in Entries
        BY <1>1, <3>2, CallPages, UserPages, PageOf
      <4> QED
        BY <1>1, <1>4, <3>1, <4>1, RecWalk
    <3> QED
      BY <1>1, <1>4, <3>2, <3>3 DEF CallInv
  <2> QED
    BY <1>4, <2>1, <2>2, <2>3, <2>4
<1> QED
  BY <1>2, <1>3, <1>4 DEF MapCheck

\* map_page writes the entry that the walk of its page reads, and no other.
LEMMA MapWrite ==
    ASSUME PagingInv, MapSetPte
    PROVE  LET t == mem[Kpgd][Pde(call.vpn)]
               e == IF call.present THEN call.ppn ELSE NoFrame
           IN /\ call.vpn \in UserVpns /\ e \in MapFrames \cup {NoFrame}
              /\ t \in Tables \ {Kpgd}
              /\ mem' = [mem EXCEPT ![t] = [@ EXCEPT ![Pte(call.vpn)] = e]]
              /\ pc' = "invlpg" /\ UNCHANGED <<cr3, tlb, cursor, call, cause>>
<1> DEFINE t == mem[Kpgd][Pde(call.vpn)]
<1> USE DEF PagingInv
<1>1. ~Booting /\ pc = "set"
  BY DEF MapSetPte, Booting
<1>2. /\ call.vpn \in UserVpns /\ call.ppn \in MapFrames /\ t # NoFrame
  BY <1>1, CallPages, ClientAssumption DEF CallInv, TypeOK
<1>3. Pde(call.vpn) \in Entries /\ Pde(call.vpn) # RecPde /\ RecPde \in Entries
  BY <1>2, UserPages, PageOf, Sizes DEF Entries
<1>4. t \in Tables /\ Translate(RecVpn(Pde(call.vpn))) = t
  BY <1>1, <1>2, <1>3, RecWalk
<1>5. t # Kpgd
  BY <1>1, <1>2, <1>3 DEF TablesInv
<1> QED
  BY <1>2, <1>4, <1>5 DEF MapSetPte, Write, PteOf

\* The write of one entry changes the walk of its page and of no other.
LEMMA MapSetPteWalk ==
    ASSUME PagingInv, MapSetPte, NEW v \in Vpns
    PROVE  Walk(v)' = IF v = call.vpn THEN IF call.present THEN call.ppn ELSE NoFrame
                      ELSE Walk(v)
<1> DEFINE t == mem[Kpgd][Pde(call.vpn)]
           e == IF call.present THEN call.ppn ELSE NoFrame
<1> USE DEF PagingInv
<1>1. ~Booting /\ cr3 = Kpgd /\ cr3' = Kpgd /\ Kpgd \in Tables
  BY MapWrite DEF MapSetPte, Booting, BootInv, Tables
<1>2. /\ call.vpn \in UserVpns /\ t \in Tables \ {Kpgd}
      /\ mem' = [mem EXCEPT ![t] = [@ EXCEPT ![Pte(call.vpn)] = e]]
  BY MapWrite
<1>3. /\ Pde(v) \in Entries /\ Pte(v) \in Entries /\ v = Pde(v) * N + Pte(v)
      /\ Pde(call.vpn) \in Entries /\ Pte(call.vpn) \in Entries
      /\ call.vpn = Pde(call.vpn) * N + Pte(call.vpn)
  BY <1>2, UserPages, PageOf
<1>4. /\ mem'[Kpgd] = mem[Kpgd]
      /\ \A u \in Tables \ {t} : mem'[u] = mem[u]
      /\ mem'[t] = [mem[t] EXCEPT ![Pte(call.vpn)] = e]
      /\ mem[t] \in [Entries -> Entry]
  BY <1>1, <1>2 DEF TypeOK
<1>5. Content(cr3, Pde(v))' = mem[Kpgd][Pde(v)] /\ Content(cr3, Pde(v)) = mem[Kpgd][Pde(v)]
  BY <1>1, <1>4 DEF Content
<1>6. CASE mem[Kpgd][Pde(v)] = t
  <2>1. Pde(v) = Pde(call.vpn)
    BY <1>1, <1>2, <1>3, <1>6, TableFrames DEF TablesInv
  <2>2. v = call.vpn <=> Pte(v) = Pte(call.vpn)
    BY <1>3, <2>1
  <2> QED
    BY <1>2, <1>3, <1>4, <1>5, <1>6, <2>2 DEF Walk, Content
<1>7. CASE mem[Kpgd][Pde(v)] # t
  BY <1>4, <1>5, <1>7 DEF Walk, Content
<1> QED
  BY <1>6, <1>7

\* map_page writes the entry of one page.
LEMMA MapSetPteInv == PagingInv /\ MapSetPte => PagingInv'
<1> SUFFICES ASSUME PagingInv, MapSetPte PROVE PagingInv'
  OBVIOUS
<1> DEFINE t == mem[Kpgd][Pde(call.vpn)]
           e == IF call.present THEN call.ppn ELSE NoFrame
<1> USE DEF PagingInv
<1>1. ~Booting /\ pc = "set" /\ call.left > 0 /\ call.vpn # 0 /\ t # NoFrame
  BY DEF MapSetPte, Booting, CallInv
<1>2. /\ call.vpn \in UserVpns /\ e \in MapFrames \cup {NoFrame} /\ t \in Tables \ {Kpgd}
      /\ mem' = [mem EXCEPT ![t] = [@ EXCEPT ![Pte(call.vpn)] = e]]
      /\ pc' = "invlpg" /\ UNCHANGED <<cr3, tlb, cursor, call, cause>>
  BY MapWrite
<1>3. /\ mem'[Kpgd] = mem[Kpgd] /\ \A u \in Tables \ {t} : mem'[u] = mem[u]
      /\ mem'[t] = [mem[t] EXCEPT ![Pte(call.vpn)] = e]
  BY <1>2 DEF TypeOK, Tables
<1>4. TypeOK'
  BY <1>2, TableFrames DEF TypeOK, Entry
<1>5. /\ Pde(call.vpn) \in Entries /\ Pte(call.vpn) \in Entries
      /\ call.vpn = Pde(call.vpn) * N + Pte(call.vpn)
      /\ KernelPde \in Entries
  BY <1>2, UserPages, PageOf, Sizes DEF Entries
<1>6. t \notin {BootPgd, BootPgt}
  BY <1>1, <1>2, <1>5, TableFrames DEF TablesInv
<1>7. BootInv'
  BY <1>1, <1>2, <1>3, <1>6 DEF BootInv, Booting, On, Tables
<1>8. TablesInv'
  <2>1. \A f \in Image \cup FirstMB : mem'[FirstKpgt][f] = f
    <3> SUFFICES ASSUME NEW f \in Image \cup FirstMB PROVE mem'[FirstKpgt][f] = f
      OBVIOUS
    <3>1. mem[FirstKpgt][f] = f /\ f \in Entries
      BY <1>1, TableFrames DEF TablesInv
    <3>2. CASE t = FirstKpgt
      <4>1. Pde(call.vpn) = KernelPde
        BY <1>1, <1>5, <3>2 DEF TablesInv
      <4>2. Pte(call.vpn) # f
        BY <1>2, <1>5, <4>1, UserPages DEF KernelVpn
      <4> QED
        BY <1>2, <1>3, <1>5, <3>1, <3>2, <4>2 DEF TypeOK
    <3>3. CASE t # FirstKpgt
      BY <1>3, <3>1, <3>3 DEF Tables
    <3> QED
      BY <3>2, <3>3
  <2> QED
    BY <1>1, <1>3, <2>1 DEF TablesInv
<1>9. CallInv'
  <2>1. Walk(call.vpn)' = e
    BY <1>2, MapSetPteWalk, UserPages
  <2> QED
    BY <1>1, <1>2, <1>3, <2>1 DEF CallInv, Walk, Content
<1>10. TlbInv'
  BY <1>1, <1>2, MapSetPteWalk DEF TlbInv
<1> QED
  BY <1>2, <1>4, <1>7, <1>8, <1>9, <1>10

\* invlpg drops what the TLB has of the page just written.
LEMMA MapInvlpgInv == PagingInv /\ MapInvlpg => PagingInv'
<1> SUFFICES ASSUME PagingInv, MapInvlpg PROVE PagingInv'
  OBVIOUS
<1> USE DEF PagingInv, MapInvlpg
<1>1. pc = "invlpg" /\ call.left # 0 /\ call.vpn # 0
  BY Sizes, ClientAssumption DEF CallInv, TypeOK
<1>2. call.vpn \in UserVpns /\ call.ppn \in MapFrames /\ call.left \in 1..MaxPages
  BY <1>1, CallPages
<1>3. call.vpn \in Vpns /\ call.vpn \in Nat /\ call.ppn \in Nat /\ call.left \in Nat
  BY <1>2, UserPages, ClientAssumption DEF TypeOK
<1>4. /\ call' = [call EXCEPT !.vpn = call.vpn + 1, !.ppn = call.ppn + 1, !.left = call.left - 1]
      /\ call.present \in BOOLEAN /\ call.big \in BOOLEAN
  BY DEF TypeOK
<1>5. /\ call'.vpn = call.vpn + 1 /\ call'.ppn = call.ppn + 1 /\ call'.left = call.left - 1
  BY <1>4 DEF TypeOK
<1>6. TypeOK'
  <2>1. call.vpn + 1 \in 0..(N * N)
    BY <1>3, Sizes DEF Vpns
  <2>2. call.ppn + 1 \in 0..N
    BY <1>2, <1>3, ClientAssumption, Sizes DEF Frames
  <2>3. call.left - 1 \in 0..MaxPages
    BY <1>2, ClientAssumption
  <2>4. call' \in [vpn : 0..(N * N), ppn : 0..N, left : 0..MaxPages,
                   present : BOOLEAN, big : BOOLEAN]
    BY <1>4, <2>1, <2>2, <2>3 DEF TypeOK
  <2>5. tlb' \in [Vpns -> Entry]
    BY <1>3 DEF TypeOK, Invlpg, Entry
  <2> QED
    BY <2>4, <2>5 DEF TypeOK
<1>7. BootInv' /\ TablesInv'
  BY DEF BootInv, TablesInv, Booting, On
<1>8. CallInv'
  <2>1. call'.vpn .. (call'.vpn + call'.left - 1) \subseteq call.vpn .. (call.vpn + call.left - 1)
    BY <1>3, <1>5
  <2>2. call'.ppn .. (call'.ppn + call'.left - 1) \subseteq call.ppn .. (call.ppn + call.left - 1)
    BY <1>3, <1>5
  <2> QED
    BY <2>1, <2>2 DEF CallInv
<1>9. TlbInv'
  BY <1>3 DEF TlbInv, Invlpg, Walk, Content, TypeOK
<1> QED
  BY <1>6, <1>7, <1>8, <1>9

\* The processor keeps a translation it has walked, or drops one.
LEMMA TlbStepInv ==
    ASSUME PagingInv, NEW v \in Watched, Keep(v) \/ Drop(v)
    PROVE  PagingInv'
<1> USE DEF PagingInv
<1>1. v \in Vpns
  BY ClientAssumption
<1>2. /\ tlb' = [tlb EXCEPT ![v] = Walk(v)] \/ tlb' = [tlb EXCEPT ![v] = NoFrame]
      /\ pc # "halted" /\ (On \/ tlb[v] # NoFrame)
      /\ UNCHANGED <<mem, cr3, pc, cursor, call, cause>>
  BY DEF Keep, Drop
<1>3. Walk(v) \in Entry
  BY <1>1, WalkType
<1>4. TypeOK'
  BY <1>2, <1>3 DEF TypeOK, Entry
<1>5. BootInv'
  <2>1. On
    BY <1>1, <1>2 DEF BootInv, NoTlb
  <2> QED
    BY <1>2, <2>1 DEF BootInv, On, Booting, SetUp
<1>6. TablesInv' /\ CallInv'
  BY <1>2 DEF TablesInv, CallInv, Booting, Walk, Content
<1>7. TlbInv'
  BY <1>1, <1>2 DEF TlbInv, Walk, Content, TypeOK
<1> QED
  BY <1>2, <1>4, <1>5, <1>6, <1>7

\* A step that changes nothing.
LEMMA StutterInv == PagingInv /\ UNCHANGED vars => PagingInv'
BY DEF vars, PagingInv, TypeOK, BootInv, TablesInv, CallInv, TlbInv, SetUp, On, Booting,
       Walk, Content

\* Every step keeps the invariant: one case for each disjunct of Next.
LEMMA StepInv == PagingInv /\ [Next]_vars => PagingInv'
<1> SUFFICES ASSUME PagingInv, [Next]_vars PROVE PagingInv'
  OBVIOUS
<1>1. CASE Boot
  BY <1>1, SetBootPgtInv, BootEnablePagingInv, JumpInv, BootClearInv, BootDirectoryInv,
     BootImageInv, BootFirstMBInv, LoadPgdInv DEF Boot
<1>2. CASE Client
  <2>1. ASSUME NEW i \in {Pde(v) : v \in UserVpns}, NEW t \in SpareTables, SetPde(i, t)
        PROVE  PagingInv'
    <3>1. i \in Entries
      BY UserPages, PageOf
    <3> QED
      BY <2>1, <3>1, SetPdeInv
  <2> QED
    BY <1>2, <2>1, MapPagesInv, MmuContextLoadInv DEF Client
<1>3. CASE MapStep
  BY <1>3, MapCheckInv, MapSetPteInv, MapInvlpgInv DEF MapStep
<1>4. CASE Tlb
  BY <1>4, TlbStepInv DEF Tlb
<1>5. CASE Halted \/ UNCHANGED vars
  BY <1>5, StutterInv DEF Halted
<1> QED
  BY <1>1, <1>2, <1>3, <1>4, <1>5 DEF Next

\* The inductive invariant of paging, booted or booting, with and without a
\* call of map_pages in progress and whatever the TLB keeps.
THEOREM PagingInvariant == Spec => []PagingInv
<1>1. Init => PagingInv
  BY InitInv
<1>2. PagingInv /\ [Next]_vars => PagingInv'
  BY StepInv
<1> QED
  BY <1>1, <1>2, PTL DEF Spec

\* Every variable has its type.
THEOREM PagingTypeCorrect == Spec => []TypeOK
<1>1. PagingInv => TypeOK
  BY DEF PagingInv
<1> QED
  BY <1>1, PagingInvariant, PTL

\* The image of the kernel is where the kernel expects it, across the three
\* mappings it runs on, and no access to a page table ever faults.
THEOREM KernelAlwaysMapped == Spec => []KernelStaysMapped
<1>1. PagingInv => KernelStaysMapped
  <2> SUFFICES ASSUME PagingInv, On, NEW f \in Image
               PROVE  Translate((IF pc = "jump" THEN 0 ELSE KernelVpn) + f) = f
    BY DEF KernelStaysMapped, PagingInv
  <2>1. f \in Entries \ {0} /\ f \in Int
    BY TableFrames, Sizes DEF Entries
  <2>2. CASE Booting
    BY <2>1, <2>2, BootWalk
  <2>3. CASE ~Booting
    BY <2>3, RecWalk DEF Booting
  <2> QED
    BY <2>2, <2>3
<1> QED
  BY <1>1, PagingInvariant, PTL

\* Between calls no stale translation is left, whatever was mapped.
THEOREM TlbNeverStale == Spec => []TlbCoherent
<1>1. PagingInv => TlbCoherent
  BY DEF PagingInv, TlbInv, TlbCoherent
<1> QED
  BY <1>1, PagingInvariant, PTL

\* virt_to_phys_addr and the processor agree on every page.
THEOREM VirtToPhysExact == Spec => []VirtToPhysAgrees
<1>1. PagingInv => VirtToPhysAgrees
  <2> SUFFICES ASSUME PagingInv, pc = "idle", NEW v \in Vpns
               PROVE  VirtToPhys(v) = IF Translate(v) = NoFrame THEN 0 ELSE Translate(v)
    BY DEF VirtToPhysAgrees
  <2>1. ~Booting /\ cr3 = Kpgd /\ Kpgd \in Tables
    BY DEF PagingInv, BootInv, Booting, Tables
  <2>2. Pde(v) \in Entries /\ Pte(v) \in Entries
    BY PageOf
  <2>3. Translate(v) = Content(mem[Kpgd][Pde(v)], Pte(v))
    BY <2>1, Coherent DEF PagingInv, Walk, Content
  <2>4. /\ GetPde(Pde(v)) = mem[Kpgd][Pde(v)]
        /\ GetPte(Pde(v), Pte(v)) = Content(mem[Kpgd][Pde(v)], Pte(v))
    BY <2>1, <2>2, RecWalk DEF GetPte
  <2> QED
    BY <2>3, <2>4, TableFrames DEF VirtToPhys, Content
<1> QED
  BY <1>1, PagingInvariant, PTL

\* Until _kpgd is loaded nothing of the space shows.
LEMMA BootHidden ==
    ASSUME PagingInv, Boot, ~LoadPgd
    PROVE  UNCHANGED <<SpaceMap, cr3 = Kpgd, pc = "halted">>
<1>1. /\ pc \in {"start", "enable", "jump", "clear", "dir", "image", "first"}
      /\ cr3 = BootPgd
  BY DEF Boot, SetBootPgt, BootEnablePaging, JumpToKernelSpace, BootClear, BootDirectory,
         BootImage, BootFirstMB, BootEntry, PagingInv, BootInv, Booting
<1>2. PagingInv'
  BY StepInv DEF Next
<1>3. cr3' = BootPgd
  BY <1>1, TableFrames DEF Boot, SetBootPgt, BootEnablePaging, JumpToKernelSpace, BootClear,
     BootDirectory, BootImage, BootFirstMB, BootEntry, Halt
<1>4. pc' # "halted"
  BY <1>2, <1>3, TableFrames DEF PagingInv, BootInv, Booting
<1> QED
  BY <1>1, <1>3, <1>4, TableFrames DEF SpaceMap, NothingMapped

\* Loading cr3 starts the abstract address space: the kernel and nothing else.
LEMMA LoadPgdStarts == PagingInv /\ LoadPgd => Space!Start
<1> SUFFICES ASSUME PagingInv, LoadPgd PROVE Space!Start
  OBVIOUS
<1>1. /\ cr3 = BootPgd /\ cr3' = Kpgd /\ mem' = mem /\ tlb' = NoTlb
      /\ pc = "load" /\ pc' = "idle"
      /\ mem[Kpgd] = KernelDirectory /\ mem[FirstKpgt] = IdentityOf(Image \cup FirstMB)
  BY SetUpAt DEF LoadPgd, PagingInv, BootInv, Booting
<1>2. ASSUME NEW v \in SpacePages PROVE Translate(v)' = BootMap[v]
  <2>1. v \in Vpns /\ Pde(v) # RecPde
    BY DEF SpacePages
  <2>2. Pde(v) \in Entries /\ Pte(v) \in Entries /\ v = Pde(v) * N + Pte(v)
    BY <2>1, PageOf
  <2>3. Translate(v)' = Walk(v)'
    BY <1>1, <2>1 DEF Translate, NoTlb
  <2>4. CASE Pde(v) = KernelPde
    <3>1. Walk(v)' = mem[FirstKpgt][Pte(v)]
      BY <1>1, <2>1, <2>2, <2>4, Sizes DEF Walk, Content, Tables, KernelDirectory, Empty
    <3>2. v - KernelVpn = Pte(v)
      BY <2>2, <2>4, Sizes DEF KernelVpn, Entries
    <3> QED
      BY <1>1, <1>2, <2>2, <2>3, <3>1, <3>2 DEF BootMap, IdentityOf, FirstMB
  <2>5. CASE Pde(v) # KernelPde
    <3>1. Walk(v)' = NoFrame
      BY <1>1, <2>1, <2>2, <2>5, TableFrames DEF Walk, Content, Tables, KernelDirectory, Empty
    <3>2. v - KernelVpn \notin Image \cup FirstMB
      <4>1. SUFFICES ASSUME v - KernelVpn \in Image \cup FirstMB PROVE FALSE
        OBVIOUS
      <4>2. v - KernelVpn \in Entries /\ v \in Int /\ KernelVpn \in Int
        BY <2>1, <4>1, TableFrames, Sizes DEF Vpns, KernelVpn
      <4>3. v = KernelVpn + (v - KernelVpn)
        BY <4>2
      <4> QED
        BY <2>5, <4>2, <4>3, Pages
    <3> QED
      BY <1>2, <2>3, <3>1, <3>2 DEF BootMap, FirstMB
  <2> QED
    BY <2>4, <2>5
<1>3. SpaceMap' = BootMap
  BY <1>1, <1>2 DEF SpaceMap, BootMap
<1> QED
  BY <1>1, <1>3, TableFrames DEF Space!Start

\* An empty table shows no page where none was.
LEMMA SetPdeHidden ==
    ASSUME PagingInv, NEW i \in Entries, NEW t \in SpareTables, SetPde(i, t)
    PROVE  UNCHANGED <<SpaceMap, cr3 = Kpgd, pc = "halted">>
<1> USE DEF PagingInv
<1>1. ~Booting /\ pc = "idle" /\ UNCHANGED <<cr3, tlb, pc>> /\ cr3 = Kpgd /\ Kpgd \in Tables
  BY DEF SetPde, Booting, BootInv, Tables
<1>2. RecPde \in Entries /\ t \in Tables /\ t # Kpgd
  BY Sizes, TableFrames DEF Entries, Tables
<1>3. mem' = [mem EXCEPT ![Kpgd] = [@ EXCEPT ![i] = t]]
  BY <1>1, <1>2, RecWalk DEF SetPde, Write, TablesInv
<1>4. /\ mem[Kpgd][i] = NoFrame /\ mem[t] = Empty /\ mem[Kpgd][RecPde] = Kpgd
      /\ mem[Kpgd] \in [Entries -> Entry]
  BY <1>1, RecWalk DEF SetPde, TablesInv, TypeOK
<1>5. /\ mem'[Kpgd] = [mem[Kpgd] EXCEPT ![i] = t]
      /\ \A u \in Tables \ {Kpgd} : mem'[u] = mem[u]
  BY <1>1, <1>3 DEF TypeOK
<1>6. ASSUME NEW v \in SpacePages PROVE Translate(v)' = Translate(v)
  <2>1. Pde(v) \in Entries /\ Pte(v) \in Entries /\ Pde(v) # RecPde
    BY PageOf DEF SpacePages
  <2>2. mem[Kpgd][Pde(v)] # Kpgd
    BY <1>1, <1>2, <1>4, <2>1, TableFrames DEF TablesInv
  <2>3. Walk(v)' = Walk(v)
    <3>1. CASE Pde(v) = i
      BY <1>1, <1>2, <1>4, <1>5, <2>1, <3>1, TableFrames DEF Walk, Content, Empty
    <3>2. CASE Pde(v) # i
      BY <1>1, <1>4, <1>5, <2>1, <2>2, <3>2 DEF Walk, Content
    <3> QED
      BY <3>1, <3>2
  <2> QED
    BY <1>1, <2>3 DEF Translate
<1> QED
  BY <1>1, <1>6 DEF SpaceMap

\* map_page changes the page for its users at the entry, or at invlpg when
\* the TLB has kept the old frame.
LEMMA MapSetPteMaps ==
    ASSUME PagingInv, MapSetPte
    PROVE  \/ Space!Map(call.vpn, IF call.present THEN call.ppn ELSE NoFrame)
           \/ UNCHANGED <<SpaceMap, cr3 = Kpgd, pc = "halted">>
<1> DEFINE e == IF call.present THEN call.ppn ELSE NoFrame
<1>1. /\ cr3 = Kpgd /\ UNCHANGED <<cr3, tlb>> /\ pc = "set" /\ pc' = "invlpg"
      /\ call.vpn \in UserVpns
  BY MapWrite DEF PagingInv, BootInv, Booting, MapSetPte
<1>2. call.vpn \in SpacePages
  BY <1>1, UserPages DEF SpacePages
<1>3. \A v \in SpacePages :
          Translate(v)' = IF v = call.vpn /\ tlb[v] = NoFrame THEN e ELSE Translate(v)
  BY <1>1, MapSetPteWalk DEF Translate, SpacePages
<1>4. CASE tlb[call.vpn] = NoFrame
  <2>1. SpaceMap' = [SpaceMap EXCEPT ![call.vpn] = e]
    BY <1>1, <1>2, <1>3, <1>4 DEF SpaceMap
  <2> QED
    BY <1>1, <2>1 DEF Space!Map
<1>5. CASE tlb[call.vpn] # NoFrame
  BY <1>1, <1>3, <1>5 DEF SpaceMap
<1> QED
  BY <1>4, <1>5

\* A page changes for clients when its translation is flushed.
LEMMA MapInvlpgMaps ==
    ASSUME PagingInv, MapInvlpg
    PROVE  Space!Map(call.vpn, IF call.present THEN call.ppn ELSE NoFrame)
<1>1. /\ cr3 = Kpgd /\ UNCHANGED <<mem, cr3>> /\ pc = "invlpg" /\ pc' = "map"
      /\ tlb' = [tlb EXCEPT ![call.vpn] = NoFrame] /\ tlb \in [Vpns -> Entry]
  BY DEF PagingInv, BootInv, Booting, MapInvlpg, Invlpg, TypeOK
<1>2. call.vpn \in UserVpns
  BY <1>1, CallPages, ClientAssumption DEF PagingInv, CallInv, TypeOK
<1>3. call.vpn \in SpacePages /\ call.vpn \in Vpns
  BY <1>2, UserPages DEF SpacePages
<1>4. Walk(call.vpn) = IF call.present THEN call.ppn ELSE NoFrame
  BY <1>1 DEF PagingInv, CallInv
<1>5. \A v \in SpacePages :
          Translate(v)' = IF v = call.vpn THEN Walk(v) ELSE Translate(v)
  BY <1>1, <1>3 DEF Translate, Walk, Content, SpacePages
<1>6. SpaceMap' = [SpaceMap EXCEPT ![call.vpn] = Walk(call.vpn)]
  BY <1>1, <1>3, <1>5 DEF SpaceMap
<1> QED
  BY <1>1, <1>4, <1>6 DEF Space!Map

\* What the TLB keeps or drops shows only when it drops the page map_page has
\* just changed.
LEMMA TlbMaps ==
    ASSUME PagingInv, NEW v \in Watched, Keep(v) \/ Drop(v)
    PROVE  \/ /\ pc = "invlpg" /\ v = call.vpn
              /\ Space!Map(v, IF call.present THEN call.ppn ELSE NoFrame)
           \/ UNCHANGED <<SpaceMap, cr3 = Kpgd, pc = "halted">>
<1>1. /\ v \in Vpns /\ pc # "halted" /\ UNCHANGED <<mem, cr3, pc, call>>
      /\ tlb \in [Vpns -> Entry]
      /\ \/ tlb[v] = NoFrame /\ tlb' = [tlb EXCEPT ![v] = Walk(v)]
         \/ tlb[v] # NoFrame /\ tlb' = [tlb EXCEPT ![v] = NoFrame]
  BY ClientAssumption DEF Keep, Drop, PagingInv, TypeOK
<1>2. \A u \in Vpns : Translate(u)' = IF u = v THEN Walk(v) ELSE Translate(u)
  BY <1>1 DEF Translate, Walk, Content
<1>3. CASE Translate(v) = Walk(v)
  BY <1>1, <1>2, <1>3 DEF SpaceMap, SpacePages
<1>4. CASE Translate(v) # Walk(v)
  <2>1. pc = "invlpg" /\ v = call.vpn /\ cr3 = Kpgd
    BY <1>1, <1>4 DEF PagingInv, TlbInv, BootInv, Booting, Translate
  <2>2. Walk(v) = IF call.present THEN call.ppn ELSE NoFrame
    BY <2>1 DEF PagingInv, CallInv
  <2>3. v \in SpacePages
    BY <1>1, <2>1, CallPages, UserPages, ClientAssumption
    DEF PagingInv, CallInv, TypeOK, SpacePages
  <2>4. SpaceMap' = [SpaceMap EXCEPT ![v] = Walk(v)]
    BY <1>1, <1>2, <2>1, <2>3 DEF SpaceMap, SpacePages
  <2> QED
    BY <1>1, <2>1, <2>2, <2>4 DEF Space!Map
<1> QED
  BY <1>3, <1>4

\* To its users paging is AddressSpace: one map, set up at once at boot, of
\* which each call changes the pages it was asked for, one at a time, in spite
\* of the TLB and of the tables' being changed through themselves.
THEOREM PagingImplementsAddressSpace == Spec => ImplementsAddressSpace
<1>1. Init => Space!Init
  BY TableFrames DEF Init, Space!Init, SpaceMap, NothingMapped
<1>2. PagingInv /\ [Next]_vars
        => [Space!Next]_<<SpaceMap, cr3 = Kpgd, pc = "halted">>
  <2> SUFFICES ASSUME PagingInv, [Next]_vars
               PROVE  Space!Next \/ UNCHANGED <<SpaceMap, cr3 = Kpgd, pc = "halted">>
    OBVIOUS
  <2> DEFINE e == IF call.present THEN call.ppn ELSE NoFrame
  <2>1. ASSUME pc \in {"set", "invlpg"}
        PROVE  call.vpn \in UserVpns /\ e \in MapFrames \cup {NoFrame}
    BY <2>1, CallPages, ClientAssumption DEF PagingInv, CallInv, TypeOK
  <2>2. CASE Boot
    BY <2>2, BootHidden, LoadPgdStarts DEF Space!Next
  <2>3. CASE Client
    <3>1. ASSUME NEW i \in {Pde(v) : v \in UserVpns}, NEW t \in SpareTables, SetPde(i, t)
          PROVE  UNCHANGED <<SpaceMap, cr3 = Kpgd, pc = "halted">>
      <4>1. i \in Entries
        BY UserPages, PageOf
      <4> QED
        BY <3>1, <4>1, SetPdeHidden
    <3>2. ASSUME NEW v, NEW f, NEW n, NEW present, NEW big, MapPages(v, f, n, present, big)
          PROVE  UNCHANGED <<SpaceMap, cr3 = Kpgd, pc = "halted">>
      BY <3>2 DEF MapPages, SpaceMap, Translate, Walk, Content
    <3>3. ASSUME NEW context, MmuContextLoad(context)
          PROVE  Space!Stop
      BY <3>3 DEF MmuContextLoad, PreserveKernelSpace, Halt, Space!Stop, SpaceMap, Translate,
                  Walk, Content
    <3> QED
      BY <2>3, <3>1, <3>2, <3>3 DEF Client, Space!Next
  <2>4. CASE MapStep
    <3>1. CASE MapCheck
      <4>1. /\ UNCHANGED <<mem, cr3, tlb>>
            /\ pc = "map"
        BY <3>1 DEF MapCheck, Halt
      <4>2. UNCHANGED <<SpaceMap, cr3 = Kpgd>> /\ pc # "halted"
        BY <4>1 DEF SpaceMap, Translate, Walk, Content
      <4> QED
        BY <4>2 DEF Space!Next, Space!Stop
    <3>2. CASE MapSetPte
      BY <2>1, <3>2, MapSetPteMaps DEF MapSetPte, Space!Next
    <3>3. CASE MapInvlpg
      BY <2>1, <3>3, MapInvlpgMaps DEF MapInvlpg, Space!Next
    <3> QED
      BY <2>4, <3>1, <3>2, <3>3 DEF MapStep
  <2>5. CASE Tlb
    BY <2>1, <2>5, TlbMaps DEF Tlb, Space!Next
  <2>6. CASE Halted \/ UNCHANGED vars
    BY <2>6 DEF Halted, vars, SpaceMap, Translate, Walk, Content
  <2> QED
    BY <2>2, <2>3, <2>4, <2>5, <2>6 DEF Next
<1> QED
  BY <1>1, <1>2, PagingInvariant, PTL DEF Spec, ImplementsAddressSpace, Space!Spec
=============================================================================
