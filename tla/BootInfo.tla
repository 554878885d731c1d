------------------------------ MODULE BootInfo ------------------------------
(***************************************************************************)
(* What the kernel learns from the boot loader and the firmware:           *)
(* kernel/mboot2.c walks the Multiboot2 tags for the memory map and for    *)
(* the RSDP, kernel/acpi_hw.c follows the RSDP to the MADT and collects    *)
(* the processors and the I/O APIC, smp_bootstrap_apic_map numbers the     *)
(* processors, and thread_subsystem_early_init makes their idle threads.   *)
(*                                                                         *)
(* A tag is a record with its type, its size in bytes and what the walk    *)
(* reads of it; a table is a record with its signature, whether length and *)
(* checksum are in order, and its body: pointers, or entries of a MADT.    *)
(* An entry fits if it has two bytes or more and ends in the table; one    *)
(* too short for its type is of no type that matters.                      *)
(***************************************************************************)
EXTENDS Naturals, FiniteSets, SequencesExt

CONSTANTS Infos,      \* [tags, total, tables]: what a machine may start with
          AddrSize,   \* 2^32
          MaxCpus,    \* MAX_CPUS_HW, MAX_APIC and MAX_SMP_CPU
          Ids,        \* local APIC ids
          Bsp         \* the id of the boot processor

NoIndex == 255

ASSUME BootInfoAssumption ==
  /\ AddrSize \in Nat /\ MaxCpus \in Nat \ {0}
  /\ Bsp \in Ids /\ NoIndex \notin 0 .. MaxCpus

\* Processors and I/O APICs of a MADT.
Enabled(m) == { i \in DOMAIN m : m[i].type = "lapic" /\ m[i].enabled }
IoApics(m) == { i \in DOMAIN m : m[i].type = "ioapic" }

\* The firmware lists the boot processor first and no processor twice; 0 is not
\* the page of an I/O APIC.
ASSUME FirmwareAssumption ==
  \A x \in Infos : \A a \in DOMAIN x.tables :
    LET m == x.tables[a].body IN
    /\ m \in Seq(ToSet(m))
    /\ x.tables[a].good /\ x.tables[a].sig = "APIC" =>
      /\ \A i \in Enabled(m) : m[i].id \in Ids
      /\ \A i, j \in Enabled(m) : m[i].id = m[j].id => i = j
      /\ \A i \in Enabled(m) : (\A j \in Enabled(m) : i <= j) => m[i].id = Bsp
      /\ \A i \in IoApics(m) : m[i].page \in Nat \ {0}

VARIABLES info,      \* what the boot loader handed over
          hw,        \* g_cpu_apic_ids, g_ioapic_phys (0 without one), g_hw_inited
          logical,   \* g_apic_to_logical
          idles      \* CPUs with g_idle_for_cpu

bootinfo == <<info, hw, logical, idles>>

(***************************************************************************)
(* The walk over the tags.                                                 *)
(***************************************************************************)
tags == info.tags
HeaderOk == info.total >= 16 /\ info.total % 8 = 0

\* Where tag i begins: behind the fixed part and the tags before it.
TagAt == LET at[i \in 1 .. Len(tags) + 1] ==
               IF i = 1 THEN 8 ELSE at[i - 1] + tags[i - 1].size
         IN at

TagOk(i) == /\ tags[i].size >= 8 /\ tags[i].size % 8 = 0
            /\ TagAt[i] + tags[i].size <= info.total

WalkEnds(i) == \/ TagAt[i] + 8 > info.total
               \/ TagOk(i) /\ tags[i].type = "end"

\* The tags that the walk comes to, up to the first it rejects.
Visited == { i \in DOMAIN tags : /\ \A j \in 1 .. i : ~ WalkEnds(j)
                                 /\ \A j \in 1 .. i - 1 : TagOk(j) }

MmapOk(t) == t.size >= 16 + 24 /\ t.esz >= 24

walk_mmap_entries ==
  /\ HeaderOk
  /\ \A i \in Visited : TagOk(i) /\ (tags[i].type = "mmap" => MmapOk(tags[i]))

\* The ranges mb2_for_each_available calls back with.
mb2_for_each_available ==
  { <<e.base, e.base + e.length>> :
      e \in { x \in UNION { ToSet(tags[i].entries) : i \in
                              { j \in Visited : tags[j].type = "mmap" } } :
                x.available /\ x.length # 0 } }

\* The first tag of the type, if the walk comes to it and it has a payload.
find_acpi_tag(type) ==
  LET found == { i \in Visited : TagOk(i) /\ tags[i].type = type } IN
  IF HeaderOk /\ found # {} /\ tags[Min(found)].size > 8
  THEN <<tags[Min(found)]>> ELSE << >>

mb2_find_rsdp_payload ==
  LET new == find_acpi_tag("acpi_new") IN
  SelectSeq(IF new # << >> THEN new ELSE find_acpi_tag("acpi_old"),
            LAMBDA t : t.size - 8 <= 128)

(***************************************************************************)
(* From the RSDP to the MADT.                                              *)
(***************************************************************************)
table(a) == info.tables[a]

\* Length and checksum are in order; there may be no table where a pointer leads.
tbl_ok(a) == a \in DOMAIN info.tables /\ table(a).good

\* The pointers of a root that the scan follows, by their places.
PointedAt(root, xsdt) ==
  { i \in DOMAIN table(root).body :
      LET a == table(root).body[i] IN a # 0 /\ (xsdt => a < AddrSize) }

IsMadt(a) == tbl_ok(a) /\ table(a).sig = "APIC"

Madts(root, xsdt) == { i \in PointedAt(root, xsdt) : IsMadt(table(root).body[i]) }

Broken(m) == { i \in DOMAIN m : ~ m[i].fits }

\* One entry of the table.
MadtEntry(r, e) ==
  CASE e.type = "lapic" /\ e.enabled /\ Len(r.cpus) < MaxCpus
         -> [r EXCEPT !.cpus = Append(@, e.id)]
    [] e.type = "ioapic" /\ r.ioapic = 0 -> [r EXCEPT !.ioapic = e.page]
    [] OTHER -> r

\* Wrong on purpose: an I/O APIC found earlier is kept.
madt_collect_keeps_ioapic(s, m) ==
  LET n == Min(Broken(m) \cup {Len(m) + 1}) - 1
      read[i \in 0 .. n] == IF i = 0 THEN [cpus |-> << >>, ioapic |-> s.ioapic]
                            ELSE MadtEntry(read[i - 1], m[i])
  IN [cpus |-> IF Broken(m) = {} THEN read[n].cpus ELSE s.cpus,
      ioapic |-> read[n].ioapic, inited |-> Broken(m) = {}]

\* The entries of m, up to the first that is malformed: g_has_ioapic follows
\* each of them, g_cpu_count is set behind the last.
madt_collect(s, m) ==
  LET n == Min(Broken(m) \cup {Len(m) + 1}) - 1
      read[i \in 0 .. n] == IF i = 0 THEN [cpus |-> << >>, ioapic |-> 0]
                            ELSE MadtEntry(read[i - 1], m[i])
  IN [cpus |-> IF Broken(m) = {} THEN read[n].cpus ELSE s.cpus,
      ioapic |-> read[n].ioapic, inited |-> Broken(m) = {}]

\* The first MADT decides, whether it is whole or not.
scan_root(s, xsdt, root) ==
  IF tbl_ok(root) /\ Madts(root, xsdt) # {}
  THEN madt_collect(s, table(table(root).body[Min(Madts(root, xsdt))]).body) ELSE s

\* The tables that the scan reads: the root, and what it points to up to the
\* first MADT.
ScanReads(root, xsdt) ==
  {root} \cup IF tbl_ok(root)
              THEN { table(root).body[i] :
                       i \in { j \in PointedAt(root, xsdt) :
                               \A k \in Madts(root, xsdt) : j <= k } }
              ELSE {}

\* rsdp_parse: the RSDP, if length and checksum are in order
Rsdp == SelectSeq(mb2_find_rsdp_payload, LAMBDA t : t.size - 8 >= 20 /\ t.good)

UsesXsdt(p) == p.size - 8 >= 36 /\ p.rev >= 2 /\ p.xsdt # 0 /\ p.xsdt < AddrSize

\* The XSDT first; the RSDT when that led to nothing.
AcpiScan(p) ==
  LET x == IF UsesXsdt(p) THEN scan_root(hw, TRUE, p.xsdt) ELSE hw IN
  IF ~ x.inited /\ p.rsdt # 0 THEN scan_root(x, FALSE, p.rsdt) ELSE x

AcpiReads(p) ==
  LET first == IF UsesXsdt(p) THEN ScanReads(p.xsdt, TRUE) ELSE {}
      x == IF UsesXsdt(p) THEN scan_root(hw, TRUE, p.xsdt) ELSE hw IN
  first \cup IF ~ x.inited /\ p.rsdt # 0 THEN ScanReads(p.rsdt, FALSE) ELSE {}

acpi_hw_init ==
  /\ hw' = IF Rsdp = << >> THEN hw ELSE AcpiScan(Head(Rsdp))
  /\ UNCHANGED <<info, logical, idles>>

(***************************************************************************)
(* Numbers and idle threads for the processors.                            *)
(***************************************************************************)
\* The processors smp_bootstrap_apic_map and smp_init go through.
CpuList == IF hw.cpus = << >> THEN <<Bsp>> ELSE hw.cpus

\* Wrong on purpose: numbers begin at one.
smp_bootstrap_apic_map_from_one ==
  /\ logical' = [id \in Ids |-> Max({ i \in DOMAIN CpuList : CpuList[i] = id }
                                    \cup {0})]
  /\ UNCHANGED <<info, hw, idles>>

smp_bootstrap_apic_map ==
  /\ logical' = [id \in Ids |->
                   LET at == { i \in DOMAIN CpuList : CpuList[i] = id } IN
                   IF at = {} THEN NoIndex ELSE Max(at) - 1]
  /\ UNCHANGED <<info, hw, idles>>

smp_cpu_index(id) == IF logical[id] = NoIndex THEN 0 ELSE logical[id]

thread_subsystem_early_init ==
  /\ idles' = 1 .. Len(CpuList) - 1
  /\ UNCHANGED <<info, hw, logical>>

BootInfoInit ==
  /\ info \in Infos
  /\ hw = [cpus |-> << >>, ioapic |-> 0, inited |-> FALSE]
  /\ logical = [id \in Ids |-> NoIndex]
  /\ idles = {}
-----------------------------------------------------------------------------
\* What the kernel knows of the processors and of the I/O APIC is what one
\* MADT says, although a broken one may have been read before: the processors
\* that are enabled, in the order of the table and up to the limit, and the
\* first I/O APIC.
TablesWhole ==
  IF hw.inited
  THEN \E a \in DOMAIN info.tables :
         LET m == table(a).body
             upto(i) == Cardinality({ j \in Enabled(m) : j <= i }) IN
         /\ IsMadt(a) /\ Broken(m) = {}
         /\ Len(hw.cpus) = Min({Cardinality(Enabled(m)), MaxCpus})
         /\ \A i \in Enabled(m) : upto(i) <= MaxCpus => hw.cpus[upto(i)] = m[i].id
         /\ hw.ioapic = IF IoApics(m) = {} THEN 0 ELSE m[Min(IoApics(m))].page
  ELSE hw.cpus = << >>
=============================================================================
