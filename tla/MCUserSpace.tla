---------------------------- MODULE MCUserSpace -----------------------------
(***************************************************************************)
(* Memory maps, tables and pointers for module UserSpace, with frames and  *)
(* pages of four bytes.  As on a PC the low range ends inside a frame and  *)
(* a hole follows it; the kernel is in the high range, and the boot        *)
(* information in either.  The maps leave no free frame, fewer than the    *)
(* boot needs, fewer than a full heap needs, and enough; one is too large  *)
(* to map, and one has the boot information where the bitmap goes.         *)
(***************************************************************************)
EXTENDS UserSpace

PC == { [avail |-> {<<0, 14>>, <<20, high>>}, kernel |-> <<20, 25>>, info |-> i] :
          high \in {41, 48, 56, 65}, i \in {<<5, 7>>, <<33, 38>>} }
Tiny == [avail |-> {<<0, 3>>, <<20, 32>>}, kernel |-> <<20, 25>>, info |-> <<5, 7>>]
\* The boot information lies where the bitmap is put.
Behind == [avail |-> {<<0, 14>>, <<20, 56>>}, kernel |-> <<20, 25>>, info |-> <<26, 32>>]
Maps == PC \cup {Tiny, Behind}

Big == CHOOSE l \in PC : <<20, 56>> \in l.avail

(***************************************************************************)
(* Tags, in the order of a boot loader, and tables.                        *)
(***************************************************************************)
Entry(x, free) == [base |-> x[1], length |-> x[2] - x[1], available |-> free]

Mmap(l) ==
  LET e == SetToSeq({ Entry(x, TRUE) : x \in l.avail })
           \o <<Entry(<<14, 20>>, FALSE), Entry(<<30, 30>>, TRUE)>>
  IN [type |-> "mmap", size |-> 16 + 24 * Len(e), esz |-> 24, entries |-> e]

Tag(type, size) == [type |-> type, size |-> size]
RsdpTag(type, size, rev, rsdt, xsdt) ==
  [type |-> type, size |-> size, good |-> TRUE, rev |-> rev, rsdt |-> rsdt, xsdt |-> xsdt]

Cpu(id, on) == [type |-> "lapic", id |-> id, enabled |-> on, fits |-> TRUE]
Io(page) == [type |-> "ioapic", page |-> page, fits |-> TRUE]
Other == [type |-> "other", fits |-> TRUE]
Cut == [type |-> "other", fits |-> FALSE]

Table(sig, body) == [sig |-> sig, good |-> TRUE, body |-> body]
Spoilt(t) == [t EXCEPT !.good = FALSE]

Info(mtags, ts) ==
  LET all == mtags \o <<Tag("end", 8)>> IN
  [tags |-> all, total |-> FoldLeft(LAMBDA n, t : n + t.size, 8, all), tables |-> ts]

\* A boot processor, another, one that is disabled, an I/O APIC.
Two == Table("APIC", <<Cpu(7, TRUE), Other, Cpu(3, TRUE), Cpu(5, FALSE), Io(25), Io(31)>>)
\* One more processor than the limit, and an I/O APIC elsewhere.
Four == Table("APIC", <<Cpu(7, TRUE), Cpu(5, TRUE), Cpu(3, TRUE), Cpu(4, TRUE), Io(31)>>)
Single == Table("APIC", <<Cpu(7, TRUE), Other>>)
Triple == Table("APIC", <<Cpu(7, TRUE), Cpu(4, TRUE), Cpu(5, TRUE)>>)
Torn == Table("APIC", <<Io(25), Cpu(7, TRUE), Cpu(3, TRUE), Cut>>)
Fadt == Table("FACP", <<Other>>)
Root(p) == Table("root", p)

Normal == 15 :> Root(<<18, 17, 16>>) @@ 16 :> Two @@ 17 :> Fadt @@ 18 :> Spoilt(Four)

\* Tables at 15 to 19 are in the hole, the one at 70 above all memory.
Firmware ==
  { <<RsdpTag("acpi_new", 48, 2, 19, 15), Normal @@ 19 :> Root(<<16>>)>>,
    \* the XSDT leads to a broken MADT, the RSDT to a good one
    <<RsdpTag("acpi_new", 48, 2, 19, 15),
      15 :> Root(<<17, 16>>) @@ 16 :> Torn @@ 17 :> Fadt @@ 18 :> Four @@ 19 :> Root(<<18>>)>>,
    <<RsdpTag("acpi_new", 48, 2, 19, 15),
      15 :> Root(<<16>>) @@ 16 :> Torn @@ 18 :> Triple @@ 19 :> Root(<<18>>)>>,
    \* both lead to the broken one
    <<RsdpTag("acpi_new", 48, 2, 19, 15),
      15 :> Root(<<16>>) @@ 16 :> Torn @@ 19 :> Root(<<16>>)>>,
    \* an old RSDP; pointers that are skipped
    <<RsdpTag("acpi_old", 40, 0, 19, 0), 17 :> Fadt @@ 16 :> Single @@ 19 :> Root(<<0, 17, 16>>)>>,
    \* pointers above 2^32, and no RSDT
    <<RsdpTag("acpi_new", 48, 2, 0, 15), 15 :> Root(<<150, 17>>) @@ 17 :> Fadt>>,
    \* an XSDT above 2^32, and a spoilt RSDT
    <<RsdpTag("acpi_new", 48, 2, 19, 150), 19 :> Spoilt(Root(<<16>>)) @@ 16 :> Two>>,
    \* a MADT in memory that is not mapped
    <<RsdpTag("acpi_new", 48, 2, 0, 15), 15 :> Root(<<70>>) @@ 70 :> Two>>,
    \* the size GRUB gives: without the padding
    <<RsdpTag("acpi_new", 44, 2, 19, 15), Normal @@ 19 :> Root(<<16>>)>> }

Machines ==
  { Info(<<Tag("cmdline", 16), Mmap(l), RsdpTag("acpi_new", 48, 2, 0, 15)>>, Normal) : l \in Maps }
  \cup { Info(<<Mmap(Big), f[1]>>, f[2]) : f \in Firmware }
  \cup { Info(<<Mmap(Big)>>, << >>), Info(<<Tag("cmdline", 9), Mmap(Big)>>, << >>) }

Names == {"hello.txt", "exit.bin"}
Sizes == [f \in Names |-> IF f = "hello.txt" THEN 6 ELSE 2]

\* The identity map, the text page, the last byte of the stack, of the first
\* and of the second heap page, the page above the heap, the last address.
SomePointers == {5, 82, 87, 90, 91, 95, 99, 139}
=============================================================================
