-------------------------------- MODULE Mmio --------------------------------
(***************************************************************************)
(* The pool of page tables in arch/i386/paging.c that maps device pages    *)
(* onto themselves: boot_pd, g_mmio_pts, and paging_map_identity_page.     *)
(*                                                                         *)
(* Memory is a row of words; a page of it holds the Entries words of one   *)
(* table.  g_mmio_pts begins at word base, wherever the build puts it:     *)
(* nothing in its declaration asks for a page boundary.  A slot is two     *)
(* words, used and pd_idx, and then its table.  A directory entry holds    *)
(* the page of a table; the low bits of its address are cut off.           *)
(***************************************************************************)
EXTENDS Naturals

CONSTANTS Entries,    \* PT_ENTRIES
          MmioSlots,  \* MMIO_PT_SLOTS
          Bases       \* words at which a build may put g_mmio_pts

ASSUME MmioAssumption ==
  Entries \in Nat \ {0} /\ MmioSlots \in Nat \ {0} /\ Bases \subseteq Nat

VARIABLES base,     \* address of g_mmio_pts
          mem,      \* the words up to its end
          boot_pd,  \* directory index -> page of the table, where present
          mapped    \* history: pages the call returned true for

mmio == <<base, mem, boot_pd, mapped>>

Slots == 0 .. MmioSlots - 1
Used(i) == base + i * (Entries + 2)
PdIdx(i) == Used(i) + 1
Tbl(i) == Used(i) + 2

\* An entry has the frame in its high bits, RW and PRESENT in the low ones.
Pte(page) == page * 4 + 3

Dir(page) == page \div Entries
Index(page) == page % Entries
Unused == { i \in Slots : mem[Used(i)] = 0 }

\* mmio_pt_for_pd has a table: the one the directory entry points at.
map_in_table(page) ==
  /\ Dir(page) \in DOMAIN boot_pd
  /\ mem' = [mem EXCEPT ![boot_pd[Dir(page)] * Entries + Index(page)] = Pte(page)]
  /\ mapped' = mapped \cup {page}
  /\ UNCHANGED <<base, boot_pd>>

\* It takes the first slot that is not used, and clears its table.
map_in_slot(page) ==
  /\ Dir(page) \notin DOMAIN boot_pd
  /\ \E i \in Unused :
       /\ \A j \in Unused : i <= j
       /\ mem' = [a \in DOMAIN mem |->
                    CASE a = Used(i) -> 1
                      [] a = PdIdx(i) -> Dir(page)
                      [] a = Tbl(i) + Index(page) -> Pte(page)
                      [] a \in Tbl(i) .. Tbl(i) + Entries - 1
                           /\ a # Tbl(i) + Index(page) -> 0
                      [] OTHER -> mem[a]]
       /\ boot_pd' = [d \in DOMAIN boot_pd \cup {Dir(page)} |->
                        IF d = Dir(page) THEN Tbl(i) \div Entries ELSE boot_pd[d]]
  /\ mapped' = mapped \cup {page}
  /\ UNCHANGED base

map_refused(page) ==
  /\ Dir(page) \notin DOMAIN boot_pd /\ Unused = {}
  /\ UNCHANGED mmio

paging_map_identity_page(page) ==
  map_in_table(page) \/ map_in_slot(page) \/ map_refused(page)

\* The processor's walk from directory pd takes it to the page itself.
Reaches(pd, page) ==
  /\ Dir(page) \in DOMAIN pd
  /\ mem[pd[Dir(page)] * Entries + Index(page)] = Pte(page)

\* BSS; the directory has no entry outside the identity map yet.
MmioInit ==
  /\ base \in Bases
  /\ mem = [a \in 0 .. base + MmioSlots * (Entries + 2) - 1 |-> 0]
  /\ boot_pd = << >>
  /\ mapped = {}
-----------------------------------------------------------------------------
\* What README.md says the slots are for: a page that was mapped through them
\* is reached, whatever directory index it has.
DeviceMapped == \A p \in mapped : Reaches(boot_pd, p)
=============================================================================
