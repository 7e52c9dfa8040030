------------------------------ MODULE MC_PageDB ------------------------------
(***************************************************************************)
(* Model of PageDB for TLC: six 2 MiB pages, the first one holding the   *)
(* kernel image, as in spec E1 scaled down.  Addresses are scaled too:    *)
(* PageShift 2 and a 4-bit index keep 2 * PageShift >= IndexBits, the    *)
(* relation of PAGE_2M_SHIFT = 21 to the 32-bit index that decides what  *)
(* page_db_free_addr computes.                                            *)
(***************************************************************************)
EXTENDS PageDB

\* Frames the boot tables reference: the kernel page, the first page
\* after it, a page further up, and one beyond the end of memory.
MCMapped == {0, 1, 3, 7}
=============================================================================
