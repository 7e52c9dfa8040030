------------------------------ MODULE MC_TwoTier ------------------------------
(***************************************************************************)
(* Model of TwoTier for TLC.  The big tier is MC_PageDB's: six 2 MiB      *)
(* pages, the first holding the kernel image, the boot tables referencing *)
(* the kernel page, the first page after it, a higher page and one beyond *)
(* memory.  Addresses are scaled: a big page is 2^4 units and a small one *)
(* 2^2, so a big page holds four slots, the first holding the small       *)
(* database's own header; a 6-bit index makes 2 * PageShift >= IndexBits  *)
(* and PageShift + SmallShift >= IndexBits, the relations of 21 and 12 to *)
(* 32 that decide what page_db_free_addr computes.                         *)
(***************************************************************************)
EXTENDS TwoTier

MCMapped == {0, 1, 3, 7}
====
