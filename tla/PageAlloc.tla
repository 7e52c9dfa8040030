------------------------------ MODULE PageAlloc ------------------------------
(***************************************************************************)
(* What the page database of src/src/vm_page.c promises (spec section     *)
(* 4.2): every page index is in exactly one of FREE, USED and RESERVED;   *)
(* alloc hands out some FREE page or reports that none is left, free      *)
(* returns a USED page, reserve_page takes a FREE page out of circulation *)
(* for good and ignores one that is already RESERVED.  Which free page    *)
(* alloc returns is left open.                                            *)
(***************************************************************************)
EXTENDS Naturals

CONSTANTS
    NumPages,       \* pdb->num_pages
    NumReserved     \* pages below kernel_top, RESERVED by page_db_init

Pages == 0..(NumPages - 1)

VARIABLES free, used, reserved

avars == <<free, used, reserved>>

Init ==
    /\ reserved = 0..(NumReserved - 1)
    /\ free = Pages \ reserved
    /\ used = {}

Alloc ==
    \E p \in free :
        /\ free' = free \ {p}
        /\ used' = used \cup {p}
        /\ UNCHANGED reserved

Free ==
    \E p \in used :
        /\ used' = used \ {p}
        /\ free' = free \cup {p}
        /\ UNCHANGED reserved

Reserve ==
    \E p \in free :
        /\ free' = free \ {p}
        /\ reserved' = reserved \cup {p}
        /\ UNCHANGED used

Next == Alloc \/ Free \/ Reserve

Spec == Init /\ [][Next]_avars

\* The three classes partition the pages.
Partition ==
    /\ free \cup used \cup reserved = Pages
    /\ free \cap used = {} /\ free \cap reserved = {} /\ used \cap reserved = {}

=============================================================================
