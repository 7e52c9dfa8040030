-------------------------------- MODULE MC_Pci --------------------------------
(***************************************************************************)
(* pci_init alone, on one bus with one multi-function device: a host      *)
(* bridge at function 0 (header type 0x80: generic, multi-function) and a *)
(* PCI-to-PCI bridge at function 1 (header type 0x01), each with an I/O   *)
(* BAR 0.                                                                 *)
(***************************************************************************)
EXTENDS Pci

MCBridgeDevices ==
    [id \in {0} \X {0} \X {0, 1} |->
        [vendor_id |-> 32902, device_id |-> 4656 + id[3],
         class |-> 6, subclass |-> 4 * id[3], prog_intf |-> 0,
         header_type |-> IF id[3] = 0 THEN 128 ELSE 1,
         int_line |-> 0, int_pin |-> 0, bars |-> <<<<1, 16, 0, 0>>>>]]

\* What inl of a port other than 0xCFC returns: all ones, as a port with
\* nothing behind it does.
MCFloatingPort == {[k \in 1..4 |-> 255]}

=============================================================================
