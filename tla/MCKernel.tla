------------------------------ MODULE MCKernel ------------------------------
(***************************************************************************)
(* Small instances of Kernel: a wallet with two interfaces, of which only  *)
(* the first counts, a second wallet, and a device of another vendor.      *)
(***************************************************************************)
EXTENDS Kernel

MCDevices ==
  {[path |-> "a0", vendor_id |-> 21324, product_id |-> 1, interface_number |-> 0],
   [path |-> "a1", vendor_id |-> 21324, product_id |-> 1, interface_number |-> 1],
   [path |-> "b",  vendor_id |-> 21324, product_id |-> 1, interface_number |-> -1],
   [path |-> "c",  vendor_id |-> 1133,  product_id |-> 1, interface_number |-> 0]}
=============================================================================
