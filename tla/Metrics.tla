------------------------------ MODULE Metrics ------------------------------
(***************************************************************************)
(* metrics.rs: which variables a record has, and in which order.  Labels   *)
(* and units are left out.                                                 *)
(***************************************************************************)
EXTENDS Naturals, SequencesExt

(* The metrics that do not depend on the interfaces.                       *)
Fixed == <<"cpu_percent", "load1", "mem_used_bytes", "swap_used_bytes", "cpu_temp_celsius">>

(* The number of values of a record, for so many interfaces.               *)
WidthFor(interfaces) == Len(Fixed) + 2 * interfaces

RxName(interface) == "net_" \o interface \o "_rx_bytes_per_sec"
TxName(interface) == "net_" \o interface \o "_tx_bytes_per_sec"

(* Schema::new, as the names of its metrics: two for each interface.       *)
SchemaOf(interfaces) ==
  Fixed \o [k \in 1 .. 2 * Len(interfaces) |->
             LET interface == interfaces[(k + 1) \div 2]
             IN  IF k % 2 = 1 THEN RxName(interface) ELSE TxName(interface)]

(* is_valid_interface, of a name so long and with such characters.         *)
ValidInterface(look) == look.length \in 1 .. 15 /\ look.plain
=============================================================================
