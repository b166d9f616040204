------------------------------ MODULE MCRates ------------------------------
(***************************************************************************)
(* A machine with one interface and one CPU, to which MaxEvents things     *)
(* happen, and a second interface, reported on first, that it does not     *)
(* have. All files are fine, or those with counters are not, or one of     *)
(* these and others are not.                                               *)
(***************************************************************************)
EXTENDS Rates

MCInterfaces == <<"wg0", "eth0">>

MCMemInfo ==
  <<[word |-> "MemTotal", fields |-> <<8>>], [word |-> "MemAvailable", fields |-> <<5>>],
    [word |-> "SwapTotal", fields |-> <<4>>], [word |-> "SwapFree", fields |-> <<2>>]>>

MCReadable ==
  {{"loadavg", "meminfo", "temp", "stat", "net"}, {"loadavg", "meminfo", "temp"},
   {"meminfo", "stat"}, {"loadavg", "temp", "net"}}
=============================================================================
