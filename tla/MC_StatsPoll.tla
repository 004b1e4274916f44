---------------------------- MODULE MC_StatsPoll ----------------------------
EXTENDS StatsPoll, TLC

(* Two stats objects per report, so a report can be read half written.     *)
MC_Entries == {"transport", "codec"}

=============================================================================
