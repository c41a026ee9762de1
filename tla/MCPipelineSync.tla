--------------------------- MODULE MCPipelineSync ---------------------------
(***************************************************************************)
(* A pipeline of five stages: the loop reads cfg in stage 0, which is not  *)
(* synchronized (a plain signal).  In stage 1 it is started (start has     *)
(* only a ready) and writes out from one of two branches, or not at all.   *)
(* It reads a and writes log (only a valid) in stage 2, reads b under a    *)
(* condition in stage 3 and ends a computation without IO in stage 4.      *)
(***************************************************************************)
EXTENDS PipelineSync

MCInput  == {"cfg", "start", "a", "b"}
MCOutput == {"log", "out"}
MCType == [cfg |-> "Signal", start |-> "RdSynced", a |-> "Handshaked", b |-> "Handshaked",
           log |-> "VldSynced", out |-> "Handshaked"]
MCStageOf == [cfg |-> 0, start |-> 1, out |-> 1, a |-> 2, log |-> 2, b |-> 3]

MCIntfOf == [readCfg |-> "cfg", readStart |-> "start", readA |-> "a", readB |-> "b",
             writeLog |-> "log", writeOutThen |-> "out", writeOutElse |-> "out"]
MCAccess == DOMAIN MCIntfOf
MCConditional == {"readB", "writeOutThen", "writeOutElse"}

=============================================================================
