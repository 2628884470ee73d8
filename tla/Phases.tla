--------------------------------- MODULE Phases ---------------------------------
(***************************************************************************)
(* The phases of execute (internal/builder/builder.go) between the sandbox *)
(* and the snapshot: which follows which, and how each may fail. Builder   *)
(* takes no more than this of them; Pipeline says what happens inside.     *)
(***************************************************************************)

(* How a phase may fail: the statuses execute passes to fail.              *)
Verdicts == [create |-> {"failed"}, waitReady |-> {"failed"}, clone |-> {"failed"},
             detect |-> {"failed", "unsupported"}, install |-> {"failed", "unsupported"},
             start |-> {"failed", "unsupported"}, snapshot |-> {"failed"},
             waitSnapshot |-> {"failed"}]

After == [clone |-> "detect", detect |-> "install", install |-> "start",
          start |-> "snapshot"]
================================================================================
