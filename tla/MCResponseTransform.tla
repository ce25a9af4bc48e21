------------------------ MODULE MCResponseTransform ------------------------
(* Instances of ResponseTransform for model checking. *)
EXTENDS ResponseTransform

(* Tells the log entries of the instance apart: complete, bare, or neither. *)
MCDigest(e) == IF e = Bare(LogEntry) THEN 1
               ELSE IF e = Full(LogEntry) THEN 2 ELSE 3
=============================================================================
