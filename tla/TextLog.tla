------------------------------ MODULE TextLog ------------------------------
(* What the console's log promises to a line of code that prints: the      *)
(* characters appear in the order they were printed, each once, and none   *)
(* that was logged is changed or lost later.  A character may be refused   *)
(* (the code returns without a word when there is no memory).              *)
EXTENDS Sequences

CONSTANTS Char, None

VARIABLES
  log,  \* the characters logged
  out   \* the character being printed, or None

Init == log = <<>> /\ out = None
PrintChar(c) == out = None /\ out' = c /\ UNCHANGED log
Commit == out # None /\ log' = Append(log, out) /\ out' = None
Refuse == out # None /\ out' = None /\ UNCHANGED log

Next == (\E c \in Char : PrintChar(c)) \/ Commit \/ Refuse
Spec == Init /\ [][Next]_<<log, out>>

=============================================================================
