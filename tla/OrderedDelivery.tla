-------------------------- MODULE OrderedDelivery --------------------------
(***************************************************************************)
(* What reading the input files promises to the rest of the linker,        *)
(* whatever the number of threads and their interleaving: files may be     *)
(* parsed in any order, each at most once; they are delivered to the       *)
(* resolver in command line order; none is delivered once an error is      *)
(* known; and the phase is done only if all of them were delivered.        *)
(***************************************************************************)
EXTENDS Integers

CONSTANT N
Files == 0 .. N-1

VARIABLES
  parsed,     \* files whose parsed form is published
  delivered,  \* the files 0 .. delivered-1 went to the resolver
  failed,     \* an error is recorded
  outcome     \* "running", "done" or "thrown"

avars == <<parsed, delivered, failed, outcome>>

Init ==
  /\ parsed = {}
  /\ delivered = 0
  /\ failed = FALSE
  /\ outcome = "running"

Parse(f) ==
  /\ f \notin parsed
  /\ parsed' = parsed \cup {f}
  /\ UNCHANGED <<delivered, failed, outcome>>

Deliver ==
  /\ outcome = "running"
  /\ ~failed
  /\ delivered \in parsed
  /\ delivered' = delivered + 1
  /\ UNCHANGED <<parsed, failed, outcome>>

Fail ==
  /\ failed' = TRUE
  /\ UNCHANGED <<parsed, delivered, outcome>>

Throw ==
  /\ outcome = "running"
  /\ outcome' = "thrown"
  /\ failed' = TRUE
  /\ UNCHANGED <<parsed, delivered>>

Finish ==
  /\ outcome = "running"
  /\ ~failed
  /\ delivered = N
  /\ outcome' = "done"
  /\ UNCHANGED <<parsed, delivered, failed>>

Next == (\E f \in Files : Parse(f)) \/ Deliver \/ Fail \/ Throw \/ Finish

Spec == Init /\ [][Next]_avars
=============================================================================
