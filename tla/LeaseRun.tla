------------------------------ MODULE LeaseRun ------------------------------
(* qasight lease run POOL -- CMD: a key is held while a command runs           *)
(* (cli/commands/lease.py). Ctrl-C reaches the command and its wrapper, a      *)
(* SIGTERM the wrapper alone, which hands it on. Any signal may come at any    *)
(* point, and the command may go on in spite of it.                            *)
EXTENDS Naturals

CONSTANT MaxSignals     \* bound: of each kind

VARIABLES
  at,           \* the wrapper: see Places
  lease,        \* the key is held
  command,      \* "none", "running" or "over"
  terms, ints,  \* signals so far
  told,         \* the command has been sent a SIGTERM
  swallowed,    \* one came before there was a command to hand it to (a ghost)
  inPopen       \* Ctrl-C came inside Popen() (a ghost)

vars == <<at, lease, command, terms, ints, told, swallowed, inPopen>>

\* held: acquire() has returned; armed: the handler of SIGTERM is set; popen: inside
\* Popen(); wait, again: in the first and second proc.wait(); give: the old handler is
\* back, release() runs; over: the process has ended.
Places == {"held", "armed", "popen", "wait", "again", "give", "over"}

Init ==
  /\ at = "held" /\ lease = TRUE /\ command = "none"
  /\ terms = 0 /\ ints = 0 /\ told = FALSE /\ swallowed = FALSE /\ inPopen = FALSE

signals == <<terms, ints, told, swallowed, inPopen>>

Arm == at = "held" /\ at' = "armed" /\ UNCHANGED <<lease, command, signals>>

Popen ==
  /\ at = "armed" /\ at' = "popen"
  /\ UNCHANGED <<lease, command, signals>>

\* The child is there before Popen() returns.
Fork ==
  /\ at = "popen" /\ command = "none" /\ command' = "running"
  /\ UNCHANGED <<at, lease, signals>>

PopenReturns ==
  /\ at = "popen" /\ command # "none" /\ at' = "wait"
  /\ UNCHANGED <<lease, command, signals>>

PopenFails ==
  /\ at = "popen" /\ command = "none" /\ at' = "give"
  /\ UNCHANGED <<lease, command, signals>>

CommandEnds ==
  /\ command = "running" /\ command' = "over"
  /\ UNCHANGED <<at, lease, signals>>

WaitReturns ==
  /\ at \in {"wait", "again"} /\ command = "over" /\ at' = "give"
  /\ UNCHANGED <<lease, command, signals>>

Release ==
  /\ at = "give" /\ at' = "over" /\ lease' = FALSE
  /\ UNCHANGED <<command, signals>>

\* The default handler ends the process; stop() hands the signal on once proc is set.
Sigterm ==
  /\ at # "over" /\ terms < MaxSignals /\ terms' = terms + 1
  /\ at' = IF at \in {"held", "give"} THEN "over" ELSE at
  /\ told' = (told \/ (at \in {"wait", "again"} /\ command = "running"))
  /\ swallowed' = (swallowed \/ at \in {"armed", "popen"})
  /\ UNCHANGED <<lease, command, ints, inPopen>>

\* Mistake: the first Ctrl-C ends the wait for good.
AfterIntNoWait ==
  CASE at \in {"held", "armed", "give"} -> "over"
    [] at \in {"popen", "wait", "again"} -> "give"

\* KeyboardInterrupt: outside the try it ends the process, in Popen() and the second
\* wait it leads to the finally.
AfterInt ==
  CASE at \in {"held", "armed", "give"} -> "over"
    [] at \in {"popen", "again"} -> "give"
    [] at = "wait" -> "again"

Sigint ==
  /\ at # "over" /\ ints < MaxSignals /\ ints' = ints + 1
  /\ at' = AfterInt /\ inPopen' = (inPopen \/ at = "popen")
  /\ UNCHANGED <<lease, command, terms, told, swallowed>>

Next ==
  \/ Arm \/ Popen \/ Fork \/ PopenReturns \/ PopenFails \/ CommandEnds \/ WaitReturns
  \/ Release \/ Sigterm \/ Sigint

Spec == Init /\ [][Next]_vars

-----------------------------------------------------------------------------
TypeOK ==
  /\ at \in Places /\ command \in {"none", "running", "over"}
  /\ terms \in 0 .. MaxSignals /\ ints \in 0 .. MaxSignals

(* The key is given back only when the command is over, but for a second       *)
(* Ctrl-C or one inside Popen(); it is left to expire only when a signal came; *)
(* a SIGTERM that the wrapper survives reaches the command, but for one that   *)
(* came while Popen() had not returned.                                        *)
KeyOutlivesCommand ==
  /\ ~lease /\ command = "running" => ints >= 2 \/ inPopen
  /\ at = "over" /\ lease => terms + ints > 0
  /\ at \in {"wait", "again"} /\ command = "running" /\ terms > 0 => told \/ swallowed

-----------------------------------------------------------------------------
(* Why it holds: where the wrapper is when signals have come.                  *)
WrapperInv ==
  /\ TypeOK /\ KeyOutlivesCommand
  /\ lease \in BOOLEAN /\ told \in BOOLEAN /\ swallowed \in BOOLEAN /\ inPopen \in BOOLEAN
  /\ ~lease => at = "over"
  /\ at \in {"held", "armed"} => command = "none"
  /\ at \in {"wait", "again"} => command # "none"
  /\ at = "held" => terms = 0
  /\ at \in {"armed", "popen"} /\ terms > 0 => swallowed
  /\ at = "again" => ints >= 1
  /\ at = "give" /\ command = "running" => ints >= 2 \/ inPopen
=============================================================================
