--------------------------- MODULE RequestLifecycle ---------------------------
(***************************************************************************)
(* What the MCP mailbox promises each request, as spec.md states it (3,    *)
(* 4.2, 8): a request runs only once it has been submitted, and at most   *)
(* once; only a request that ran has an answer published; a producer      *)
(* takes only an answer that was published.  Nothing is said of order or *)
(* of which producer takes an answer, nor that any request is answered.   *)
(***************************************************************************)
CONSTANT Requests

VARIABLES
  submitted,   \* requests a producer has handed to the mailbox
  runs,        \* runs[r]: how many times the handler of r has run
  answered,    \* requests whose answer has been published
  taken        \* requests whose answer a producer has read

lvars == <<submitted, runs, answered, taken>>

Init ==
  /\ submitted = {}
  /\ runs = [r \in Requests |-> 0]
  /\ answered = {}
  /\ taken = {}

Submit(r) ==
  /\ r \notin submitted
  /\ submitted' = submitted \cup {r}
  /\ UNCHANGED <<runs, answered, taken>>

\* The handler runs on a submitted request that has never run; no step
\* ever runs it again.
Run(r) ==
  /\ r \in submitted
  /\ runs[r] = 0
  /\ runs' = [runs EXCEPT ![r] = 1]
  /\ UNCHANGED <<submitted, answered, taken>>

\* An answer is published, perhaps more than once, only for a request
\* that ran.
Answer(r) ==
  /\ runs[r] = 1
  /\ answered' = answered \cup {r}
  /\ UNCHANGED <<submitted, runs, taken>>

\* A producer reads a published answer.
Take(r) ==
  /\ r \in answered
  /\ taken' = taken \cup {r}
  /\ UNCHANGED <<submitted, runs, answered>>

Next == \E r \in Requests : Submit(r) \/ Run(r) \/ Answer(r) \/ Take(r)

Spec == Init /\ [][Next]_lvars

=============================================================================
