---------------------------- MODULE LeaseRecord ----------------------------
(***************************************************************************)
(* What the lease promises of a scope (docstring of pipeline_lease.py): its *)
(* generations follow one another, one holder each; the record keeps how    *)
(* each one ended; only the generation that is held publishes.  No clocks,  *)
(* no locks and no waiting: each of these is one step.                      *)
(***************************************************************************)
EXTENDS Naturals

CONSTANTS
  Owner,      \* who may hold the scope
  Nobody      \* the holder of a scope that nobody holds

VARIABLES
  generation, \* the newest generation
  holder,     \* who holds it, until it ends
  record,     \* how generations ended
  published   \* the generation that published last

Init == generation = 0 /\ holder = Nobody /\ record = {} /\ published = 0

Entry(outcome) == [generation |-> generation, owner |-> holder, outcome |-> outcome]

\* The next generation; one that is still held ends with it, abandoned.
Begin(o) ==
  /\ generation' = generation + 1 /\ holder' = o
  /\ record' = record \cup (IF holder = Nobody THEN {} ELSE {Entry("abandoned")})
  /\ UNCHANGED published

\* What the holder publishes when its generation ends is the last of it.
End(outcome) ==
  /\ holder # Nobody
  /\ holder' = Nobody /\ record' = record \cup {Entry(outcome)} /\ published' = generation
  /\ UNCHANGED generation

Publish ==
  /\ holder # Nobody
  /\ published' = generation
  /\ UNCHANGED <<generation, holder, record>>

Next ==
  \/ \E o \in Owner : Begin(o)
  \/ \E outcome \in {"completed", "failed"} : End(outcome)
  \/ Publish

Spec == Init /\ [][Next]_<<generation, holder, record, published>>
=============================================================================
