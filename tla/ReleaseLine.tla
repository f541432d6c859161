---------------------------- MODULE ReleaseLine ----------------------------
(***************************************************************************)
(* What ForgeVerity promises of a training stream, without jobs, leases or *)
(* workers: "acceptance atomically advances the stream head" (README.md),  *)
(* and the decision behind a release was taken against the very release it *)
(* extends.  The head only ever moves by publishing on top of it while the *)
(* stream is open; pausing and resuming consume a revision number and      *)
(* publish nothing.                                                        *)
(***************************************************************************)
EXTENDS Integers

CONSTANT Streams      \* the training streams of one project

VARIABLES revision,   \* [Streams -> Nat]      streams.revision
          open,       \* [Streams -> BOOLEAN]  streams.state = 'ACTIVE'
          head,       \* [Streams -> Nat]      revision of the head release
          published   \* the release records of all streams

lineVars == <<revision, open, head, published>>

Genesis(s) == [stream |-> s, revision |-> 0, parent |-> -1, decidedOn |-> -1]

Init ==
  /\ revision  = [s \in Streams |-> 0]
  /\ open      = [s \in Streams |-> TRUE]
  /\ head      = [s \in Streams |-> 0]
  /\ published = {Genesis(s) : s \in Streams}

(* One acceptance: a release on the next revision, whose parent is the     *)
(* head of this very moment and whose decision was taken against it.       *)
Publish(s) ==
  /\ open[s]
  /\ revision' = [revision EXCEPT ![s] = @ + 1]
  /\ head' = [head EXCEPT ![s] = revision[s] + 1]
  /\ published' = published \cup
       {[stream |-> s, revision |-> revision[s] + 1,
         parent |-> head[s], decidedOn |-> head[s]]}
  /\ UNCHANGED open

(* Pause or resume. *)
Control(s) ==
  /\ open' = [open EXCEPT ![s] = ~@]
  /\ revision' = [revision EXCEPT ![s] = @ + 1]
  /\ UNCHANGED <<head, published>>

Next == \E s \in Streams : Publish(s) \/ Control(s)

Spec == Init /\ [][Next]_lineVars
=============================================================================
