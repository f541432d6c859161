------------------------------- MODULE KeptLog -------------------------------
(***************************************************************************)
(* What the audit log of a project promises, without runners, crashes or   *)
(* tables: entries are added one at a time and never change, each signed   *)
(* by the root in force; a checkpoint puts everything before it under its  *)
(* signature and asks for no further checkpoint; every other entry is a    *)
(* task that is done once, and only under a checkpoint.                    *)
(***************************************************************************)
EXTENDS Integers, Sequences

VARIABLES entries,  \* the log; an entry has at least the number of its root
          roots,    \* the seq from which on the i-th root signs
          covered,  \* the entries under a checkpoint
          tasks,    \* the entries that still want one
          done      \* the entries that are known to have one

keptVars == <<entries, roots, covered, tasks, done>>

Init ==
  /\ entries = <<>>
  /\ roots   = <<0>>
  /\ covered = {}
  /\ tasks   = {}
  /\ done    = {}

Fresh == Len(entries) + 1

(* One more entry, signed by root r. *)
Grow(r) ==
  /\ Len(entries') = Fresh
  /\ \A n \in DOMAIN entries : entries'[n] = entries[n]
  /\ entries'[Fresh].root = r

LogEvent ==
  /\ Grow(Len(roots))
  /\ tasks' = tasks \cup {Fresh}
  /\ UNCHANGED <<roots, covered, done>>

(* The new root signs the entry that announces it, and all after it. *)
Rotate ==
  /\ Grow(Len(roots) + 1)
  /\ roots' = Append(roots, Fresh)
  /\ tasks' = tasks \cup {Fresh}
  /\ UNCHANGED <<covered, done>>

Checkpoint ==
  /\ entries # <<>>
  /\ Grow(Len(roots))
  /\ covered' = 1..Len(entries)
  /\ UNCHANGED <<roots, tasks, done>>

Deliver(q) ==
  /\ q \in tasks \cap covered
  /\ tasks' = tasks \ {q}
  /\ done' = done \cup {q}
  /\ UNCHANGED <<entries, roots, covered>>

Next == LogEvent \/ Rotate \/ Checkpoint \/ \E q \in tasks : Deliver(q)

Spec == Init /\ [][Next]_keptVars
=============================================================================
