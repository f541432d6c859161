---------------------------- MODULE KeyedEffects ----------------------------
(***************************************************************************)
(* What an Idempotency-Key promises its sender, without requests, lookups  *)
(* or transactions: a mutation takes effect once per key, and the answer   *)
(* it was given then is the only answer the key gets as long as the effect *)
(* is there.  An effect stands at a step of its own.  Until then a failure *)
(* can take it back, and the answer may have been told already.  What an   *)
(* endpoint registers, or settles, is there once for all keys.             *)
(***************************************************************************)
EXTENDS Integers

CONSTANTS Keys,     \* idempotency keys
          Kind(_),  \* what a key is sent for: "create", "register", "settle"
          Bodies,   \* request bodies
          NoBody    \* the body of a key nobody used

VARIABLES effects,  \* the objects made, each with the key and body it came from
          result,   \* [Keys -> record]: the body and the answer a key stands for
          open,     \* the key, if any, whose effect does not stand yet
          ids,      \* how many objects were ever named
          told,     \* the answers callers have seen
          undone    \* the answers that were taken back

keyedVars == <<effects, result, open, ids, told, undone>>

NoResult == [body |-> NoBody, answer |-> 0]

Unused(k) == result[k].answer = 0

AnswerTo(k) == [key |-> k, body |-> result[k].body, answer |-> result[k].answer]

Init ==
  /\ effects = {} /\ ids = 0
  /\ result = [k \in Keys |-> NoResult]
  /\ open = {} /\ told = {} /\ undone = {}

(* What key k would make of body b is there already. *)
Exists(k, b) ==
  \E o \in effects :
    /\ Kind(o.key) = Kind(k)
    /\ \/ Kind(k) = "settle"
       \/ Kind(k) = "register" /\ o.body = b

(* The effect and the answer of a key, in one step. *)
Perform(k, b) ==
  /\ open = {} /\ Unused(k)
  /\ ~Exists(k, b)
  /\ ids' = ids + 1
  /\ effects' = effects \cup {[id |-> ids + 1, key |-> k, body |-> b]}
  /\ result' = [result EXCEPT ![k] = [body |-> b, answer |-> ids + 1]]
  /\ open' = {k}
  /\ UNCHANGED <<told, undone>>

(* A second key for what another key registered: it names the same object. *)
Share(k, b, o) ==
  /\ open = {} /\ Unused(k)
  /\ Kind(k) = "register" /\ Kind(o.key) = "register"
  /\ o.body = b
  /\ result' = [result EXCEPT ![k] = [body |-> b, answer |-> o.id]]
  /\ open' = {k}
  /\ UNCHANGED <<effects, ids, told, undone>>

(* The effect stands from now on. *)
Stand ==
  /\ open # {}
  /\ open' = {}
  /\ UNCHANGED <<effects, result, ids, told, undone>>

(* A failure: the effect that does not stand yet, and its answer, are gone. *)
Undo(k) ==
  /\ k \in open
  /\ effects' = {o \in effects : o.key # k}
  /\ result' = [result EXCEPT ![k] = NoResult]
  /\ undone' = undone \cup {AnswerTo(k)}
  /\ open' = {}
  /\ UNCHANGED <<ids, told>>

(* A caller sees the answer of its key, any number of times; one that was  *)
(* taken back may still be on its way.                                     *)
Tell ==
  /\ \E a \in undone \cup {AnswerTo(k) : k \in {j \in Keys : ~Unused(j)}} :
       told' = told \cup {a}
  /\ UNCHANGED <<effects, result, open, ids, undone>>

Next ==
  \/ \E k \in Keys :
       \/ \E b \in Bodies : Perform(k, b) \/ \E o \in effects : Share(k, b, o)
       \/ Undo(k)
  \/ Stand \/ Tell

Spec == Init /\ [][Next]_keyedVars
=============================================================================
