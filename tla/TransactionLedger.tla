------------------------- MODULE TransactionLedger -------------------------
(***************************************************************************)
(* What the transaction service promises to the callers of                 *)
(* CreateTransaction, whatever fails underneath: a write-once register per *)
(* idempotency key.  The first submission recorded under a key is the      *)
(* only one; every accepted call with that key is told that transaction;   *)
(* and only a recorded transaction is announced to the asynchronous        *)
(* pipeline.  TransactionService implements this module.                   *)
(*                                                                         *)
(* A transaction is identified by the call that generated its identifier.  *)
(***************************************************************************)
CONSTANTS
  Calls,        \* the CreateTransaction calls
  Keys          \* the idempotency keys

VARIABLES
  book,         \* key -> the set holding the transaction recorded, if any
  told,         \* call -> the set holding the transaction it was told, if any
  announced     \* the transactions whose event has been published

vars == <<book, told, announced>>

TypeOK ==
  /\ book \in [Keys -> SUBSET Calls]
  /\ told \in [Calls -> SUBSET Calls]
  /\ announced \in SUBSET Calls

Init ==
  /\ book = [k \in Keys |-> {}]
  /\ told = [c \in Calls |-> {}]
  /\ announced = {}

(* A key gets its transaction once. *)
Record(k, c) ==
  /\ book[k] = {}
  /\ book' = [book EXCEPT ![k] = {c}]
  /\ UNCHANGED <<told, announced>>

(* A call is told once, and only of a transaction that is recorded. *)
Tell(c, k) ==
  /\ told[c] = {}
  /\ \E t \in book[k] : told' = [told EXCEPT ![c] = {t}]
  /\ UNCHANGED <<book, announced>>

(* The event of a recorded transaction is published. *)
Announce(k) ==
  /\ \E t \in book[k] : announced' = announced \cup {t}
  /\ UNCHANGED <<book, told>>

Next ==
  \E k \in Keys :
    \/ \E c \in Calls : Record(k, c) \/ Tell(c, k)
    \/ Announce(k)

Spec == Init /\ [][Next]_vars
=============================================================================
