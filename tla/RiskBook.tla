------------------------------ MODULE RiskBook ------------------------------
(***************************************************************************)
(* What the risk worker promises to the rest of the system, whatever       *)
(* fails, crashes, overlaps or is delivered again: its writes are those of *)
(* one bookkeeper who takes one entry after the other.  A transaction is   *)
(* counted for its sender, in one step, then its result is recorded, and   *)
(* only then is it announced and its event dismissed.  Nothing that was    *)
(* entered is ever taken back.  RiskWorker implements this module.         *)
(*                                                                         *)
(* A transaction may be counted again: the queue delivers at least once.   *)
(***************************************************************************)
EXTENDS Naturals

CONSTANTS
  Transactions,
  Accounts,
  Decisions,
  FlagAfter     \* the transactions an account needs to be flagged

VARIABLES
  event,        \* transaction -> its sender and decision; never changes
  tally,        \* account -> its transactions, and those of them blocked
  flagged,      \* the accounts that are flagged
  counted,      \* the transactions that are in a tally
  recorded,     \* the transactions with a risk result
  announced,    \* the transactions others were told to look at
  dismissed     \* the transactions of which an event was deleted

vars == <<event, tally, flagged, counted, recorded, announced, dismissed>>

Init ==
  /\ event \in [Transactions -> [sender : Accounts, decision : Decisions]]
  /\ tally = [a \in Accounts |-> [total |-> 0, blocked |-> 0]]
  /\ flagged = {}
  /\ counted = {}
  /\ recorded = {}
  /\ announced = {}
  /\ dismissed = {}

Suspicious(entry) == entry.total >= FlagAfter /\ 5 * entry.blocked > entry.total

Count(t) ==
  LET a       == event[t].sender
      blocked == tally[a].blocked + IF event[t].decision = "BLOCK" THEN 1 ELSE 0
      entry   == [total |-> tally[a].total + 1, blocked |-> blocked]
  IN  /\ tally' = [tally EXCEPT ![a] = entry]
      /\ flagged' = IF Suspicious(entry) THEN flagged \cup {a} ELSE flagged
      /\ counted' = counted \cup {t}
      /\ UNCHANGED <<event, recorded, announced, dismissed>>

Record(t) ==
  /\ t \in counted
  /\ recorded' = recorded \cup {t}
  /\ UNCHANGED <<event, tally, flagged, counted, announced, dismissed>>

Announce(t) ==
  /\ t \in recorded
  /\ announced' = announced \cup {t}
  /\ UNCHANGED <<event, tally, flagged, counted, recorded, dismissed>>

Dismiss(t) ==
  /\ t \in recorded
  /\ dismissed' = dismissed \cup {t}
  /\ UNCHANGED <<event, tally, flagged, counted, recorded, announced>>

Next == \E t \in Transactions : Count(t) \/ Record(t) \/ Announce(t) \/ Dismiss(t)

Spec == Init /\ [][Next]_vars
=============================================================================
