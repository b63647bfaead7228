----------------------------- MODULE IntentLedger ------------------------------
(******************************************************************************)
(* What posting promises its clients, without SQLite, transports or failures:  *)
(* a board that only grows, a ledger with at most one message for each key     *)
(* (participant and intent), and one-shot grants that are spent in the very     *)
(* step that posts the message they paid for.                                  *)
(******************************************************************************)
EXTENDS Naturals, Sequences

CONSTANTS Keys, Grants, NULL

VARIABLES
  board,    \* the messages, in the order of their ids
  ledger,   \* the message a key was executed as, or NULL
  spent     \* the key a one-shot grant was spent on, or NULL

ledgerVars == <<board, ledger, spent>>

Init ==
  /\ board = <<>>
  /\ ledger = [k \in Keys |-> NULL]
  /\ spent = [g \in Grants |-> NULL]

\* One more message, none changed.
OneMore ==
  /\ Len(board') = Len(board) + 1
  /\ \A m \in 1..Len(board) : board'[m] = board[m]

\* A message outside the ledger: a plain post has no intent.
PostPlain ==
  /\ OneMore
  /\ UNCHANGED <<ledger, spent>>

\* The first, and only, execution of a key, by the participant of the key.
PostIntent(k) ==
  /\ ledger[k] = NULL
  /\ OneMore
  /\ board'[Len(board')].participant = k[1]
  /\ ledger' = [ledger EXCEPT ![k] = Len(board')]
  /\ \/ UNCHANGED spent
     \/ \E g \in Grants : spent[g] = NULL /\ spent' = [spent EXCEPT ![g] = k]

Next ==
  \/ PostPlain
  \/ \E k \in Keys : PostIntent(k)

Spec == Init /\ [][Next]_ledgerVars
================================================================================
