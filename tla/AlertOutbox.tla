---------------------------- MODULE AlertOutbox ----------------------------
(***************************************************************************)
(* What the market alert pipeline promises its users, with the workers,    *)
(* leases, retries, windows and chain reorganizations left out.            *)
(*                                                                         *)
(* An alert is announced once.  It stays open until it is settled, either  *)
(* as delivered or as dropped, and a settled alert never changes its fate. *)
(* An alert is settled as delivered only when a message that tells of it   *)
(* has reached the chat.  A message may still reach the chat after the     *)
(* alert was dropped (the worker had already handed it to the bot API) and *)
(* may reach it more than once, so `reached` is a flag that only rises.    *)
(***************************************************************************)
CONSTANT Alert

VARIABLES
  fate,     \* fate[a]: what has become of alert a
  reached   \* reached[a]: a message that tells of a has reached the chat

Fate == {"none", "open", "delivered", "dropped"}

OutboxTypeOK ==
  /\ fate \in [Alert -> Fate]
  /\ reached \in [Alert -> BOOLEAN]

OutboxInit ==
  /\ fate = [a \in Alert |-> "none"]
  /\ reached = [a \in Alert |-> FALSE]

(* The legal moves of one alert. *)
Announced(a) == fate[a] = "none" /\ fate'[a] \in {"open", "dropped"}
Delivered(a) == fate[a] = "open" /\ fate'[a] = "delivered" /\ reached[a]
Dropped(a)   == fate[a] = "open" /\ fate'[a] = "dropped"

FateMoves(a) ==
  fate'[a] = fate[a] \/ Announced(a) \/ Delivered(a) \/ Dropped(a)

ReachMoves(a) ==
  reached'[a] = reached[a] \/ (reached'[a] = TRUE /\ fate[a] # "none")

(* One step of the pipeline may move many alerts: a reorganization or an   *)
(* expired plan drops every alert it concerns in one transaction.          *)
OutboxNext ==
  /\ fate' \in [Alert -> Fate]
  /\ reached' \in [Alert -> BOOLEAN]
  /\ \A a \in Alert : FateMoves(a) /\ ReachMoves(a)

OutboxSpec == OutboxInit /\ [][OutboxNext]_<<fate, reached>>
============================================================================
