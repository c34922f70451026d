------------------------------ MODULE BotPolling ------------------------------
(* The bot's polling loop (internal/bot/runner.go): under one advisory lock a     *)
(* process asks DeBox for updates from an offset it keeps in memory, and handles  *)
(* them in turn.  DeBox forgets an update once a later offset is asked for; that  *)
(* is modelled from how the loop uses its client.                                 *)
EXTENDS Integers

CONSTANTS
  Process,     \* processes that run the bot
  NumUpdates,  \* bound: updates the users cause
  MaxFaults,   \* bound: restarts, lost locks and failed handlers
  Nobody       \* the lock's value when it is free

VARIABLES
  held,        \* external: updates DeBox still holds
  arrived,     \* external: updates so far
  polling,     \* pg_try_advisory_lock of the bot
  bot,         \* each process: its offset and the batch it works through
  botFaults,   \* bound
  handled,     \* history: how often each update was handled to its end
  failed       \* history: updates whose handler failed

botVars == <<held, arrived, polling, bot, botFaults, handled, failed>>

-----------------------------------------------------------------------------
Update == 1..NumUpdates
Stopped == [pc |-> "stopped", offset |-> 0, batch |-> {}]

Arrive ==
  /\ arrived < NumUpdates
  /\ arrived' = arrived + 1
  /\ held' = held \cup {arrived'}
  /\ UNCHANGED <<polling, bot, botFaults, handled, failed>>

(* acquireLock tries again until the lock is free. *)
PollingFree == polling = Nobody
AcquireLock(p) ==
  /\ bot[p].pc = "stopped" /\ PollingFree
  /\ polling' = p
  /\ bot' = [bot EXCEPT ![p] = [pc |-> "poll", offset |-> 0, batch |-> {}]]
  /\ UNCHANGED <<held, arrived, botFaults, handled, failed>>

(* GetUpdates: what is held from the offset on; what lies below is forgotten. *)
GetUpdates(p) ==
  /\ bot[p].pc = "poll"
  /\ held' = {u \in held : u >= bot[p].offset}
  /\ bot' = [bot EXCEPT ![p].pc = "handle", ![p].batch = held']
  /\ UNCHANGED <<arrived, polling, botFaults, handled, failed>>

(* Variant: the offset is the update handled last, not the one after it. *)
LastOffset(p, u) == IF u >= bot[p].offset THEN u ELSE bot[p].offset
NextOffset(p, u) == IF u >= bot[p].offset THEN u + 1 ELSE bot[p].offset
(* The updates come in their order.  The offset moves before one is handled; an
   error is only logged. *)
HandleUpdate(p) ==
  /\ bot[p].pc = "handle"
  /\ \E u \in bot[p].batch :
     /\ \A v \in bot[p].batch : u <= v
     /\ bot' = [bot EXCEPT ![p].offset = NextOffset(p, u), ![p].batch = @ \ {u}]
     /\ \/ /\ handled' = [handled EXCEPT ![u] = @ + 1]
           /\ UNCHANGED <<botFaults, failed>>
        \/ /\ botFaults < MaxFaults
           /\ botFaults' = botFaults + 1
           /\ failed' = failed \cup {u}
           /\ UNCHANGED handled
  /\ UNCHANGED <<held, arrived, polling>>
PollAgain(p) ==
  /\ bot[p].pc = "handle" /\ bot[p].batch = {}
  /\ bot' = [bot EXCEPT ![p].pc = "poll"]
  /\ UNCHANGED <<held, arrived, polling, botFaults, handled, failed>>

(* The process ends, between two polls or in a batch; or the session of its lock
   is cut while it goes on. *)
Stop(p) ==
  /\ bot[p].pc # "stopped" /\ botFaults < MaxFaults
  /\ botFaults' = botFaults + 1
  /\ bot' = [bot EXCEPT ![p] = Stopped]
  /\ polling' = IF polling = p THEN Nobody ELSE polling
  /\ UNCHANGED <<held, arrived, handled, failed>>
LosePolling ==
  /\ polling # Nobody /\ botFaults < MaxFaults
  /\ botFaults' = botFaults + 1
  /\ polling' = Nobody
  /\ UNCHANGED <<held, arrived, bot, handled, failed>>

-----------------------------------------------------------------------------
Init ==
  /\ held = {} /\ arrived = 0
  /\ polling = Nobody
  /\ bot = [p \in Process |-> Stopped]
  /\ botFaults = 0
  /\ handled = [u \in Update |-> 0]
  /\ failed = {}

BotStep(p) == AcquireLock(p) \/ GetUpdates(p) \/ HandleUpdate(p) \/ PollAgain(p)
Next ==
  \/ Arrive
  \/ \E p \in Process : BotStep(p) \/ Stop(p)
  \/ LosePolling

Spec == Init /\ [][Next]_botVars

-----------------------------------------------------------------------------
(* What DeBox has forgotten was handled, unless its handler failed: an offset is
   asked for after everything below it was gone through, also across restarts and
   when a lost lock lets two processes poll.  Without those no update is handled
   twice. *)
UpdatesAreHandled ==
  \A u \in 1..arrived :
    /\ u \notin held => handled[u] > 0 \/ u \in failed
    /\ botFaults = 0 => handled[u] <= 1
=============================================================================
