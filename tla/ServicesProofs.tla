--------------------------- MODULE ServicesProofs --------------------------
(***************************************************************************)
(* Theorems about the parts that serve one user: the daily summaries, the  *)
(* polling of the bot's updates and the wallet login, for any number of    *)
(* processes, chats, updates, challenges and requests; and those of the    *)
(* scanner, where it is one part of the services.                          *)
(***************************************************************************)
EXTENDS MarketServicesProofs, LogScannerProofs

-----------------------------------------------------------------------------
(* DailySummary. *)

SummaryPlace == [pc : {"idle", "lock", "read", "targets", "pending", "send", "mark"},
                 end : Int, at : Summary!Target,
                 listed : SUBSET Summary!Target, pending : SUBSET Summary!Target]
SummaryRow == [active : BOOLEAN, enabled : BOOLEAN, push : Int, lastDate : Int, lastEnd : Int]

SummaryTypes ==
  /\ now \in Nat
  /\ sub \in SummaryRow
  /\ targets \subseteq Summary!Target
  /\ ~sub.active => targets = {}
  /\ deliveries \subseteq Int \X Summary!Target
  /\ bound \subseteq Group
  /\ worker \in [Executor -> SummaryPlace]
  /\ form \in [targets : SUBSET Summary!Target, enabled : BOOLEAN, push : Int]
  /\ summaryFaults \in Nat /\ saves \in Nat
  /\ sent \in [Summary!Target -> Seq(Int)]
  /\ audience \subseteq Summary!Target

(* A chat has got the message of a period. *)
Got(t, end) == \E i \in DOMAIN sent[t] : sent[t][i] = end
(* A process is sending the messages of its period. *)
IsSending(e) == worker[e].pc \in {"send", "mark"}
(* It has sent this one and not recorded it. *)
Unrecorded(e, t) == worker[e].pc = "mark" /\ worker[e].at = t

(* Without faults one process is past the lock. *)
OneIsSending ==
  summaryFaults = 0 =>
    \A e \in Executor : worker[e].pc \notin {"idle", "lock"} => lock = e

(* What is recorded was sent, and while the row is there, what was sent is recorded
   or about to be. *)
DeliveredWasSent == \A end \in Int, t \in Summary!Target : <<end, t>> \in deliveries => Got(t, end)
SentIsDelivered ==
  summaryFaults = 0 /\ sub.active =>
    \A t \in Summary!Target, end \in Int : Got(t, end) =>
      \/ <<end, t>> \in deliveries
      \/ \E e \in Executor : Unrecorded(e, t) /\ worker[e].end = end

(* What is pending was not sent; *)
PendingIsUnsent ==
  summaryFaults = 0 =>
    \A e \in Executor : IsSending(e) =>
      \A t \in worker[e].pending : Unrecorded(e, t) \/ ~Got(t, worker[e].end)

(* what was listed is pending or was sent. *)
ListedArePending ==
  \A e \in Executor : IsSending(e) =>
    \A t \in Summary!Target :
      /\ Unrecorded(e, t) => Got(t, worker[e].end)
      /\ t \in worker[e].listed => t \in worker[e].pending \/ Got(t, worker[e].end)

SentOnce ==
  summaryFaults = 0 =>
    \A t \in Summary!Target : \A i, j \in DOMAIN sent[t] : sent[t][i] = sent[t][j] => i = j
AudienceGotIt == sub.lastEnd # Summary!Never => \A t \in audience : Got(t, sub.lastEnd)

SummaryInv == /\ SummaryTypes
              /\ OneIsSending /\ DeliveredWasSent /\ SentIsDelivered
              /\ PendingIsUnsent /\ ListedArePending /\ SentOnce /\ AudienceGotIt

LEMMA PeriodEndIsANumber ==
  ASSUME now \in Nat, NEW push \in Int
  PROVE  Summary!PeriodEnd(push) \in Int
<1>1. Parts \in Nat /\ Parts > 0
  BY SummaryAssumption
<1>2. Summary!LocalDate(now) \in Int
  BY <1>1 DEF Summary!LocalDate
<1> QED
  BY <1>1, <1>2 DEF Summary!PeriodEnd

(* The row of a subscription when it begins and when it has run out. *)
LEMMA NewRows ==
  LET on == [Summary!NewRow EXCEPT !.enabled = TRUE]
      gone == [Summary!NewRow EXCEPT !.active = FALSE]
  IN  /\ on \in SummaryRow /\ on.active /\ on.lastEnd = Summary!Never
      /\ gone \in SummaryRow /\ ~gone.active /\ gone.lastEnd = Summary!Never
<1>1. Summary!NewRow \in SummaryRow
  BY DEF Summary!NewRow, SummaryRow, Summary!Never
<1>2. Summary!NewRow.active /\ Summary!NewRow.lastEnd = Summary!Never
  BY DEF Summary!NewRow
<1> QED
  BY <1>1, <1>2 DEF SummaryRow

(* The user's requests and the time leave the workers and their records alone. *)
LEMMA UsersDisturbNothing ==
  ASSUME SummaryInv, SummaryTypes',
         UNCHANGED <<deliveries, lock, worker, sent, audience, summaryFaults>>,
         sub'.lastEnd = sub.lastEnd, sub'.active => sub.active
  PROVE  SummaryInv'
BY DEF SummaryInv, OneIsSending, DeliveredWasSent, SentIsDelivered, PendingIsUnsent,
       ListedArePending, SentOnce, AudienceGotIt, Got, IsSending, Unrecorded

(* A process that does not come to its sending, or leaves it, disturbs nobody. *)
LEMMA WorkerMoves ==
  ASSUME SummaryInv, NEW e \in Executor, NEW place \in SummaryPlace,
         worker' = [worker EXCEPT ![e] = place],
         place.pc \notin {"send", "mark"},
         summaryFaults' \in Nat, summaryFaults' = 0 => summaryFaults = 0 /\ worker[e].pc # "mark",
         OneIsSending',
         UNCHANGED <<now, sub, targets, deliveries, bound, form, saves, sent, audience>>
  PROVE  SummaryInv'
<1>1. /\ worker'[e] = place
      /\ \A x \in Executor : x # e => worker'[x] = worker[x]
      /\ worker' \in [Executor -> SummaryPlace]
  BY DEF SummaryInv, SummaryTypes
<1>2. SummaryTypes'
  BY <1>1 DEF SummaryInv, SummaryTypes, Summary!Target, SummaryPlace
<1>3. \A x \in Executor : IsSending(x)' => x # e /\ IsSending(x)
  BY <1>1 DEF IsSending
<1>4. \A x \in Executor : \A t : summaryFaults' = 0 => (Unrecorded(x, t)' <=> Unrecorded(x, t))
  BY <1>1 DEF Unrecorded
<1>5. \A t, end : Got(t, end)' <=> Got(t, end)
  BY DEF Got
<1>6. DeliveredWasSent' /\ AudienceGotIt' /\ SentOnce'
  BY <1>5 DEF SummaryInv, DeliveredWasSent, AudienceGotIt, SentOnce, Summary!Target, Summary!Never
<1>7. SentIsDelivered'
  <2> SUFFICES ASSUME summaryFaults' = 0, sub.active,
                      NEW t \in Summary!Target, NEW end \in Int, Got(t, end)'
               PROVE  \/ <<end, t>> \in deliveries
                      \/ \E x \in Executor : Unrecorded(x, t)' /\ worker'[x].end = end
    BY DEF SentIsDelivered, Summary!Target
  <2>1. CASE <<end, t>> \in deliveries
    BY <2>1
  <2>2. ASSUME NEW x \in Executor, Unrecorded(x, t), worker[x].end = end
        PROVE  Unrecorded(x, t)' /\ worker'[x].end = end
    BY <2>2, <1>1, <1>4 DEF Unrecorded
  <2> QED
    BY <2>1, <2>2, <1>5 DEF SummaryInv, SentIsDelivered
<1>8. PendingIsUnsent' /\ ListedArePending'
  <2>1. \A x \in Executor : IsSending(x)' => worker'[x] = worker[x] /\ IsSending(x)
    BY <1>1, <1>3
  <2> QED
    BY <2>1, <1>5 DEF SummaryInv, PendingIsUnsent, ListedArePending, Unrecorded, Summary!Target
<1> QED
  BY <1>2, <1>6, <1>7, <1>8 DEF SummaryInv

(* The targets of the period that were not recorded have not got its message. *)
LEMMA PendingStep ==
  ASSUME SummaryInv, NEW e \in Executor, Summary!ListPendingDailySummaryTargets(e)
  PROVE  SummaryInv'
<1> DEFINE pending == Summary!Undelivered(worker[e].end)
           place == [worker[e] EXCEPT !.pc = "send", !.pending = pending, !.listed = targets]
<1>1. /\ worker[e].pc = "pending"
      /\ worker' = [worker EXCEPT ![e] = place]
      /\ UNCHANGED <<now, sub, targets, deliveries, bound, form, saves, lock, summaryFaults,
                     sent, audience>>
  BY DEF Summary!ListPendingDailySummaryTargets, Summary!settings, Summary!outside
<1>2. /\ place \in SummaryPlace /\ place.pc = "send" /\ place.end = worker[e].end
      /\ place.pending = pending /\ place.listed = targets /\ place.end \in Int
      /\ pending \subseteq targets /\ targets \subseteq Summary!Target
  BY DEF SummaryInv, SummaryTypes, SummaryPlace, Summary!Undelivered
<1>3. \A t \in targets : t \in pending <=> <<worker[e].end, t>> \notin deliveries
  BY DEF Summary!Undelivered
<1> HIDE DEF place, pending
<1>4. /\ worker'[e] = place
      /\ \A x \in Executor : x # e => worker'[x] = worker[x]
      /\ worker' \in [Executor -> SummaryPlace]
  BY <1>1, <1>2 DEF SummaryInv, SummaryTypes
<1>5. SummaryTypes'
  BY <1>1, <1>4 DEF SummaryInv, SummaryTypes, Summary!Target, SummaryPlace
<1>6. \A x \in Executor : \A t : Unrecorded(x, t)' <=> Unrecorded(x, t)
  BY <1>1, <1>2, <1>4 DEF Unrecorded
<1>7. \A t, end : Got(t, end)' <=> Got(t, end)
  BY <1>1 DEF Got
<1>8. OneIsSending'
  BY <1>1, <1>4 DEF SummaryInv, OneIsSending
<1>9. DeliveredWasSent' /\ AudienceGotIt' /\ SentOnce'
  BY <1>1, <1>7 DEF SummaryInv, DeliveredWasSent, AudienceGotIt, SentOnce, Summary!Target, Summary!Never
<1>10. SentIsDelivered'
  <2> SUFFICES ASSUME summaryFaults = 0, sub.active,
                      NEW t \in Summary!Target, NEW end \in Int, Got(t, end)
               PROVE  \/ <<end, t>> \in deliveries
                      \/ \E x \in Executor : Unrecorded(x, t)' /\ worker'[x].end = end
    BY <1>1, <1>7 DEF SentIsDelivered, Summary!Target
  <2>1. ASSUME NEW x \in Executor, Unrecorded(x, t), worker[x].end = end
        PROVE  Unrecorded(x, t)' /\ worker'[x].end = end
    BY <2>1, <1>1, <1>4, <1>6 DEF Unrecorded
  <2> QED
    BY <2>1 DEF SummaryInv, SentIsDelivered
<1>11. PendingIsUnsent'
  <2> SUFFICES ASSUME summaryFaults = 0, NEW x \in Executor, IsSending(x)',
                      NEW t \in worker'[x].pending
               PROVE  Unrecorded(x, t)' \/ ~Got(t, worker'[x].end)
    BY <1>1, <1>7 DEF PendingIsUnsent
  <2>1. CASE x # e
    BY <2>1, <1>4, <1>6 DEF SummaryInv, PendingIsUnsent, IsSending
  <2>2. CASE x = e
    <3>1. t \in targets /\ <<worker[e].end, t>> \notin deliveries
      BY <2>2, <1>2, <1>3, <1>4
    <3>2. sub.active /\ lock = e
      BY <3>1, <1>1 DEF SummaryInv, SummaryTypes, OneIsSending
    <3>3. \A y \in Executor : ~Unrecorded(y, t)
      BY <3>2, <1>1 DEF SummaryInv, OneIsSending, Unrecorded
    <3>4. ~Got(t, worker[e].end)
      BY <3>1, <3>2, <3>3, <1>2 DEF SummaryInv, SentIsDelivered
    <3> QED
      BY <2>2, <3>4, <1>2, <1>4
  <2> QED
    BY <2>1, <2>2
<1>12. ListedArePending'
  <2> SUFFICES ASSUME NEW x \in Executor, IsSending(x)', NEW t \in Summary!Target
               PROVE  /\ Unrecorded(x, t)' => Got(t, worker'[x].end)
                      /\ t \in worker'[x].listed => t \in worker'[x].pending \/ Got(t, worker'[x].end)
    BY <1>7 DEF ListedArePending, Summary!Target
  <2>1. CASE x # e
    BY <2>1, <1>4, <1>6 DEF SummaryInv, ListedArePending, IsSending
  <2>2. CASE x = e
    BY <2>2, <1>2, <1>3, <1>4, <1>6, <1>1 DEF SummaryInv, DeliveredWasSent, Unrecorded
  <2> QED
    BY <2>1, <2>2
<1> QED
  BY <1>5, <1>8, <1>9, <1>10, <1>11, <1>12 DEF SummaryInv

LEMMA Delivered ==
  ASSUME SummaryTypes, NEW t \in Summary!Target, NEW end \in Int,
         sent' = [sent EXCEPT ![t] = Append(@, end)]
  PROVE  /\ sent' \in [Summary!Target -> Seq(Int)]
         /\ \A x \in Summary!Target : \A y : Got(x, y)' <=> Got(x, y) \/ (x = t /\ y = end)
         /\ \A x \in Summary!Target : x # t => sent'[x] = sent[x]
         /\ DOMAIN sent'[t] = DOMAIN sent[t] \cup {Len(sent[t]) + 1}
         /\ sent'[t][Len(sent[t]) + 1] = end
         /\ \A i \in DOMAIN sent[t] : sent'[t][i] = sent[t][i] /\ i # Len(sent[t]) + 1
<1> DEFINE s == Append(sent[t], end)
<1>1. sent[t] \in Seq(Int) /\ sent \in [Summary!Target -> Seq(Int)]
  BY DEF SummaryTypes
<1>2. /\ s \in Seq(Int) /\ DOMAIN s = DOMAIN sent[t] \cup {Len(sent[t]) + 1}
      /\ s[Len(sent[t]) + 1] = end
      /\ \A i \in DOMAIN sent[t] : s[i] = sent[t][i] /\ i # Len(sent[t]) + 1
  BY <1>1
<1> HIDE DEF s
<1>3. sent' = [sent EXCEPT ![t] = s]
  BY DEF s
<1>4. /\ sent' \in [Summary!Target -> Seq(Int)] /\ sent'[t] = s
      /\ \A x \in Summary!Target : x # t => sent'[x] = sent[x]
  BY <1>1, <1>2, <1>3
<1>5. \A x \in Summary!Target : \A y : Got(x, y)' <=> Got(x, y) \/ (x = t /\ y = end)
  BY <1>2, <1>4 DEF Got
<1> QED
  BY <1>2, <1>4, <1>5

(* A message is delivered to a target that had none of this period; and its process
   goes on to record it, or has no answer. *)
LEMMA DeliveryStep ==
  ASSUME SummaryInv, NEW e \in Executor, NEW t \in worker[e].pending,
         worker[e].pc = "send", Summary!Deliver(t, e),
         NEW place \in SummaryPlace, worker' = [worker EXCEPT ![e] = place],
         summaryFaults' \in Nat,
         \/ /\ place = [worker[e] EXCEPT !.pc = "mark", !.at = t]
            /\ UNCHANGED <<lock, summaryFaults>>
         \/ place.pc = "idle" /\ summaryFaults' # 0,
         UNCHANGED <<now, sub, targets, deliveries, bound, form, saves, audience>>
  PROVE  SummaryInv'
<1> DEFINE end == worker[e].end
<1>0. /\ SummaryTypes /\ OneIsSending /\ DeliveredWasSent /\ SentIsDelivered
      /\ PendingIsUnsent /\ ListedArePending /\ SentOnce /\ AudienceGotIt
  BY DEF SummaryInv
<1>1. worker[e] \in SummaryPlace /\ t \in Summary!Target /\ end \in Int /\ IsSending(e)
      /\ \A x : ~Unrecorded(e, x)
  BY <1>0 DEF SummaryTypes, SummaryPlace, IsSending, Unrecorded
<1>2. /\ sent' \in [Summary!Target -> Seq(Int)]
      /\ \A x \in Summary!Target : \A y : Got(x, y)' <=> Got(x, y) \/ (x = t /\ y = end)
      /\ \A x \in Summary!Target : x # t => sent'[x] = sent[x]
      /\ DOMAIN sent'[t] = DOMAIN sent[t] \cup {Len(sent[t]) + 1}
      /\ sent'[t][Len(sent[t]) + 1] = end
      /\ \A i \in DOMAIN sent[t] : sent'[t][i] = sent[t][i] /\ i # Len(sent[t]) + 1
  <2>1. sent' = [sent EXCEPT ![t] = Append(@, end)]
    BY DEF Summary!Deliver
  <2> QED
    BY <1>0, <1>1, <2>1, Delivered
<1>3. /\ worker'[e] = place
      /\ \A x \in Executor : x # e => worker'[x] = worker[x]
      /\ worker' \in [Executor -> SummaryPlace]
  BY <1>0 DEF SummaryTypes
<1>4. \/ /\ place.pc = "mark" /\ place.at = t /\ place.end = end
         /\ place.listed = worker[e].listed /\ place.pending = worker[e].pending
         /\ UNCHANGED <<lock, summaryFaults>>
      \/ place.pc = "idle" /\ summaryFaults' # 0
  BY <1>1 DEF SummaryPlace
<1> HIDE DEF end
<1>5. SummaryTypes'
  BY <1>0, <1>2, <1>3 DEF SummaryTypes, Summary!Target, SummaryPlace
<1>6. summaryFaults' = 0 => summaryFaults = 0 /\ lock' = lock /\ place.pc = "mark"
  BY <1>4
<1>7. \A x \in Executor : x # e => \A y : /\ Unrecorded(x, y)' <=> Unrecorded(x, y)
                                          /\ IsSending(x)' <=> IsSending(x)
  BY <1>3 DEF Unrecorded, IsSending
<1>8. OneIsSending'
  BY <1>0, <1>3, <1>6 DEF OneIsSending
<1>9. summaryFaults = 0 => \A x \in Executor : IsSending(x) => x = e
  BY <1>0, <1>1 DEF OneIsSending, IsSending
<1>10. summaryFaults = 0 => ~Got(t, end)
  BY <1>0, <1>1 DEF PendingIsUnsent, end
<1>11. DeliveredWasSent' /\ AudienceGotIt'
  <2>1. DeliveredWasSent'
    BY <1>0, <1>2 DEF DeliveredWasSent, Summary!Target
  <2>2. AudienceGotIt'
    BY <1>0, <1>2 DEF AudienceGotIt, SummaryTypes, Summary!Never
  <2> QED
    BY <2>1, <2>2
<1>12. SentIsDelivered'
  <2> SUFFICES ASSUME summaryFaults' = 0, sub.active,
                      NEW x \in Summary!Target, NEW y \in Int, Got(x, y)'
               PROVE  \/ <<y, x>> \in deliveries
                      \/ \E q \in Executor : Unrecorded(q, x)' /\ worker'[q].end = y
    BY DEF SentIsDelivered, Summary!Target
  <2>1. CASE x = t /\ y = end
    BY <2>1, <1>3, <1>4 DEF Unrecorded
  <2>2. CASE Got(x, y)
    <3>1. \A q \in Executor : ~Unrecorded(q, x)
      BY <1>1, <1>6, <1>9 DEF Unrecorded, IsSending
    <3> QED
      BY <3>1, <2>2, <1>0, <1>6 DEF SentIsDelivered
  <2> QED
    BY <2>1, <2>2, <1>2
<1>13. PendingIsUnsent'
  <2> SUFFICES ASSUME summaryFaults' = 0, NEW x \in Executor, IsSending(x)',
                      NEW y \in worker'[x].pending
               PROVE  Unrecorded(x, y)' \/ ~Got(y, worker[x].end)'
    BY DEF PendingIsUnsent
  <2>1. x = e
    BY <1>6, <1>7, <1>9
  <2>2. y \in worker[e].pending /\ y \in Summary!Target /\ worker'[e].end = end
    BY <2>1, <1>1, <1>3, <1>4, <1>6 DEF SummaryPlace
  <2>3. CASE y = t
    BY <2>1, <2>3, <1>3, <1>4, <1>6 DEF Unrecorded
  <2>4. CASE y # t
    <3>1. ~Got(y, end)
      BY <2>2, <1>0, <1>1, <1>6 DEF PendingIsUnsent, end
    <3>2. \A z : z = end => ~Got(y, z)'
      BY <3>1, <2>2, <2>4, <1>2
    <3>3. ~Got(y, worker[x].end)'
      BY <3>2, <2>1, <2>2 DEF Got
    <3> QED
      BY <3>3
  <2> QED
    BY <2>3, <2>4
<1>14. ListedArePending'
  <2> SUFFICES ASSUME NEW x \in Executor, IsSending(x)', NEW y \in Summary!Target
               PROVE  /\ Unrecorded(x, y)' => Got(y, worker[x].end)'
                      /\ y \in worker'[x].listed => y \in worker'[x].pending \/ Got(y, worker[x].end)'
    BY DEF ListedArePending, Summary!Target
  <2>0. \A z : Got(y, z) => Got(y, z)'
    BY <1>2
  <2>1. CASE x # e
    <3>1. /\ IsSending(x) /\ worker'[x] = worker[x]
          /\ Unrecorded(x, y)' <=> Unrecorded(x, y)
      BY <2>1, <1>3, <1>7
    <3>2. /\ Unrecorded(x, y) => Got(y, worker[x].end)
          /\ y \in worker[x].listed => y \in worker[x].pending \/ Got(y, worker[x].end)
      BY <3>1, <1>0 DEF ListedArePending
    <3>3. Got(y, worker[x].end) => Got(y, worker[x].end)'
      BY <2>0, <3>1 DEF Got
    <3> QED
      BY <3>1, <3>2, <3>3
  <2>2. CASE x = e
    <3>1. place.pc = "mark"
      BY <2>2, <1>3, <1>4 DEF IsSending
    <3>2. /\ worker'[e].end = end /\ worker'[e].at = t
          /\ worker'[e].listed = worker[e].listed /\ worker'[e].pending = worker[e].pending
      BY <3>1, <1>3, <1>4
    <3>3. Got(y, worker[e].end)' <=> Got(y, end) \/ y = t
      BY <3>2, <1>2 DEF Got
    <3>4. y \in worker[e].listed => y \in worker[e].pending \/ Got(y, end)
      BY <1>0, <1>1 DEF ListedArePending, end
    <3> QED
      BY <2>2, <3>2, <3>3, <3>4 DEF Unrecorded
  <2> QED
    BY <2>1, <2>2
<1>15. SentOnce'
  <2> SUFFICES ASSUME summaryFaults' = 0, NEW x \in Summary!Target,
                      NEW i \in DOMAIN sent'[x], NEW j \in DOMAIN sent'[x],
                      sent'[x][i] = sent'[x][j]
               PROVE  i = j
    BY DEF SentOnce, Summary!Target
  <2>1. CASE x # t
    BY <2>1, <1>0, <1>2, <1>6 DEF SentOnce
  <2>2. CASE x = t
    <3>1. \A k \in DOMAIN sent[t] : sent[t][k] # end
      BY <1>6, <1>10 DEF Got
    <3>2. \A k, l \in DOMAIN sent[t] : sent[t][k] = sent[t][l] => k = l
      BY <1>0, <1>1, <1>6 DEF SentOnce
    <3> QED
      BY <2>2, <3>1, <3>2, <1>2
  <2> QED
    BY <2>1, <2>2
<1> QED
  BY <1>5, <1>8, <1>11, <1>12, <1>13, <1>14, <1>15 DEF SummaryInv

(* A message is recorded. *)
LEMMA MarkStep ==
  ASSUME SummaryInv, NEW e \in Executor, Summary!MarkDailySummaryTargetSent(e)
  PROVE  SummaryInv'
<1> DEFINE t == worker[e].at
           end == worker[e].end
           place == [worker[e] EXCEPT !.pc = "send", !.pending = @ \ {t}]
<1>0. /\ SummaryTypes /\ OneIsSending /\ DeliveredWasSent /\ SentIsDelivered
      /\ PendingIsUnsent /\ ListedArePending /\ SentOnce /\ AudienceGotIt
  BY DEF SummaryInv
<1>1. /\ worker[e].pc = "mark"
      /\ deliveries' = deliveries \cup {<<end, t>>}
      /\ worker' = [worker EXCEPT ![e] = place]
      /\ UNCHANGED <<now, sub, targets, bound, form, saves, lock, summaryFaults, sent, audience>>
  BY DEF Summary!MarkDailySummaryTargetSent, Summary!settings, Summary!outside
<1>2. /\ worker[e] \in SummaryPlace /\ end \in Int /\ t \in Summary!Target
      /\ IsSending(e) /\ Unrecorded(e, t) /\ Got(t, end)
  BY <1>0, <1>1 DEF SummaryTypes, SummaryPlace, IsSending, Unrecorded, ListedArePending
<1>3. /\ place \in SummaryPlace /\ place.pc = "send" /\ place.end = end
      /\ place.listed = worker[e].listed /\ place.pending = worker[e].pending \ {t}
  BY <1>2 DEF SummaryPlace
<1> HIDE DEF place
<1>4. /\ worker'[e] = place
      /\ \A x \in Executor : x # e => worker'[x] = worker[x]
      /\ worker' \in [Executor -> SummaryPlace]
  BY <1>0, <1>1, <1>3 DEF SummaryTypes
<1>5. SummaryTypes'
  BY <1>0, <1>1, <1>2, <1>4 DEF SummaryTypes, Summary!Target, SummaryPlace
<1>6. \A x, y : Got(x, y)' <=> Got(x, y)
  BY <1>1 DEF Got
<1>7. /\ \A x \in Executor : \A y : x # e => (Unrecorded(x, y)' <=> Unrecorded(x, y))
      /\ \A y : ~Unrecorded(e, y)'
      /\ \A x \in Executor : IsSending(x)' <=> IsSending(x)
  BY <1>2, <1>3, <1>4 DEF Unrecorded, IsSending
<1>8. OneIsSending'
  BY <1>0, <1>1, <1>4 DEF OneIsSending
<1>9. DeliveredWasSent'
  <2> SUFFICES ASSUME NEW y \in Int, NEW x \in Summary!Target, <<y, x>> \in deliveries'
               PROVE  Got(x, y)
    BY <1>6 DEF DeliveredWasSent, Summary!Target
  <2>1. CASE <<y, x>> \in deliveries
    BY <2>1, <1>0 DEF DeliveredWasSent
  <2>2. CASE y = end /\ x = t
    BY <2>2, <1>2
  <2> HIDE DEF end, t
  <2> QED
    BY <2>1, <2>2, <1>1
<1>10. AudienceGotIt' /\ SentOnce'
  BY <1>0, <1>1, <1>6 DEF AudienceGotIt, SentOnce, Summary!Target, Summary!Never
<1>11. SentIsDelivered'
  <2> SUFFICES ASSUME summaryFaults = 0, sub.active,
                      NEW x \in Summary!Target, NEW y \in Int, Got(x, y)
               PROVE  \/ <<y, x>> \in deliveries'
                      \/ \E q \in Executor : Unrecorded(q, x)' /\ worker'[q].end = y
    BY <1>1, <1>6 DEF SentIsDelivered, Summary!Target
  <2>1. CASE <<y, x>> \in deliveries
    BY <2>1, <1>1
  <2>2. ASSUME NEW q \in Executor, Unrecorded(q, x), worker[q].end = y
        PROVE  \/ <<y, x>> \in deliveries'
               \/ Unrecorded(q, x)' /\ worker'[q].end = y
    <3>1. CASE q = e
      <4>1. x = t /\ y = end
        BY <3>1, <2>2 DEF Unrecorded
      <4> QED
        BY <4>1, <1>1
    <3>2. CASE q # e
      BY <3>2, <2>2, <1>4, <1>7
    <3> QED
      BY <3>1, <3>2
  <2> QED
    BY <2>1, <2>2, <1>0 DEF SentIsDelivered
<1>12. PendingIsUnsent'
  <2> SUFFICES ASSUME summaryFaults = 0, NEW x \in Executor, IsSending(x)',
                      NEW y \in worker'[x].pending
               PROVE  Unrecorded(x, y)' \/ ~Got(y, worker'[x].end)
    BY <1>1, <1>6 DEF PendingIsUnsent
  <2>1. CASE x # e
    BY <2>1, <1>0, <1>4, <1>7 DEF PendingIsUnsent
  <2>2. CASE x = e
    <3>1. y \in worker[e].pending /\ y # t
      BY <2>2, <1>3, <1>4
    <3>2. ~Got(y, end)
      BY <3>1, <1>0, <1>2 DEF PendingIsUnsent, Unrecorded
    <3> QED
      BY <3>2, <2>2, <1>3, <1>4
  <2> QED
    BY <2>1, <2>2
<1>13. ListedArePending'
  <2> SUFFICES ASSUME NEW x \in Executor, IsSending(x)', NEW y \in Summary!Target
               PROVE  /\ Unrecorded(x, y)' => Got(y, worker'[x].end)
                      /\ y \in worker'[x].listed => y \in worker'[x].pending \/ Got(y, worker'[x].end)
    BY <1>6 DEF ListedArePending, Summary!Target
  <2>1. CASE x # e
    BY <2>1, <1>0, <1>4, <1>7 DEF ListedArePending
  <2>2. CASE x = e
    BY <2>2, <1>0, <1>2, <1>3, <1>4, <1>7 DEF ListedArePending
  <2> QED
    BY <2>1, <2>2
<1> QED
  BY <1>5, <1>8, <1>9, <1>10, <1>11, <1>12, <1>13 DEF SummaryInv

(* A period is closed: nothing is pending, so that all that was listed was sent. *)
LEMMA CloseStep ==
  ASSUME SummaryInv, NEW e \in Executor, Summary!MarkScheduledPushSent(e)
  PROVE  SummaryInv'
<1> DEFINE date == Summary!LocalDate(worker[e].end)
           closed == [sub EXCEPT !.lastDate = date, !.lastEnd = worker[e].end]
<1>0. /\ SummaryTypes /\ OneIsSending /\ DeliveredWasSent /\ SentIsDelivered
      /\ PendingIsUnsent /\ ListedArePending /\ SentOnce /\ AudienceGotIt
  BY DEF SummaryInv
<1>1. /\ worker[e].pc = "send" /\ worker[e].pending = {}
      /\ sub' = closed
      /\ audience' = worker[e].listed
      /\ worker' = [worker EXCEPT ![e] = Summary!Offline]
      /\ lock' = IF lock = e THEN Nobody ELSE lock
      /\ UNCHANGED <<now, targets, bound, form, saves, deliveries, summaryFaults, sent>>
  BY DEF Summary!MarkScheduledPushSent, Summary!outside, Summary!Release
<1>2. /\ worker[e] \in SummaryPlace /\ IsSending(e) /\ worker[e].end \in Int
      /\ worker[e].listed \subseteq Summary!Target
  BY <1>0, <1>1 DEF SummaryTypes, SummaryPlace, IsSending
<1>3. date \in Int
  BY <1>2, SummaryAssumption DEF Summary!LocalDate
<1>4. closed \in SummaryRow /\ closed.lastEnd = worker[e].end /\ (closed.active <=> sub.active)
  <2> HIDE DEF date
  <2> QED
    BY <1>0, <1>2, <1>3 DEF SummaryTypes, SummaryRow
<1> HIDE DEF closed, date
<1>5. Summary!Offline \in SummaryPlace /\ Summary!Offline.pc = "idle"
  BY DEF Summary!Offline, SummaryPlace, Summary!Target, Summary!Private, Summary!Never
<1>6. SummaryTypes'
  BY <1>0, <1>1, <1>2, <1>4, <1>5 DEF SummaryTypes, Summary!Target, SummaryPlace
<1>7. /\ worker'[e].pc = "idle"
      /\ \A x \in Executor : x # e => worker'[x] = worker[x]
  BY <1>0, <1>1, <1>5 DEF SummaryTypes
<1>8. OneIsSending'
  BY <1>0, <1>1, <1>7 DEF OneIsSending
<1>9. /\ \A x \in Executor : \A t : Unrecorded(x, t)' <=> Unrecorded(x, t)
      /\ \A x \in Executor : IsSending(x)' => x # e /\ IsSending(x)
  BY <1>1, <1>7 DEF Unrecorded, IsSending
<1>10. \A x, y : Got(x, y)' <=> Got(x, y)
  BY <1>1 DEF Got
<1>11. AudienceGotIt'
  <2>1. \A t \in worker[e].listed : Got(t, worker[e].end)
    BY <1>0, <1>1, <1>2 DEF ListedArePending
  <2> QED
    BY <2>1, <1>1, <1>4, <1>10 DEF AudienceGotIt
<1>12. DeliveredWasSent' /\ SentOnce'
  BY <1>0, <1>1, <1>10 DEF DeliveredWasSent, SentOnce, Summary!Target
<1>13. SentIsDelivered'
  <2> SUFFICES ASSUME summaryFaults = 0, sub.active,
                      NEW x \in Summary!Target, NEW y \in Int, Got(x, y)
               PROVE  \/ <<y, x>> \in deliveries
                      \/ \E q \in Executor : Unrecorded(q, x)' /\ worker'[q].end = y
    BY <1>1, <1>4, <1>10 DEF SentIsDelivered, Summary!Target
  <2>1. ASSUME NEW q \in Executor, Unrecorded(q, x), worker[q].end = y
        PROVE  Unrecorded(q, x)' /\ worker'[q].end = y
    BY <2>1, <1>1, <1>7, <1>9 DEF Unrecorded
  <2> QED
    BY <2>1, <1>0 DEF SentIsDelivered
<1>14. PendingIsUnsent' /\ ListedArePending'
  <2>1. \A x \in Executor : IsSending(x)' => worker'[x] = worker[x] /\ IsSending(x)
    BY <1>7, <1>9
  <2> QED
    BY <2>1, <1>0, <1>1, <1>10 DEF PendingIsUnsent, ListedArePending, Unrecorded, Summary!Target
<1> QED
  BY <1>6, <1>8, <1>11, <1>12, <1>13, <1>14 DEF SummaryInv

LEMMA SummaryStart == Summary!Init => SummaryInv
<1> SUFFICES ASSUME Summary!Init PROVE SummaryInv
  OBVIOUS
<1>1. Summary!Offline \in SummaryPlace /\ Summary!Offline.pc = "idle"
  BY DEF Summary!Offline, SummaryPlace, Summary!Target, Summary!Private, Summary!Never
<1>2. SummaryTypes
  <2>1. now \in Nat /\ sub \in SummaryRow /\ sub.active
    BY SummaryAssumption, NewRows DEF Summary!Init
  <2>2. form \in [targets : SUBSET Summary!Target, enabled : BOOLEAN, push : Int]
    BY DEF Summary!Init, Summary!NoForm
  <2>3. worker \in [Executor -> SummaryPlace]
    BY <1>1 DEF Summary!Init
  <2>4. sent \in [Summary!Target -> Seq(Int)] /\ audience = {} /\ deliveries = {}
    BY DEF Summary!Init
  <2> QED
    BY <2>1, <2>2, <2>3, <2>4 DEF Summary!Init, SummaryTypes
<1>3. \A e \in Executor : worker[e].pc = "idle"
  BY <1>1 DEF Summary!Init
<1>4. \A t \in Summary!Target : sent[t] = <<>>
  BY DEF Summary!Init
<1>5. sub.lastEnd = Summary!Never
  BY NewRows DEF Summary!Init
<1> QED
  BY <1>2, <1>3, <1>4, <1>5 DEF Summary!Init, SummaryInv, OneIsSending, DeliveredWasSent,
     SentIsDelivered, PendingIsUnsent, ListedArePending, SentOnce, AudienceGotIt, Got,
     IsSending, Unrecorded

LEMMA ExecutorStepKeeps ==
  ASSUME SummaryInv, NEW e \in Executor, Summary!ExecutorStep(e) \/ Summary!Crash(e)
  PROVE  SummaryInv'
<1>0. /\ SummaryTypes /\ OneIsSending /\ Nobody \notin Executor
      /\ worker \in [Executor -> SummaryPlace] /\ worker[e] \in SummaryPlace
  BY SummaryAssumption DEF SummaryInv, SummaryTypes
<1>1. Summary!Offline \in SummaryPlace /\ Summary!Offline.pc = "idle"
  BY DEF Summary!Offline, SummaryPlace, Summary!Target, Summary!Private, Summary!Never
<1> USE DEF Summary!settings, Summary!outside
<1>2. ASSUME Summary!Release(e), summaryFaults' \in Nat,
             summaryFaults' = 0 => summaryFaults = 0 /\ worker[e].pc # "mark",
             UNCHANGED <<now, sub, targets, deliveries, bound, form, saves, sent, audience>>
      PROVE  SummaryInv'
  <2>1. worker' = [worker EXCEPT ![e] = Summary!Offline]
    BY <1>2 DEF Summary!Release
  <2>2. OneIsSending'
    BY <1>0, <1>1, <1>2, <2>1 DEF OneIsSending, Summary!Release
  <2> QED
    BY <1>1, <1>2, <2>1, <2>2, WorkerMoves
<1>3. ASSUME NEW pc \in {"idle", "lock", "read", "targets", "pending"},
             Summary!Moved(e, pc), worker[e].pc # "mark", OneIsSending',
             UNCHANGED <<now, sub, targets, deliveries, bound, form, saves, summaryFaults,
                         sent, audience>>
      PROVE  SummaryInv'
  <2> DEFINE place == [worker[e] EXCEPT !.pc = pc]
  <2>1. worker' = [worker EXCEPT ![e] = place]
    BY <1>3 DEF Summary!Moved
  <2>2. place \in SummaryPlace /\ place.pc = pc
    BY <1>0 DEF SummaryPlace
  <2>3. summaryFaults \in Nat
    BY <1>0 DEF SummaryTypes
  <2> HIDE DEF place
  <2> QED
    BY <1>3, <2>1, <2>2, <2>3, WorkerMoves
<1>4. ASSUME NEW pc \in {"idle", "lock", "read", "targets", "pending"}, Summary!Moved(e, pc),
             UNCHANGED summaryFaults,
             pc \notin {"idle", "lock"} => \/ lock' = lock /\ worker[e].pc \notin {"idle", "lock"}
                                           \/ lock = Nobody /\ lock' = e,
             pc \in {"idle", "lock"} => lock' = lock
      PROVE  OneIsSending'
  <2>1. /\ worker'[e].pc = pc
        /\ \A x \in Executor : x # e => worker'[x] = worker[x]
    BY <1>0, <1>4 DEF Summary!Moved, SummaryPlace
  <2> QED
    BY <2>1, <1>0, <1>4 DEF OneIsSending
<1>5. CASE Summary!ListDueScheduledSubscriptions(e)
  <2>1. Summary!Moved(e, "lock") /\ worker[e].pc = "idle" /\ lock' = lock
        /\ UNCHANGED <<now, sub, targets, deliveries, bound, form, saves, summaryFaults, sent, audience>>
    BY <1>5 DEF Summary!ListDueScheduledSubscriptions
  <2> QED
    BY <2>1, <1>3, <1>4
<1>6. CASE Summary!TryScheduledSummaryLock(e)
  <2>1. /\ worker[e].pc = "lock"
        /\ UNCHANGED <<now, sub, targets, deliveries, bound, form, saves, summaryFaults, sent, audience>>
        /\ \/ lock = Nobody /\ lock' = e /\ Summary!Moved(e, "read")
           \/ lock' = lock /\ Summary!Moved(e, "idle")
    BY <1>6 DEF Summary!TryScheduledSummaryLock, Summary!LockFree
  <2>2. CASE lock = Nobody /\ lock' = e /\ Summary!Moved(e, "read")
    BY <2>1, <2>2, <1>3, <1>4
  <2>3. CASE lock' = lock /\ Summary!Moved(e, "idle")
    BY <2>1, <2>3, <1>3, <1>4
  <2> QED
    BY <2>1, <2>2, <2>3
<1>7. CASE Summary!GetScheduledSubscription(e)
  <2>1. /\ worker[e].pc = "read"
        /\ UNCHANGED <<now, sub, targets, deliveries, bound, form, saves, summaryFaults, sent, audience>>
        /\ \/ /\ worker' = [worker EXCEPT ![e].pc = "targets", ![e].end = Summary!PeriodEnd(sub.push)]
              /\ lock' = lock
           \/ Summary!Release(e)
    BY <1>7 DEF Summary!GetScheduledSubscription
  <2>2. summaryFaults \in Nat
    BY <1>0 DEF SummaryTypes
  <2>3. CASE Summary!Release(e)
    BY <2>1, <2>2, <2>3, <1>2
  <2>4. CASE /\ worker' = [worker EXCEPT ![e].pc = "targets", ![e].end = Summary!PeriodEnd(sub.push)]
             /\ lock' = lock
    <3> DEFINE end == Summary!PeriodEnd(sub.push)
               place == [worker[e] EXCEPT !.pc = "targets", !.end = end]
    <3>1. end \in Int
      BY <1>0, PeriodEndIsANumber DEF SummaryTypes, SummaryRow
    <3> HIDE DEF end
    <3>2. place \in SummaryPlace /\ place.pc = "targets"
      BY <3>1, <1>0 DEF SummaryPlace
    <3>3. worker' = [worker EXCEPT ![e] = place]
      BY <2>4 DEF end
    <3> HIDE DEF place
    <3>4. OneIsSending'
      BY <1>0, <2>1, <2>4, <3>2, <3>3 DEF OneIsSending
    <3> QED
      BY <2>1, <2>2, <3>2, <3>3, <3>4, WorkerMoves
  <2> QED
    BY <2>1, <2>3, <2>4
<1>8. CASE Summary!ListDailySummaryTargets(e)
  <2>1. /\ worker[e].pc = "targets"
        /\ UNCHANGED <<now, sub, targets, deliveries, bound, form, saves, summaryFaults, sent, audience>>
        /\ \/ Summary!Moved(e, "pending") /\ lock' = lock
           \/ Summary!Release(e)
    BY <1>8 DEF Summary!ListDailySummaryTargets
  <2>2. summaryFaults \in Nat
    BY <1>0 DEF SummaryTypes
  <2>3. CASE Summary!Release(e)
    BY <2>1, <2>2, <2>3, <1>2
  <2>4. CASE Summary!Moved(e, "pending") /\ lock' = lock
    BY <2>1, <2>4, <1>3, <1>4
  <2> QED
    BY <2>1, <2>3, <2>4
<1>9. CASE Summary!SendNotification(e)
  <2>1. PICK t \in Summary!NextTargets(worker[e].pending) :
          \/ /\ Summary!Deliver(t, e)
             /\ worker' = [worker EXCEPT ![e].pc = "mark", ![e].at = t]
             /\ UNCHANGED <<lock, summaryFaults>>
          \/ Summary!Release(e) /\ UNCHANGED <<summaryFaults, sent>>
          \/ /\ summaryFaults' = summaryFaults + 1
             /\ Summary!Deliver(t, e)
             /\ Summary!Release(e)
    BY <1>9 DEF Summary!SendNotification
  <2>2. /\ worker[e].pc = "send"
        /\ UNCHANGED <<now, sub, targets, deliveries, bound, form, saves, audience>>
    BY <1>9 DEF Summary!SendNotification
  <2>3. t \in worker[e].pending /\ t \in Summary!Target
    BY <1>0 DEF Summary!NextTargets, SummaryPlace
  <2>4. summaryFaults \in Nat
    BY <1>0 DEF SummaryTypes
  <2>5. CASE /\ Summary!Deliver(t, e)
             /\ worker' = [worker EXCEPT ![e].pc = "mark", ![e].at = t]
             /\ UNCHANGED <<lock, summaryFaults>>
    <3> DEFINE place == [worker[e] EXCEPT !.pc = "mark", !.at = t]
    <3>1. place \in SummaryPlace
      BY <2>3, <1>0 DEF SummaryPlace
    <3>2. worker' = [worker EXCEPT ![e] = place]
      BY <2>5
    <3>3. place = [worker[e] EXCEPT !.pc = "mark", !.at = t]
      OBVIOUS
    <3> HIDE DEF place
    <3> QED
      BY <2>2, <2>3, <2>4, <2>5, <3>1, <3>2, <3>3, DeliveryStep
  <2>6. CASE Summary!Release(e) /\ UNCHANGED <<summaryFaults, sent>>
    BY <2>2, <2>4, <2>6, <1>2
  <2>7. CASE /\ summaryFaults' = summaryFaults + 1
             /\ Summary!Deliver(t, e)
             /\ Summary!Release(e)
    <3>1. worker' = [worker EXCEPT ![e] = Summary!Offline]
      BY <2>7 DEF Summary!Release
    <3>2. summaryFaults' \in Nat /\ summaryFaults' # 0
      BY <2>4, <2>7
    <3> QED
      BY <1>1, <2>2, <2>3, <2>7, <3>1, <3>2, DeliveryStep
  <2> QED
    BY <2>1, <2>5, <2>6, <2>7
<1>10. CASE Summary!Crash(e)
  <2>1. summaryFaults' \in Nat /\ summaryFaults' # 0
    BY <1>0, <1>10 DEF Summary!Crash, SummaryTypes
  <2> QED
    BY <2>1, <1>2, <1>10 DEF Summary!Crash
<1> QED
  BY <1>5, <1>6, <1>7, <1>8, <1>9, <1>10, PendingStep, MarkStep, CloseStep
     DEF Summary!ExecutorStep

LEMMA SummaryStep == SummaryInv /\ [Summary!Next]_summaryVars => SummaryInv'
<1> SUFFICES ASSUME SummaryInv, [Summary!Next]_summaryVars PROVE SummaryInv'
  OBVIOUS
<1>0. SummaryTypes
  BY DEF SummaryInv
<1> USE DEF Summary!settings, Summary!outside
<1>1. CASE UNCHANGED summaryVars
  <2>1. SummaryTypes'
    BY <1>0, <1>1 DEF summaryVars, SummaryTypes, Summary!Target, SummaryPlace
  <2> QED
    BY <1>1, <2>1, UsersDisturbNothing DEF summaryVars
<1>2. CASE Summary!LoseLock
  <2>1. summaryFaults' \in Nat /\ summaryFaults' # 0
    BY <1>0, <1>2 DEF Summary!LoseLock, SummaryTypes
  <2>2. UNCHANGED <<now, sub, targets, deliveries, bound, form, saves, worker, sent, audience>>
    BY <1>2 DEF Summary!LoseLock
  <2>3. SummaryTypes'
    BY <1>0, <2>1, <2>2 DEF SummaryTypes, Summary!Target, SummaryPlace
  <2> QED
    BY <2>1, <2>2, <2>3 DEF SummaryInv, OneIsSending, DeliveredWasSent, SentIsDelivered,
       PendingIsUnsent, ListedArePending, SentOnce, AudienceGotIt, Got, IsSending,
       Unrecorded, Summary!Target, Summary!Never
<1>3. CASE Summary!ValidateSettings
  <2>1. PICK chosen \in SUBSET ({Summary!Private} \cup bound), enabled \in BOOLEAN,
             push \in Summary!PushTime :
          form' = [targets |-> chosen, enabled |-> enabled, push |-> push]
    BY <1>3 DEF Summary!ValidateSettings
  <2>2. chosen \subseteq Summary!Target /\ push \in Int
    BY <1>0, SummaryAssumption DEF SummaryTypes, Summary!Target, Summary!PushTime
  <2>3. SummaryTypes'
    BY <1>0, <1>3, <2>1, <2>2 DEF Summary!ValidateSettings, SummaryTypes, Summary!Target,
       SummaryPlace
  <2> QED
    BY <1>3, <2>3, UsersDisturbNothing DEF Summary!ValidateSettings
<1>4. CASE Summary!UpdateDailySummarySettings
  <2>1. Summary!NoForm \in [targets : SUBSET Summary!Target, enabled : BOOLEAN, push : Int]
    BY DEF Summary!NoForm
  <2>2. sub' \in SummaryRow /\ sub'.lastEnd = sub.lastEnd /\ (sub'.active <=> sub.active)
    <3>1. CASE sub.active
      <4>1. sub' = [sub EXCEPT !.enabled = form.enabled, !.push = form.push]
        BY <1>4, <3>1 DEF Summary!UpdateDailySummarySettings
      <4> QED
        BY <4>1, <1>0 DEF SummaryTypes, SummaryRow
    <3>2. CASE ~sub.active
      BY <1>0, <1>4, <3>2 DEF Summary!UpdateDailySummarySettings, SummaryTypes
    <3> QED
      BY <3>1, <3>2
  <2>3. targets' \subseteq Summary!Target /\ (~sub.active => targets' = {})
    BY <1>0, <1>4 DEF Summary!UpdateDailySummarySettings, SummaryTypes
  <2>4. SummaryTypes'
    BY <1>0, <1>4, <2>1, <2>2, <2>3
       DEF Summary!UpdateDailySummarySettings, SummaryTypes, Summary!Target, SummaryPlace
  <2> QED
    BY <1>4, <2>2, <2>4, UsersDisturbNothing DEF Summary!UpdateDailySummarySettings
<1>5. ASSUME NEW g \in Group, Summary!CreateNotificationGroup(g) \/ Summary!Refuse(g)
      PROVE  SummaryInv'
  <2>1. SummaryTypes'
    BY <1>0, <1>5 DEF Summary!CreateNotificationGroup, Summary!Refuse, SummaryTypes,
       Summary!Target, SummaryPlace
  <2> QED
    BY <1>5, <2>1, UsersDisturbNothing DEF Summary!CreateNotificationGroup, Summary!Refuse
<1>6. ASSUME NEW g \in Group, Summary!DeleteNotificationGroup(g)
      PROVE  SummaryInv'
  <2>1. sub' \in SummaryRow /\ sub'.lastEnd = sub.lastEnd /\ (sub'.active <=> sub.active)
    BY <1>0, <1>6 DEF Summary!DeleteNotificationGroup, SummaryTypes, SummaryRow
  <2>2. SummaryTypes'
    BY <1>0, <1>6, <2>1 DEF Summary!DeleteNotificationGroup, SummaryTypes,
       Summary!Target, SummaryPlace
  <2> QED
    BY <1>6, <2>1, <2>2, UsersDisturbNothing DEF Summary!DeleteNotificationGroup
<1>7. CASE Summary!Expire
  <2> DEFINE gone == [Summary!NewRow EXCEPT !.active = FALSE]
  <2>1. gone \in SummaryRow /\ ~gone.active /\ gone.lastEnd = Summary!Never
    BY NewRows
  <2>2. /\ sub' = gone /\ targets' = {} /\ deliveries' = {}
        /\ UNCHANGED <<now, bound, lock, worker, form, saves, summaryFaults, sent, audience>>
    BY <1>7 DEF Summary!Expire
  <2> HIDE DEF gone
  <2>3. SummaryTypes'
    BY <1>0, <2>1, <2>2 DEF SummaryTypes, Summary!Target, SummaryPlace
  <2> QED
    BY <2>1, <2>2, <2>3 DEF SummaryInv, OneIsSending, DeliveredWasSent, SentIsDelivered,
       PendingIsUnsent, ListedArePending, SentOnce, AudienceGotIt, Got, IsSending,
       Unrecorded, Summary!Target, Summary!Never
<1>8. CASE Summary!Tick
  <2>1. SummaryTypes'
    BY <1>0, <1>8 DEF Summary!Tick, SummaryTypes, Summary!Target, SummaryPlace
  <2> QED
    BY <1>8, <2>1, UsersDisturbNothing DEF Summary!Tick
<1> QED
  BY <1>1, <1>2, <1>3, <1>4, <1>5, <1>6, <1>7, <1>8, ExecutorStepKeeps DEF Summary!Next

(* How often a chat got the message of a period, in terms of Got. *)
LEMMA TimesOfOne ==
  ASSUME SummaryTypes, NEW t \in Summary!Target
  PROVE  /\ \A end : Got(t, end) => Summary!Times(t, end) > 0
         /\ (\A i, j \in DOMAIN sent[t] : sent[t][i] = sent[t][j] => i = j) =>
              \A i \in DOMAIN sent[t] : Summary!Times(t, sent[t][i]) = 1
<1> DEFINE At(end) == {i \in DOMAIN sent[t] : sent[t][i] = end}
<1>1. \A S : Summary!Cardinality(S) = Cardinality(S)
  BY DEF Summary!Cardinality, Cardinality
<1>2. \A end : Summary!Times(t, end) = Cardinality(At(end))
  BY <1>1 DEF Summary!Times
<1>3. DOMAIN sent[t] = 1..Len(sent[t]) /\ Len(sent[t]) \in Nat
  BY DEF SummaryTypes
<1>4. ASSUME NEW end, Got(t, end) PROVE Summary!Times(t, end) > 0
  <2>1. IsFiniteSet(At(end))
    <3>1. IsFiniteSet(1..Len(sent[t]))
      BY <1>3, FS_Interval
    <3>2. At(end) \subseteq 1..Len(sent[t])
      BY <1>3
    <3> QED
      BY <3>1, <3>2, FS_Subset
  <2>2. At(end) # {}
    BY <1>4 DEF Got
  <2> HIDE DEF At
  <2>3. Cardinality(At(end)) \in Nat /\ Cardinality(At(end)) # 0
    BY <2>1, <2>2, FS_CardinalityType, FS_EmptySet
  <2> QED
    BY <2>3, <1>2
<1>5. ASSUME \A i, j \in DOMAIN sent[t] : sent[t][i] = sent[t][j] => i = j,
             NEW i \in DOMAIN sent[t]
      PROVE  Summary!Times(t, sent[t][i]) = 1
  <2>1. At(sent[t][i]) = {i}
    BY <1>5
  <2> HIDE DEF At
  <2> QED
    BY <2>1, <1>2, FS_Singleton
<1> QED
  BY <1>4, <1>5

(* Without faults no chat gets two messages for one period, whatever was refused or
   saved in between and however many processes run. *)
THEOREM OneSummaryPerPeriodCorrect == ServicesSpec => []OneSummaryPerPeriod
<1>1. SummaryInv => OneSummaryPerPeriod
  BY TimesOfOne DEF SummaryInv, SentOnce, OneSummaryPerPeriod, Summary!OneSummaryPerPeriod,
     Summary!Target
<1> QED
  BY <1>1, PartsBegin, PartsStep, SummaryStart, SummaryStep, PTL DEF ServicesSpec

(* A period that is closed was sent to every target it was listed for, also when
   sends are not answered, processes die, and the lock is lost. *)
THEOREM ClosedPeriodsWereSentCorrect == ServicesSpec => []ClosedPeriodsWereSent
<1>1. SummaryInv => ClosedPeriodsWereSent
  BY TimesOfOne DEF SummaryInv, SummaryTypes, AudienceGotIt, ClosedPeriodsWereSent,
     Summary!ClosedPeriodsWereSent
<1> QED
  BY <1>1, PartsBegin, PartsStep, SummaryStart, SummaryStep, PTL DEF ServicesSpec

-----------------------------------------------------------------------------
(* BotPolling. *)

PollPlace == [pc : {"stopped", "poll", "handle"}, offset : Nat, batch : SUBSET Bot!Update]

BotTypes ==
  /\ arrived \in 0..NumUpdates
  /\ held \subseteq 1..arrived
  /\ bot \in [Process -> PollPlace]
  /\ \A p \in Process : bot[p].batch \subseteq 1..arrived /\ bot[p].offset <= arrived + 1
  /\ botFaults \in Nat
  /\ handled \in [Bot!Update -> Nat]
  /\ failed \subseteq Bot!Update

(* The bot is through with an update. *)
Through(u) == handled[u] > 0 \/ u \in failed

(* What DeBox has forgotten, and what lies below an offset, was gone through; a
   batch leaves nothing out below what it holds. *)
ForgottenWereThrough == \A u \in 1..arrived : u \notin held => Through(u)
OffsetsWereReached ==
  \A p \in Process : \A u \in 1..arrived : u < bot[p].offset => Through(u)
BatchesHaveNoGap ==
  \A p \in Process : \A b \in bot[p].batch, u \in 1..arrived :
    u < b => Through(u) \/ u \in bot[p].batch

(* Without faults one process polls, from the first update on, and what it handled
   lies below its offset. *)
OnePolls ==
  botFaults = 0 =>
    /\ \A p \in Process : bot[p].pc # "stopped" => polling = p
    /\ polling = Nobody => \A u \in Bot!Update : handled[u] = 0
HandledOnce ==
  botFaults = 0 => \A u \in Bot!Update :
    /\ handled[u] <= 1
    /\ \A p \in Process : bot[p].pc # "stopped" /\ handled[u] > 0 =>
         u < bot[p].offset /\ u \notin bot[p].batch

BotInv == /\ BotTypes
          /\ ForgottenWereThrough /\ OffsetsWereReached /\ BatchesHaveNoGap
          /\ OnePolls /\ HandledOnce

LEMMA BotStart == Bot!Init => BotInv
BY BotAssumption
   DEF Bot!Init, BotInv, BotTypes, PollPlace, Bot!Stopped, Bot!Update, ForgottenWereThrough,
       OffsetsWereReached, BatchesHaveNoGap, OnePolls, HandledOnce

LEMMA HandleStep ==
  ASSUME BotInv, NEW p \in Process, Bot!HandleUpdate(p)
  PROVE  BotInv'
<1>0. /\ BotTypes /\ ForgottenWereThrough /\ OffsetsWereReached /\ BatchesHaveNoGap
      /\ OnePolls /\ HandledOnce
  BY DEF BotInv
<1>1. PICK u \in bot[p].batch :
        /\ \A v \in bot[p].batch : u <= v
        /\ bot' = [bot EXCEPT ![p].offset = Bot!NextOffset(p, u), ![p].batch = @ \ {u}]
        /\ \/ /\ handled' = [handled EXCEPT ![u] = @ + 1]
              /\ UNCHANGED <<botFaults, failed>>
           \/ /\ botFaults' = botFaults + 1
              /\ failed' = failed \cup {u}
              /\ UNCHANGED handled
  BY DEF Bot!HandleUpdate
<1> DEFINE next == Bot!NextOffset(p, u)
           place == [bot[p] EXCEPT !.offset = next, !.batch = @ \ {u}]
<1>2. bot[p].pc = "handle" /\ UNCHANGED <<held, arrived, polling>>
  BY DEF Bot!HandleUpdate
<1>3. /\ bot[p] \in PollPlace /\ u \in 1..arrived /\ u \in Bot!Update
      /\ arrived \in Nat /\ arrived <= NumUpdates /\ NumUpdates \in Nat
  BY <1>0, BotAssumption DEF BotTypes, PollPlace
<1>4. next \in Nat /\ next > u /\ next >= bot[p].offset /\ next <= arrived + 1
      /\ \A v \in Nat : v < next => v < bot[p].offset \/ v <= u
  BY <1>0, <1>3 DEF BotTypes, PollPlace, Bot!NextOffset
<1> HIDE DEF next
<1>5. /\ place \in PollPlace /\ place.pc = "handle" /\ place.offset = next
      /\ place.batch = bot[p].batch \ {u}
  BY <1>2, <1>3, <1>4 DEF PollPlace
<1>6. bot' = [bot EXCEPT ![p] = place]
  BY <1>1 DEF next
<1> HIDE DEF place
<1>7. /\ bot'[p] = place /\ bot' \in [Process -> PollPlace]
      /\ \A q \in Process : q # p => bot'[q] = bot[q]
  BY <1>0, <1>5, <1>6 DEF BotTypes
<1>8. Through(u)' /\ \A v \in Bot!Update : Through(v) => Through(v)'
  BY <1>0, <1>1, <1>3 DEF BotTypes, Through
<1>9. BotTypes'
  <2>1. /\ botFaults' \in Nat /\ handled' \in [Bot!Update -> Nat]
        /\ failed' \subseteq Bot!Update
    BY <1>0, <1>1, <1>3 DEF BotTypes
  <2>2. \A q \in Process : bot'[q].batch \subseteq 1..arrived /\ bot'[q].offset <= arrived + 1
    BY <1>0, <1>4, <1>5, <1>7 DEF BotTypes
  <2> QED
    BY <1>0, <1>2, <1>7, <2>1, <2>2 DEF BotTypes, Bot!Update, PollPlace
<1>10. \A v \in 1..arrived : v \in Bot!Update /\ v \in Nat
  BY <1>3 DEF Bot!Update
<1>11. \A v \in 1..arrived : v <= u => Through(v)'
  <2> SUFFICES ASSUME NEW v \in 1..arrived, v < u PROVE Through(v)
    BY <1>3, <1>8, <1>10
  <2> QED
    BY <1>0, <1>1, <1>3 DEF BatchesHaveNoGap
<1>12. ForgottenWereThrough' /\ OffsetsWereReached'
  <2>1. ForgottenWereThrough'
    BY <1>0, <1>2, <1>8, <1>10 DEF ForgottenWereThrough
  <2>2. ASSUME NEW q \in Process, NEW v \in 1..arrived, v < bot'[q].offset PROVE Through(v)'
    <3>1. CASE q # p
      BY <2>2, <3>1, <1>0, <1>7, <1>8, <1>10 DEF OffsetsWereReached
    <3>2. CASE q = p
      <4>1. v < bot[p].offset \/ v <= u
        BY <2>2, <3>2, <1>4, <1>5, <1>7, <1>10
      <4> QED
        BY <4>1, <1>0, <1>8, <1>10, <1>11 DEF OffsetsWereReached
    <3> QED
      BY <3>1, <3>2
  <2> QED
    BY <2>1, <2>2, <1>2 DEF OffsetsWereReached
<1>13. BatchesHaveNoGap'
  <2> SUFFICES ASSUME NEW q \in Process, NEW b \in bot'[q].batch, NEW v \in 1..arrived, v < b
               PROVE  Through(v)' \/ v \in bot'[q].batch
    BY <1>2 DEF BatchesHaveNoGap
  <2>1. b \in bot[q].batch
    BY <1>5, <1>7
  <2>2. Through(v) \/ v \in bot[q].batch
    BY <2>1, <1>0 DEF BatchesHaveNoGap
  <2> QED
    BY <2>2, <1>5, <1>7, <1>8, <1>10
<1>14. botFaults' = 0 => botFaults = 0 /\ handled' = [handled EXCEPT ![u] = @ + 1]
  BY <1>0, <1>1 DEF BotTypes
<1>15. botFaults = 0 => polling = p
  BY <1>0, <1>2 DEF OnePolls
<1>16. OnePolls'
  BY <1>0, <1>2, <1>5, <1>7, <1>14, <1>15, BotAssumption DEF OnePolls
<1>17. HandledOnce'
  <2> SUFFICES ASSUME botFaults' = 0, NEW v \in Bot!Update
               PROVE  /\ handled'[v] <= 1
                      /\ \A q \in Process : bot'[q].pc # "stopped" /\ handled'[v] > 0 =>
                           v < bot'[q].offset /\ v \notin bot'[q].batch
    BY DEF HandledOnce, Bot!Update
  <2>1. handled[u] = 0
    BY <1>0, <1>2, <1>3, <1>14 DEF HandledOnce, BotTypes
  <2>2. handled'[v] = IF v = u THEN 1 ELSE handled[v]
    BY <2>1, <1>0, <1>14 DEF BotTypes
  <2>3. \A q \in Process : bot'[q].pc # "stopped" => q = p
    BY <1>0, <1>7, <1>14, <1>15 DEF OnePolls
  <2>4. v \in Nat /\ (handled[v] > 0 => v < bot[p].offset /\ v \notin bot[p].batch)
    BY <1>0, <1>2, <1>14 DEF HandledOnce, Bot!Update
  <2>5. handled'[v] > 0 => v < next /\ v \notin place.batch
    <3>1. bot[p].offset \in Nat
      BY <1>3 DEF PollPlace
    <3> QED
      BY <2>2, <2>4, <3>1, <1>3, <1>4, <1>5
  <2> QED
    BY <2>2, <2>3, <2>5, <1>0, <1>5, <1>7, <1>14 DEF HandledOnce
<1> QED
  BY <1>9, <1>12, <1>13, <1>16, <1>17 DEF BotInv

LEMMA BotStep == BotInv /\ [Bot!Next]_botVars => BotInv'
<1> SUFFICES ASSUME BotInv, [Bot!Next]_botVars PROVE BotInv'
  OBVIOUS
<1>0. /\ BotTypes /\ ForgottenWereThrough /\ OffsetsWereReached /\ BatchesHaveNoGap
      /\ OnePolls /\ HandledOnce
  BY DEF BotInv
<1>1. CASE UNCHANGED botVars
  BY <1>0, <1>1 DEF botVars, BotInv, BotTypes, ForgottenWereThrough, OffsetsWereReached,
     BatchesHaveNoGap, OnePolls, HandledOnce, Through, Bot!Update, PollPlace
<1>2. CASE Bot!Arrive
  <2>1. /\ arrived' = arrived + 1 /\ arrived' \in 0..NumUpdates /\ arrived \in Nat
        /\ held' = held \cup {arrived + 1}
        /\ UNCHANGED <<polling, bot, botFaults, handled, failed>>
    BY <1>0, <1>2, BotAssumption DEF Bot!Arrive, BotTypes
  <2>2. \A u \in 1..arrived' : u = arrived + 1 \/ u \in 1..arrived
    BY <2>1
  <2>3. \A p \in Process : bot[p].batch \subseteq 1..arrived /\ bot[p].offset <= arrived + 1
                           /\ bot[p].offset \in Nat
    BY <1>0 DEF BotTypes, PollPlace
  <2>4. \A p \in Process : bot[p].batch \subseteq 1..arrived' /\ bot[p].offset <= arrived' + 1
    BY <2>1, <2>3
  <2>5. held' \subseteq 1..arrived'
    BY <2>1, <1>0 DEF BotTypes
  <2>6. BotTypes'
    BY <2>1, <2>4, <2>5, <1>0 DEF BotTypes, Bot!Update, PollPlace
  <2>7. ForgottenWereThrough'
    BY <2>1, <2>2, <1>0 DEF ForgottenWereThrough, Through
  <2>8. OffsetsWereReached' /\ BatchesHaveNoGap'
    BY <2>1, <2>2, <2>3, <1>0 DEF OffsetsWereReached, BatchesHaveNoGap, Through
  <2>9. OnePolls' /\ HandledOnce'
    BY <2>1, <1>0 DEF OnePolls, HandledOnce, Bot!Update
  <2> QED
    BY <2>6, <2>7, <2>8, <2>9 DEF BotInv
<1>3. ASSUME NEW p \in Process, NEW place \in PollPlace,
             bot' = [bot EXCEPT ![p] = place],
             place.offset <= arrived + 1, place.offset = 0 \/ place.offset = bot[p].offset,
             place.batch \subseteq held',
             \A b \in place.batch, u \in 1..arrived : u < b => Through(u) \/ u \in place.batch,
             held' \subseteq held, ForgottenWereThrough',
             UNCHANGED <<arrived, handled, failed>>,
             botFaults' \in Nat, botFaults' = 0 => botFaults = 0, OnePolls',
             botFaults' = 0 => \A u \in Bot!Update :
               place.pc # "stopped" /\ handled[u] > 0 => u < place.offset /\ u \notin place.batch
      PROVE  BotInv'
  <2>1. /\ bot'[p] = place /\ bot' \in [Process -> PollPlace]
        /\ \A q \in Process : q # p => bot'[q] = bot[q]
    BY <1>0, <1>3 DEF BotTypes
  <2>2. held' \subseteq 1..arrived
    BY <1>0, <1>3 DEF BotTypes
  <2>3. \A q \in Process : bot'[q].batch \subseteq 1..arrived /\ bot'[q].offset <= arrived + 1
    BY <1>0, <1>3, <2>1, <2>2 DEF BotTypes
  <2>4. BotTypes'
    BY <1>0, <1>3, <2>1, <2>2, <2>3 DEF BotTypes, Bot!Update, PollPlace
  <2>5. \A u \in 1..arrived : u \in Nat /\ u >= 1
    OBVIOUS
  <2>6. OffsetsWereReached'
    <3> SUFFICES ASSUME NEW q \in Process, NEW u \in 1..arrived, u < bot'[q].offset
                 PROVE  Through(u)'
      BY <1>3 DEF OffsetsWereReached
    <3>1. bot'[q].offset = 0 \/ u < bot[q].offset
      BY <1>3, <2>1
    <3>2. Through(u)
      BY <3>1, <2>5, <1>0 DEF OffsetsWereReached
    <3> QED
      BY <3>2, <1>3 DEF Through
  <2>7. BatchesHaveNoGap'
    BY <1>0, <1>3, <2>1 DEF BatchesHaveNoGap, Through
  <2>8. HandledOnce'
    BY <1>0, <1>3, <2>1 DEF HandledOnce, Bot!Update
  <2> QED
    BY <1>3, <2>4, <2>6, <2>7, <2>8 DEF BotInv
<1>4. ASSUME NEW p \in Process, Bot!AcquireLock(p) PROVE BotInv'
  <2> DEFINE place == [pc |-> "poll", offset |-> 0, batch |-> {}]
  <2>1. /\ bot[p].pc = "stopped" /\ polling = Nobody /\ polling' = p
        /\ bot' = [bot EXCEPT ![p] = place]
        /\ UNCHANGED <<held, arrived, botFaults, handled, failed>>
    BY <1>4 DEF Bot!AcquireLock, Bot!PollingFree
  <2>2. place \in PollPlace /\ place.pc = "poll" /\ place.offset = 0 /\ place.batch = {}
    BY DEF PollPlace
  <2> HIDE DEF place
  <2>3. OnePolls'
    BY <1>0, <2>1, <2>2, BotAssumption DEF OnePolls, BotTypes
  <2>4. ForgottenWereThrough'
    BY <1>0, <2>1 DEF ForgottenWereThrough, Through
  <2>5. arrived \in Nat /\ botFaults \in Nat
    BY <1>0, BotAssumption DEF BotTypes
  <2>6. botFaults = 0 => \A u \in Bot!Update : handled[u] = 0
    BY <1>0, <2>1 DEF OnePolls
  <2>7. /\ place.offset <= arrived + 1 /\ place.batch \subseteq held' /\ held' \subseteq held
        /\ \A b \in place.batch, u \in 1..arrived : u < b => Through(u) \/ u \in place.batch
        /\ botFaults' = 0 => \A u \in Bot!Update :
             place.pc # "stopped" /\ handled[u] > 0 => u < place.offset /\ u \notin place.batch
    BY <2>1, <2>2, <2>5, <2>6
  <2> QED
    BY <2>1, <2>2, <2>3, <2>4, <2>5, <2>6, <2>7, <1>3
<1>5. ASSUME NEW p \in Process, Bot!GetUpdates(p) PROVE BotInv'
  <2> DEFINE place == [bot[p] EXCEPT !.pc = "handle", !.batch = held']
  <2>1. /\ bot[p].pc = "poll"
        /\ held' = {u \in held : u >= bot[p].offset}
        /\ bot' = [bot EXCEPT ![p] = place]
        /\ UNCHANGED <<arrived, polling, botFaults, handled, failed>>
    BY <1>5 DEF Bot!GetUpdates
  <2>2. bot[p] \in PollPlace /\ held' \subseteq held /\ held' \subseteq 1..arrived
    BY <1>0, <2>1 DEF BotTypes
  <2>3. arrived \in Nat /\ arrived <= NumUpdates /\ NumUpdates \in Nat /\ botFaults \in Nat
    BY <1>0, BotAssumption DEF BotTypes
  <2>4. held' \subseteq Bot!Update
    BY <2>2, <2>3 DEF Bot!Update
  <2>5. /\ place \in PollPlace /\ place.pc = "handle" /\ place.offset = bot[p].offset
        /\ place.batch = held'
    BY <2>2, <2>4 DEF PollPlace
  <2> HIDE DEF place
  <2>6. \A u \in 1..arrived : u \in held' \/ Through(u)
    BY <1>0, <2>1, <2>2 DEF ForgottenWereThrough, OffsetsWereReached, PollPlace
  <2>7. ForgottenWereThrough'
    BY <2>1, <2>6 DEF ForgottenWereThrough, Through
  <2>8. /\ bot'[p] = place
        /\ \A q \in Process : q # p => bot'[q] = bot[q]
    BY <1>0, <2>1, <2>5 DEF BotTypes
  <2>9. OnePolls'
    BY <1>0, <2>1, <2>8 DEF OnePolls, Bot!Update
  <2>10. botFaults = 0 => \A u \in Bot!Update : handled[u] > 0 => u < place.offset /\ u \notin place.batch
    <3> SUFFICES ASSUME botFaults = 0, NEW u \in Bot!Update, handled[u] > 0
                 PROVE  u < bot[p].offset /\ u \notin held'
      BY <2>5
    <3>1. u < bot[p].offset /\ u \in Nat
      BY <1>0, <2>1 DEF HandledOnce, Bot!Update
    <3> QED
      BY <3>1, <2>1, <2>2 DEF PollPlace
  <2>11. place.offset <= arrived + 1
    BY <1>0, <2>5 DEF BotTypes
  <2> QED
    BY <2>1, <2>2, <2>3, <2>5, <2>6, <2>7, <2>9, <2>10, <2>11, <1>3
<1>6. ASSUME NEW p \in Process, Bot!PollAgain(p) PROVE BotInv'
  <2> DEFINE place == [bot[p] EXCEPT !.pc = "poll"]
  <2>1. /\ bot[p].pc = "handle" /\ bot[p].batch = {}
        /\ bot' = [bot EXCEPT ![p] = place]
        /\ UNCHANGED <<held, arrived, polling, botFaults, handled, failed>>
    BY <1>6 DEF Bot!PollAgain
  <2>2. /\ place \in PollPlace /\ place.pc = "poll" /\ place.offset = bot[p].offset
        /\ place.batch = {}
    BY <1>0, <2>1 DEF BotTypes, PollPlace
  <2> HIDE DEF place
  <2>3. OnePolls' /\ ForgottenWereThrough'
    BY <1>0, <2>1, <2>2 DEF OnePolls, BotTypes, ForgottenWereThrough, Through, Bot!Update
  <2>4. place.offset <= arrived + 1 /\ botFaults \in Nat
    BY <1>0, <2>2 DEF BotTypes
  <2>5. botFaults = 0 => \A u \in Bot!Update : handled[u] > 0 => u < place.offset
    BY <1>0, <2>1, <2>2 DEF HandledOnce
  <2> QED
    BY <2>1, <2>2, <2>3, <2>4, <2>5, <1>3
<1>7. ASSUME NEW p \in Process, Bot!Stop(p) PROVE BotInv'
  <2>1. /\ botFaults' = botFaults + 1
        /\ bot' = [bot EXCEPT ![p] = Bot!Stopped]
        /\ UNCHANGED <<held, arrived, handled, failed>>
    BY <1>7 DEF Bot!Stop
  <2>2. Bot!Stopped \in PollPlace /\ Bot!Stopped.offset = 0 /\ Bot!Stopped.batch = {}
    BY DEF Bot!Stopped, PollPlace
  <2>3. botFaults' \in Nat /\ botFaults' # 0 /\ arrived \in Nat
    BY <1>0, <2>1, BotAssumption DEF BotTypes
  <2>4. OnePolls' /\ ForgottenWereThrough'
    BY <1>0, <2>1, <2>3 DEF OnePolls, ForgottenWereThrough, Through
  <2>5. /\ Bot!Stopped.offset <= arrived + 1 /\ Bot!Stopped.batch \subseteq held'
        /\ held' \subseteq held
        /\ \A b \in Bot!Stopped.batch, u \in 1..arrived :
             u < b => Through(u) \/ u \in Bot!Stopped.batch
    BY <2>1, <2>2, <2>3
  <2> HIDE DEF Bot!Stopped
  <2> QED
    BY <2>1, <2>2, <2>3, <2>4, <2>5, <1>3
<1>8. CASE Bot!LosePolling
  <2>1. botFaults' \in Nat /\ botFaults' # 0 /\ UNCHANGED <<held, arrived, bot, handled, failed>>
    BY <1>0, <1>8 DEF Bot!LosePolling, BotTypes
  <2> QED
    BY <1>0, <2>1 DEF BotInv, BotTypes, ForgottenWereThrough, OffsetsWereReached,
       BatchesHaveNoGap, OnePolls, HandledOnce, Through, Bot!Update, PollPlace
<1> QED
  BY <1>1, <1>2, <1>4, <1>5, <1>6, <1>7, <1>8, HandleStep DEF Bot!Next, Bot!BotStep

(* What DeBox has forgotten was handled, or its handler failed, also across restarts
   and when two processes poll; without those nothing is handled twice. *)
THEOREM UpdatesAreHandledCorrect == ServicesSpec => []UpdatesAreHandled
<1>1. ASSUME BotInv PROVE UpdatesAreHandled
  <2>1. 1..arrived \subseteq Bot!Update
    BY <1>1, BotAssumption DEF BotInv, BotTypes, Bot!Update
  <2> QED
    BY <1>1, <2>1 DEF BotInv, ForgottenWereThrough, HandledOnce, Through, UpdatesAreHandled,
       Bot!UpdatesAreHandled
<1> QED
  BY <1>1, PartsBegin, PartsStep, BotStart, BotStep, PTL DEF ServicesSpec

-----------------------------------------------------------------------------
(* WalletLogin. *)

ChallengeStatus == {"none", "open", "used", "expired", "gone"}
SessionRow == [challenge : Challenge, status : {"active", "revoked", "expired"}]
LoginPlace == [pc : {"idle", "profile", "consume", "session"},
          challenge : Challenge \cup {Nothing}]

(* The rows and the requests have the shape of the code's. *)
LoginTypes ==
  /\ challenge \in [Challenge -> ChallengeStatus]
  /\ session \in Seq(SessionRow)
  /\ request \in [Request -> LoginPlace]
  /\ signed \subseteq Challenge
  /\ entered \subseteq Challenge

(* A challenge that was exchanged is used, or has been cleaned up since. *)
Spent(c) == challenge[c] \in {"used", "gone"} /\ c \in entered

(* A request that is being served presents a signed challenge. *)
RequestsAreSigned ==
  \A r \in Request : request[r].pc # "idle" => request[r].challenge \in signed

(* The UPDATE that used a challenge let one request pass, *)
OneRequestPasses ==
  \A r \in Request : request[r].pc = "session" =>
    /\ Spent(request[r].challenge)
    /\ \A q \in Request :
         request[q].pc = "session" /\ request[q].challenge = request[r].challenge => q = r

(* which has not opened its session yet. *)
SessionStillToCome ==
  \A r \in Request : request[r].pc = "session" =>
    \A s \in DOMAIN session : session[s].challenge # request[r].challenge

SessionsWereSpent ==
  \A s \in DOMAIN session :
    session[s].challenge \in signed /\ Spent(session[s].challenge)

SessionsDiffer ==
  \A s, u \in DOMAIN session : session[s].challenge = session[u].challenge => s = u

LoginInv == /\ LoginTypes
        /\ RequestsAreSigned /\ OneRequestPasses /\ SessionStillToCome
        /\ SessionsWereSpent /\ SessionsDiffer

-----------------------------------------------------------------------------
(* A request that comes to the exchange, or ends, disturbs nothing: whoever is
   creating a session is still the one that used its challenge. *)
LEMMA RequestMoves ==
  ASSUME LoginInv, NEW r \in Request, NEW place \in LoginPlace,
         request' = [request EXCEPT ![r] = place],
         place.pc # "session",
         place.pc # "idle" => place.challenge \in signed,
         UNCHANGED <<challenge, session, signed, entered>>
  PROVE  LoginInv'
<1>1. LoginTypes'
  BY DEF LoginInv, LoginTypes
<1>2. \A q \in Request : request'[q].pc = "session" => request'[q] = request[q] /\ q # r
  BY DEF LoginInv, LoginTypes
<1>3. RequestsAreSigned'
  BY DEF LoginInv, LoginTypes, RequestsAreSigned
<1>4. OneRequestPasses' /\ SessionStillToCome'
  BY <1>2 DEF LoginInv, OneRequestPasses, SessionStillToCome, Spent
<1>5. SessionsWereSpent' /\ SessionsDiffer'
  BY DEF LoginInv, SessionsWereSpent, SessionsDiffer, Spent
<1> QED
  BY <1>1, <1>3, <1>4, <1>5 DEF LoginInv

(* Challenges may be issued, run out and be removed: none that was spent is open
   again. *)
LEMMA ChallengesMove ==
  ASSUME LoginInv,
         challenge' \in [Challenge -> ChallengeStatus],
         \A c \in Challenge : Spent(c) => challenge'[c] \in {"used", "gone"},
         UNCHANGED <<session, request, entered>>,
         signed \subseteq signed', signed' \subseteq Challenge
  PROVE  LoginInv'
<1>1. \A c \in Challenge : Spent(c) => Spent(c)'
  BY DEF Spent
<1>2. LoginTypes'
  BY DEF LoginInv, LoginTypes
<1>3. \A r \in Request : request[r].pc # "idle" => request[r].challenge \in Challenge
  BY DEF LoginInv, LoginTypes, RequestsAreSigned
<1>4. \A s \in DOMAIN session : session[s].challenge \in Challenge
  BY DEF LoginInv, LoginTypes, SessionsWereSpent
<1>5. RequestsAreSigned'
  BY DEF LoginInv, RequestsAreSigned
<1>6. OneRequestPasses' /\ SessionStillToCome'
  BY <1>1, <1>3 DEF LoginInv, OneRequestPasses, SessionStillToCome
<1>7. SessionsWereSpent' /\ SessionsDiffer'
  BY <1>1, <1>4 DEF LoginInv, SessionsWereSpent, SessionsDiffer
<1> QED
  BY <1>2, <1>5, <1>6, <1>7 DEF LoginInv

(* Sessions are revoked and run out; their challenges stay. *)
LEMMA SessionEnds ==
  ASSUME LoginInv, NEW s \in DOMAIN session, Login!RevokeAuthSession(s) \/ Login!ExpireSession(s)
  PROVE  LoginInv'
<1> DEFINE ended(to) == [session[s] EXCEPT !.status = to]
<1>1. /\ session' \in Seq(SessionRow)
      /\ DOMAIN session' = DOMAIN session
      /\ \A u \in DOMAIN session : session'[u].challenge = session[u].challenge
  <2>1. session \in Seq(SessionRow) /\ session[s] \in SessionRow
    BY DEF LoginInv, LoginTypes
  <2>2. PICK to \in {"revoked", "expired"} :
          session' = [session EXCEPT ![s] = ended(to)]
    BY DEF Login!RevokeAuthSession, Login!ExpireSession
  <2>3. ended(to) \in SessionRow /\ ended(to).challenge = session[s].challenge
    BY <2>1 DEF SessionRow
  <2> HIDE DEF ended
  <2> QED
    BY <2>1, <2>2, <2>3
<1>2. UNCHANGED <<challenge, request, signed, entered>>
  BY DEF Login!RevokeAuthSession, Login!ExpireSession
<1>3. LoginTypes'
  BY <1>1, <1>2 DEF LoginInv, LoginTypes
<1>4. RequestsAreSigned' /\ OneRequestPasses'
  BY <1>2 DEF LoginInv, RequestsAreSigned, OneRequestPasses, Spent
<1>5. SessionStillToCome' /\ SessionsWereSpent' /\ SessionsDiffer'
  BY <1>1, <1>2 DEF LoginInv, SessionStillToCome, SessionsWereSpent, SessionsDiffer, Spent
<1> QED
  BY <1>3, <1>4, <1>5 DEF LoginInv

(* The exchange: the challenge was open, so that nobody had exchanged it. *)
LEMMA ConsumeStep ==
  ASSUME LoginInv, NEW r \in Request, Login!ConsumeAuthChallenge(r)
  PROVE  LoginInv'
<1> DEFINE c == request[r].challenge
<1>1. request[r].pc = "consume" /\ c \in signed /\ c \in Challenge /\ request[r] \in LoginPlace
  BY DEF LoginInv, LoginTypes, RequestsAreSigned, Login!ConsumeAuthChallenge
<1>2. CASE ~Login!StillOpen(c)
  <2>1. request' = [request EXCEPT ![r] = Login!Waiting] /\ UNCHANGED <<challenge, session, signed, entered>>
    BY <1>2 DEF Login!ConsumeAuthChallenge, Login!End
  <2>2. Login!Waiting \in LoginPlace /\ Login!Waiting.pc = "idle"
    BY DEF Login!Waiting, LoginPlace
  <2> QED
    BY <2>1, <2>2, RequestMoves
<1>3. CASE Login!StillOpen(c)
  <2>1. /\ challenge[c] = "open"
        /\ challenge' = [challenge EXCEPT ![c] = "used"]
        /\ entered' = entered \cup {c}
        /\ request' = [request EXCEPT ![r].pc = "session"]
        /\ UNCHANGED <<session, signed>>
    BY <1>3 DEF Login!ConsumeAuthChallenge, Login!Goto, Login!StillOpen
  <2>2. ~Spent(c) /\ Spent(c)' /\ \A d \in Challenge : Spent(d) => Spent(d)'
    BY <1>1, <2>1 DEF Spent, LoginInv, LoginTypes, ChallengeStatus
  <2>3. /\ request'[r] = [request[r] EXCEPT !.pc = "session"]
        /\ \A q \in Request : q # r => request'[q] = request[q]
    BY <2>1 DEF LoginInv, LoginTypes
  <2>4. request'[r].pc = "session" /\ request'[r].challenge = c
    BY <1>1, <2>3 DEF LoginPlace
  <2>5. LoginTypes'
    BY <1>1, <2>1 DEF LoginInv, LoginTypes, LoginPlace, ChallengeStatus
  <2>6. \A q \in Request : q # r /\ request[q].pc = "session" =>
          request[q].challenge # c /\ request[q].challenge \in Challenge
    BY <2>2 DEF LoginInv, LoginTypes, OneRequestPasses, RequestsAreSigned
  <2>7. \A s \in DOMAIN session : session[s].challenge # c /\ session[s].challenge \in Challenge
    BY <2>2 DEF LoginInv, LoginTypes, SessionsWereSpent
  <2>8. RequestsAreSigned'
    BY <1>1, <2>1, <2>3, <2>4 DEF LoginInv, RequestsAreSigned
  <2>9. OneRequestPasses'
    <3>1. \A q \in Request : q # r /\ request[q].pc = "session" =>
            /\ Spent(request[q].challenge)
            /\ \A x \in Request : request[x].pc = "session"
                                  /\ request[x].challenge = request[q].challenge => x = q
      BY DEF LoginInv, OneRequestPasses
    <3>2. \A q \in Request : q # r /\ request[q].pc = "session" =>
            Spent(request[q].challenge)'
      BY <2>2, <2>3, <2>6, <3>1
    <3> SUFFICES ASSUME NEW q \in Request, request'[q].pc = "session"
                 PROVE  /\ Spent(request[q].challenge)'
                        /\ \A x \in Request : request'[x].pc = "session"
                             /\ request'[x].challenge = request'[q].challenge => x = q
      BY DEF OneRequestPasses
    <3>3. CASE q = r
      BY <3>3, <2>2, <2>3, <2>4, <2>6
    <3>4. CASE q # r
      BY <3>4, <2>3, <2>4, <2>6, <3>1, <3>2
    <3> QED
      BY <3>3, <3>4
  <2>10. SessionStillToCome'
    BY <2>1, <2>3, <2>4, <2>6, <2>7 DEF LoginInv, SessionStillToCome
  <2>11. SessionsWereSpent' /\ SessionsDiffer'
    BY <2>1, <2>2, <2>7 DEF LoginInv, SessionsWereSpent, SessionsDiffer
  <2> QED
    BY <2>5, <2>8, <2>9, <2>10, <2>11 DEF LoginInv
<1> QED
  BY <1>2, <1>3

(* The session: the only request that may create it ends with the same step. *)
LEMMA SessionStep ==
  ASSUME LoginInv, NEW r \in Request, Login!CreateAuthSession(r)
  PROVE  LoginInv'
<1> DEFINE c == request[r].challenge
           new == [challenge |-> c, status |-> "active"]
<1>1. /\ request[r].pc = "session"
      /\ session' = Append(session, new)
      /\ request' = [request EXCEPT ![r] = Login!Waiting]
      /\ UNCHANGED <<challenge, signed, entered>>
  BY DEF Login!CreateAuthSession, Login!End
<1>2. c \in signed /\ Spent(c) /\ c \in Challenge
  BY <1>1 DEF LoginInv, LoginTypes, RequestsAreSigned, OneRequestPasses
<1>3. \A s \in DOMAIN session : session[s].challenge # c
  BY <1>1 DEF LoginInv, SessionStillToCome
<1>4. /\ DOMAIN session' = DOMAIN session \cup {Len(session) + 1}
      /\ \A s \in DOMAIN session : session'[s] = session[s]
      /\ session'[Len(session) + 1] = new
      /\ session' \in Seq(SessionRow)
  BY <1>1, <1>2 DEF LoginInv, LoginTypes, SessionRow
<1>5. Login!Waiting \in LoginPlace /\ Login!Waiting.pc = "idle"
  BY DEF Login!Waiting, LoginPlace
<1>6. LoginTypes'
  BY <1>1, <1>4, <1>5 DEF LoginInv, LoginTypes
<1>7. \A q \in Request : request'[q].pc # "idle" => q # r /\ request'[q] = request[q]
  BY <1>1, <1>5 DEF LoginInv, LoginTypes
<1>8. RequestsAreSigned' /\ OneRequestPasses'
  BY <1>1, <1>7 DEF LoginInv, RequestsAreSigned, OneRequestPasses, Spent
<1>9. \A q \in Request : request'[q].pc = "session" => request'[q].challenge # c
  BY <1>1, <1>7 DEF LoginInv, OneRequestPasses
<1>10. SessionStillToCome'
  BY <1>4, <1>7, <1>9 DEF LoginInv, SessionStillToCome
<1>11. SessionsWereSpent'
  BY <1>1, <1>2, <1>4 DEF LoginInv, SessionsWereSpent, Spent
<1>12. SessionsDiffer'
  BY <1>3, <1>4 DEF LoginInv, SessionsDiffer
<1> QED
  BY <1>6, <1>8, <1>10, <1>11, <1>12 DEF LoginInv

LEMMA LoginStep == LoginInv /\ [Login!Next]_loginVars => LoginInv'
<1> SUFFICES ASSUME LoginInv, [Login!Next]_loginVars PROVE LoginInv'
  OBVIOUS
<1>1. CASE UNCHANGED loginVars
  BY <1>1 DEF loginVars, LoginInv, LoginTypes, RequestsAreSigned, OneRequestPasses,
              SessionStillToCome, SessionsWereSpent, SessionsDiffer, Spent
<1>2. ASSUME NEW c \in Challenge,
             Login!CreateWalletChallenge(c) \/ Login!Sign(c) \/ Login!ExpireChallenge(c) \/ Login!CleanupAuthRecords
      PROVE  LoginInv'
  <2>1. /\ challenge' \in [Challenge -> ChallengeStatus]
        /\ \A d \in Challenge : Spent(d) => challenge'[d] \in {"used", "gone"}
    BY <1>2 DEF LoginInv, LoginTypes, ChallengeStatus, Spent, Login!CreateWalletChallenge, Login!Sign,
                Login!ExpireChallenge, Login!CleanupAuthRecords
  <2>2. /\ UNCHANGED <<session, request, entered>>
        /\ signed \subseteq signed' /\ signed' \subseteq Challenge
    BY <1>2 DEF LoginInv, LoginTypes, Login!CreateWalletChallenge, Login!Sign, Login!ExpireChallenge,
                Login!CleanupAuthRecords
  <2> QED
    BY <2>1, <2>2, ChallengesMove
<1>3. ASSUME NEW r \in Request, NEW c \in Challenge, Login!GetActiveAuthChallenge(r, c)
      PROVE  LoginInv'
  <2> DEFINE place == [pc |-> "profile", challenge |-> c]
  <2>1. place \in LoginPlace /\ place.pc = "profile" /\ place.challenge = c
    BY DEF LoginPlace
  <2> QED
    BY <1>3, <2>1, RequestMoves DEF Login!GetActiveAuthChallenge
<1>4. ASSUME NEW r \in Request, Login!UserInfo(r) \/ Login!Abandon(r)
      PROVE  LoginInv'
  <2>1. Login!Waiting \in LoginPlace /\ Login!Waiting.pc = "idle"
    BY DEF Login!Waiting, LoginPlace
  <2>2. CASE Login!End(r)
    BY <1>4, <2>1, <2>2, RequestMoves DEF Login!UserInfo, Login!Abandon, Login!End
  <2>3. CASE Login!UserInfo(r) /\ Login!Goto(r, "consume")
    <3> DEFINE place == [request[r] EXCEPT !.pc = "consume"]
    <3>1. /\ place \in LoginPlace /\ place.pc = "consume"
          /\ place.challenge = request[r].challenge /\ request[r].challenge \in signed
      BY <2>3 DEF LoginInv, LoginTypes, RequestsAreSigned, LoginPlace, Login!UserInfo
    <3>2. request' = [request EXCEPT ![r] = place]
      BY <2>3 DEF Login!Goto
    <3> QED
      BY <2>3, <3>1, <3>2, RequestMoves DEF Login!UserInfo
  <2> QED
    BY <1>4, <2>2, <2>3 DEF Login!UserInfo, Login!Abandon
<1>5. CASE Login!CleanupAuthRecords
  BY <1>2, <1>5 DEF Login!CleanupAuthRecords
<1> QED
  BY <1>1, <1>2, <1>3, <1>4, <1>5, ConsumeStep, SessionStep, SessionEnds DEF Login!Next

LEMMA LoginStart == Login!Init => LoginInv
BY DEF Login!Init, LoginInv, LoginTypes, RequestsAreSigned, OneRequestPasses,
       SessionStillToCome, SessionsWereSpent, SessionsDiffer, Login!Waiting, LoginPlace,
       ChallengeStatus

(* WalletLogin: however many requests present a challenge, and wherever they stop,
   it opens one session at most, and only one that its wallet signed while it could
   be used. *)
THEOREM ChallengesAreUsedOnceCorrect == ServicesSpec => []ChallengesAreUsedOnce
<1>1. LoginInv => ChallengesAreUsedOnce
  BY DEF LoginInv, ChallengesAreUsedOnce, Login!ChallengesAreUsedOnce, SessionsWereSpent,
         SessionsDiffer, Spent
<1> QED
  BY <1>1, PartsBegin, PartsStep, LoginStart, LoginStep, PTL DEF ServicesSpec

-----------------------------------------------------------------------------
(* LogScanner. *)

(* Among the services the scanner does what it does alone, *)
THEOREM ServicesScan == ServicesSpec => Spec
<1>1. ServicesInit => Init
  BY DEF ServicesInit
<1>2. [ServicesNext]_servicesVars => [Next]_vars
  BY DEF ServicesNext, servicesVars, OnlyScanner, OnlySummary, OnlyBot, OnlyLogin, OnlyAssets,
         OnlyPools, OnlyCrossings, OnlyRanks, OnlyWebhook
<1> QED
  BY <1>1, <1>2, PTL DEF ServicesSpec, Spec

(* so its theorems hold of them. *)
THEOREM ServicesRecordCorrect == ServicesSpec => [](ConfirmedIsCanonical /\ PassedIsRecorded)
BY ServicesScan, ConfirmedIsCanonicalCorrect, PassedIsRecordedCorrect, PTL
=============================================================================
