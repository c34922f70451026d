----------------------------- MODULE WalletLogin ------------------------------
(* Signing in with a wallet (internal/auth/service.go): a challenge is issued,     *)
(* signed by the wallet, and exchanged once for a session.  Requests that present *)
(* one challenge run side by side, and may end between any two of their calls.    *)
EXTENDS Integers, Sequences

CONSTANTS
  Challenge,   \* challenges, each issued to one wallet
  Request,     \* verification requests that are being served
  MaxSessions, \* bound: sessions
  Nothing      \* no challenge

VARIABLES
  challenge,   \* auth_challenges: "none", "open", "used", "expired"
  session,     \* auth_sessions: "active", "revoked", "expired", and its challenge
  request,     \* each request's place in VerifyWalletChallenge
  signed,      \* whether the wallet of a challenge has signed it
  entered      \* history: requests whose challenge was open when they used it

loginVars == <<challenge, session, request, signed, entered>>

-----------------------------------------------------------------------------
Waiting == [pc |-> "idle", challenge |-> Nothing]
Goto(r, pc) == request' = [request EXCEPT ![r].pc = pc]
End(r) == request' = [request EXCEPT ![r] = Waiting]

(* CreateWalletChallenge *)
CreateWalletChallenge(c) ==
  /\ challenge[c] = "none"
  /\ challenge' = [challenge EXCEPT ![c] = "open"]
  /\ UNCHANGED <<session, request, signed, entered>>

(* The wallet signs the message, outside the service. *)
Sign(c) ==
  /\ challenge[c] # "none" /\ c \notin signed
  /\ signed' = signed \cup {c}
  /\ UNCHANGED <<challenge, session, request, entered>>

(* VerifyWalletChallenge: the open challenge is read and its signature checked ... *)
GetActiveAuthChallenge(r, c) ==
  /\ request[r].pc = "idle"
  /\ challenge[c] = "open" /\ c \in signed
  /\ request' = [request EXCEPT ![r] = [pc |-> "profile", challenge |-> c]]
  /\ UNCHANGED <<challenge, session, signed, entered>>

(* ... the DeBox account is asked for, which may fail ... *)
UserInfo(r) ==
  /\ request[r].pc = "profile"
  /\ Goto(r, "consume") \/ End(r)
  /\ UNCHANGED <<challenge, session, signed, entered>>

(* Variant: the conditions of the UPDATE are left to the earlier read. *)
AnyChallenge(c) == TRUE
StillOpen(c) == challenge[c] = "open"
(* ... the challenge is used, if it still is open ... *)
ConsumeAuthChallenge(r) ==
  /\ request[r].pc = "consume"
  /\ LET c == request[r].challenge IN
     IF StillOpen(c)
     THEN /\ challenge' = [challenge EXCEPT ![c] = "used"]
          /\ entered' = entered \cup (IF challenge[c] = "open" THEN {c} ELSE {})
          /\ Goto(r, "session")
     ELSE End(r) /\ UNCHANGED <<challenge, entered>>
  /\ UNCHANGED <<session, signed>>

(* ... and a session is created in another statement. *)
CreateAuthSession(r) ==
  /\ request[r].pc = "session"
  /\ Len(session) < MaxSessions
  /\ session' = Append(session, [challenge |-> request[r].challenge, status |-> "active"])
  /\ End(r)
  /\ UNCHANGED <<challenge, signed, entered>>

(* A request fails or its process dies. *)
Abandon(r) ==
  /\ request[r].pc # "idle"
  /\ End(r)
  /\ UNCHANGED <<challenge, session, signed, entered>>

RevokeAuthSession(s) ==
  /\ session[s].status = "active"
  /\ session' = [session EXCEPT ![s].status = "revoked"]
  /\ UNCHANGED <<challenge, request, signed, entered>>
ExpireChallenge(c) ==
  /\ challenge[c] = "open"
  /\ challenge' = [challenge EXCEPT ![c] = "expired"]
  /\ UNCHANGED <<session, request, signed, entered>>
ExpireSession(s) ==
  /\ session[s].status = "active"
  /\ session' = [session EXCEPT ![s].status = "expired"]
  /\ UNCHANGED <<challenge, request, signed, entered>>
(* CleanupAuthRecords removes challenges a day after their end. *)
CleanupAuthRecords ==
  /\ \E c \in Challenge : challenge[c] \in {"used", "expired"}
  /\ challenge' = [c \in Challenge |->
       IF challenge[c] \in {"used", "expired"} THEN "gone" ELSE challenge[c]]
  /\ UNCHANGED <<session, request, signed, entered>>

-----------------------------------------------------------------------------
Init ==
  /\ challenge = [c \in Challenge |-> "none"]
  /\ session = <<>>
  /\ request = [r \in Request |-> Waiting]
  /\ signed = {} /\ entered = {}

Next ==
  \/ \E c \in Challenge : CreateWalletChallenge(c) \/ Sign(c) \/ ExpireChallenge(c)
  \/ \E r \in Request, c \in Challenge : GetActiveAuthChallenge(r, c)
  \/ \E r \in Request : \/ UserInfo(r) \/ ConsumeAuthChallenge(r)
                        \/ CreateAuthSession(r) \/ Abandon(r)
  \/ \E s \in DOMAIN session : RevokeAuthSession(s) \/ ExpireSession(s)
  \/ CleanupAuthRecords

Spec == Init /\ [][Next]_loginVars

-----------------------------------------------------------------------------
(* A challenge opens one session at most, and only one that its wallet had signed
   and that had neither run out nor been used when it was exchanged. *)
ChallengesAreUsedOnce ==
  \A s, u \in DOMAIN session :
    /\ session[s].challenge \in signed \cap entered
    /\ session[s].challenge = session[u].challenge => s = u
=============================================================================
