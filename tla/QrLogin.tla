------------------------------- MODULE QrLogin -------------------------------
(***************************************************************************)
(* Signing in by QR code: a device without a keyboard shows a session and  *)
(* polls it; a person who is signed in elsewhere confirms it; MongoDB      *)
(* removes sessions some time after they expire.  A token is modelled by   *)
(* the account it is signed for.                                           *)
(***************************************************************************)
EXTENDS Accounts

CONSTANTS Devices,      \* devices that show codes
          Confirms,     \* slots for confirmations in flight
          Life,         \* minutes from the creation of a session to expiresAt
          MaxSessions   \* bound on the sessions ever created

ASSUME QrAssumption == Life \in Nat /\ MaxSessions \in Nat

VARIABLES sessions,     \* the qr_sessions collection, by session id
          made,         \* sessions created so far: session ids are never reused
          confirming,   \* confirmations in flight
          device,       \* what each device shows and what it was answered
          accepted      \* history: for each session, who was answered yes

qrVars == <<sessions, made, confirming, device, accepted>>

SessionIds == 1 .. MaxSessions
QrSession == [status : {"pending", "confirmed"}, token : Ids \cup {None},
              expiresAt : Nat]

(* A device that shows nothing.  at is when it was given its token.        *)
Blank == [session |-> None, expiresAt |-> 0, token |-> None, at |-> 0]
NoConfirm == [session |-> None, account |-> None]

(* Variant: left to the TTL index.                                         *)
Stored(s) == s \in DOMAIN sessions

(* In the collection and not past its time, which the handlers check       *)
(* because the TTL index is late.                                          *)
Live(s) == s \in DOMAIN sessions /\ now <= sessions[s].expiresAt

QrInit ==
  /\ sessions = <<>>
  /\ made = 0
  /\ confirming = [c \in Confirms |-> NoConfirm]
  /\ device = [d \in Devices |-> Blank]
  /\ accepted = [s \in SessionIds |-> {}]

(* A device asks for a session and shows its code.                         *)
GenerateQrSession(d) ==
  /\ device[d].session = None
  /\ made < MaxSessions
  /\ made' = made + 1
  /\ sessions' = [s \in DOMAIN sessions \cup {made + 1} |->
       IF s = made + 1
       THEN [status |-> "pending", token |-> None, expiresAt |-> now + Life]
       ELSE sessions[s]]
  /\ device' = [device EXCEPT ![d] =
       [Blank EXCEPT !.session = made + 1, !.expiresAt = now + Life]]
  /\ UNCHANGED <<confirming, accepted>>

(* Variant: the answer has the status but not the token.                   *)
PollWithoutToken(d) ==
  /\ device[d].session # None
  /\ device[d].token = None
  /\ device' = IF Live(device[d].session) THEN device
               ELSE [device EXCEPT ![d] = Blank]
  /\ UNCHANGED <<sessions, made, confirming, accepted>>

(* A poll.  The device keeps polling until it is told "expired", and then  *)
(* shows another session, or "confirmed", and then keeps the token.        *)
GetQrStatus(d) ==
  LET s == device[d].session
  IN  /\ s # None
      /\ device[d].token = None
      /\ \/ /\ ~Live(s)
            /\ device' = [device EXCEPT ![d] = Blank]
         \/ /\ Live(s)
            /\ sessions[s].status = "confirmed"
            /\ device' = [device EXCEPT ![d].token = sessions[s].token,
                                        ![d].at = now]
         \/ /\ Live(s)
            /\ sessions[s].status = "pending"
            /\ UNCHANGED device
      /\ UNCHANGED <<sessions, made, confirming, accepted>>

(* Signed out, or its token has expired: the device starts over.           *)
SignOut(d) ==
  /\ device[d].token # None
  /\ device' = [device EXCEPT ![d] = Blank]
  /\ UNCHANGED <<sessions, made, confirming, accepted>>

(* confirmQrSession reads the session; refusals leave nothing behind.      *)
ConfirmRead(c, a, s) ==
  /\ confirming[c] = NoConfirm
  /\ Live(s)
  /\ sessions[s].status = "pending"
  /\ confirming' = [confirming EXCEPT ![c] = [session |-> s, account |-> a]]
  /\ UNCHANGED <<sessions, made, device, accepted>>

(* It writes by id without looking again, and says yes whatever the write  *)
(* found.                                                                  *)
ConfirmWrite(c) ==
  LET s == confirming[c].session
      a == confirming[c].account
  IN  /\ confirming[c] # NoConfirm
      /\ sessions' = [t \in DOMAIN sessions |->
           IF t = s
           THEN [sessions[t] EXCEPT !.status = "confirmed", !.token = a]
           ELSE sessions[t]]
      /\ accepted' = [accepted EXCEPT ![s] = @ \cup {a}]
      /\ confirming' = [confirming EXCEPT ![c] = NoConfirm]
      /\ UNCHANGED <<made, device>>

(* The TTL index: expired sessions go away some time later.                *)
RemoveExpired(s) ==
  /\ now >= sessions[s].expiresAt
  /\ sessions' = [t \in DOMAIN sessions \ {s} |-> sessions[t]]
  /\ UNCHANGED <<made, confirming, device, accepted>>

(* The JWT strategy has loaded the account of whoever confirms.            *)
QrNext ==
  /\ "qr" \in open
  /\ \/ \E d \in Devices : GenerateQrSession(d) \/ GetQrStatus(d) \/ SignOut(d)
     \/ \E c \in Confirms : ConfirmWrite(c)
     \/ \E s \in DOMAIN sessions :
          \/ RemoveExpired(s)
          \/ \E c \in Confirms, a \in DOMAIN accounts : ConfirmRead(c, a, s)

AuthInit == AccountsInit /\ QrInit
AuthNext ==
  \/ AccountsNext /\ UNCHANGED qrVars
  \/ QrNext /\ UNCHANGED vars
  \/ /\ ProcessEnds
     /\ confirming' = [c \in Confirms |-> NoConfirm]
     /\ UNCHANGED <<sessions, made, device, accepted>>

(* Devices keep polling; nobody has to confirm.                            *)
AuthFairness == \A d \in Devices : WF_qrVars(GetQrStatus(d))

AuthSpec == AuthInit /\ [][AuthNext]_<<vars, qrVars>> /\ AuthFairness
-----------------------------------------------------------------------------
(* Sessions, devices and confirmations are of the shape of the code, and a *)
(* session carries a token exactly when it is confirmed.                   *)
QrTypeOK ==
  /\ made \in 0 .. MaxSessions
  /\ DOMAIN sessions \subseteq 1 .. made
  /\ \A s \in DOMAIN sessions :
       /\ sessions[s] \in QrSession
       /\ sessions[s].status = "confirmed" <=> sessions[s].token # None
  /\ confirming \in [Confirms -> [session : SessionIds, account : Ids] \cup {NoConfirm}]
  /\ device \in [Devices -> [session : SessionIds \cup {None}, expiresAt : Nat,
                             token : Ids \cup {None}, at : Nat]]
  /\ accepted \in [SessionIds -> SUBSET Ids]

(* The device was promised that its session ends at expiresAt: no poll is  *)
(* answered with a token later, although the document may still be there   *)
(* and may even be confirmed after that time.  And the token is that of    *)
(* somebody whose confirmation of this very session was answered yes.      *)
TokenWithinPromise ==
  \A d \in Devices : device[d].token # None =>
    /\ device[d].at <= device[d].expiresAt
    /\ device[d].session # None
    /\ device[d].token \in accepted[device[d].session]

(* Once a confirmation is stored, the device that shows the session gets a *)
(* token, or is too late.                                                  *)
ConfirmationReachesDevice ==
  \A d \in Devices, s \in SessionIds :
    (device[d].session = s /\ Live(s) /\ sessions[s].status = "confirmed")
      ~> (device[d].token # None \/ now > device[d].expiresAt)
=============================================================================
