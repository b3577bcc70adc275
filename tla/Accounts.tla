------------------------------ MODULE Accounts ------------------------------
(***************************************************************************)
(* The accounts collection and the handlers of AuthService and             *)
(* AccountService that write it.  One step is one database round trip with *)
(* the code up to the next one; the first step of a handler is its         *)
(* arrival, the account that the JWT strategy loads included.  A password  *)
(* hash is modelled by the password it was made of, and a token by the id  *)
(* of its account.                                                         *)
(***************************************************************************)
EXTENDS Integers, FiniteSets

CONSTANTS Reqs,        \* slots for requests in flight
          Emails, Passwords,
          Chats,       \* Telegram chats
          Patches,     \* bodies that clients send to PATCH /auth/update-metadata
          Seed,        \* the accounts there are at the start
          Scenarios,   \* sets of endpoints used in one behaviour
          OtpLife,     \* minutes a one-time code is valid
          MaxId,       \* bound on the accounts ever created
          MaxCodes,    \* bound on the codes ever made
          MaxTime,     \* bound on the clock
          None

Ids == 1 .. MaxId

(* A generated code: its number stands for the random characters, at is    *)
(* when it was made.                                                       *)
Code == [n : 1 .. MaxCodes, at : Nat]

(* What a client wrote where a code belongs.                               *)
ClientText == [n |-> 0, at |-> 0]
CodeValue == Code \cup {ClientText, None}
ChatValue == Chats \cup {None}
Expiry == Nat \cup {None}

(* The keys of metadata that some code reads; otpVerified, ips and         *)
(* lastLoginIp are written and never read.  None stands for what is not    *)
(* there or counts as false.  A date that cannot be parsed is never past,  *)
(* like one that is far away.                                              *)
Metadata == [myCode : CodeValue, telegramChatId : ChatValue, otpCode : CodeValue,
             otpExpiry : Expiry, pendingLoginIp : BOOLEAN, sendMail : BOOLEAN]

(* PATCH /auth/update-metadata takes any key and any value.                *)
Patch == ({"myCode", "otpCode"} \X CodeValue) \cup ({"telegramChatId"} \X ChatValue)
         \cup ({"otpExpiry"} \X Expiry) \cup ({"pendingLoginIp", "sendMail"} \X BOOLEAN)
Account == [email : Emails, password : Passwords, admin : BOOLEAN,
            isVerified : BOOLEAN, metadata : Metadata]

ASSUME AccountsAssumption ==
  /\ MaxId \in Nat /\ MaxCodes \in Nat /\ OtpLife \in Nat
  /\ DOMAIN Seed = 1 .. Cardinality(DOMAIN Seed) /\ DOMAIN Seed \subseteq Ids
  /\ Cardinality(DOMAIN Seed) <= MaxCodes
  /\ \A i \in DOMAIN Seed : Seed[i] \in Account /\ Seed[i].metadata.otpCode = None
  /\ \A i, j \in DOMAIN Seed : Seed[i].email = Seed[j].email => i = j
  /\ Patches \subseteq Patch
  /\ None \notin Code \cup Nat \cup Emails \cup Passwords \cup Chats

VARIABLES accounts,   \* documents by id
          everMade,   \* ids given out so far: ObjectIds are never reused
          codes,      \* codes made so far
          req,        \* handlers in flight
          now,
          open,       \* the endpoints clients use in this behaviour
          patched,    \* history: the keys that clients wrote, by account
          otpAge      \* history: how old the last code was that was accepted
                      \* for an account whose code and expiry no client wrote

vars == <<accounts, everMade, codes, req, now, open, patched, otpAge>>

NoMetadata == [myCode |-> None, telegramChatId |-> None, otpCode |-> None,
               otpExpiry |-> None, pendingLoginIp |-> FALSE, sendMail |-> FALSE]

(* Local state of a handler between two round trips.  known is the         *)
(* metadata it read.                                                       *)
NoReq == [pc |-> "idle", id |-> None, email |-> None, password |-> None,
          patch |-> <<"sendMail", FALSE>>, code |-> None, known |-> NoMetadata]

AccountsInit ==
  /\ accounts = Seed
  /\ everMade = DOMAIN Seed
  /\ codes = Cardinality(DOMAIN Seed)
  /\ req = [r \in Reqs |-> NoReq]
  /\ now = 0
  /\ open \in Scenarios
  /\ patched = {}
  /\ otpAge = 0

(* The unique index on email.                                              *)
EmailTaken(e, i) == \E j \in DOMAIN accounts \ {i} : accounts[j].email = e

NewCode == [n |-> codes + 1, at |-> now]
MakeCode == codes < MaxCodes /\ codes' = codes + 1

(* findByIdAndUpdate: nothing happens when the document is gone.           *)
Updated(i, a) == [j \in DOMAIN accounts |-> IF j = i THEN a ELSE accounts[j]]

Arrive(r, call, q) ==
  /\ call \in open
  /\ req[r] = NoReq
  /\ req' = [req EXCEPT ![r] = q]

Finish(r) == req' = [req EXCEPT ![r] = NoReq]
-----------------------------------------------------------------------------
(* POST /auth/register: no account with this email yet.  The welcome       *)
(* notice and its verification link follow the insert (Notices).           *)
Register(r, e, p) ==
  /\ ~EmailTaken(e, None)
  /\ MakeCode
  /\ Arrive(r, "register",
       [NoReq EXCEPT !.pc = "register", !.email = e, !.password = p, !.code = NewCode])
  /\ UNCHANGED <<accounts, everMade, now, open, patched, otpAge>>

RegisterInsert(r) ==
  LET q == req[r]
      i == Cardinality(everMade) + 1
  IN  /\ q.pc = "register"
      /\ \/ EmailTaken(q.email, None) /\ UNCHANGED <<accounts, everMade>>
         \/ /\ ~EmailTaken(q.email, None)
            /\ i \in Ids
            /\ everMade' = everMade \cup {i}
            /\ accounts' = [j \in DOMAIN accounts \cup {i} |->
                 IF j = i
                 THEN [email |-> q.email, password |-> q.password, admin |-> FALSE,
                       isVerified |-> FALSE,
                       metadata |-> [NoMetadata EXCEPT !.myCode = q.code]]
                 ELSE accounts[j]]
      /\ Finish(r)
      /\ UNCHANGED <<codes, now, open, patched, otpAge>>

(* POST /auth/login with the right password: an account from before there  *)
(* were invitation codes gets one.                                         *)
Login(r, i, p) ==
  /\ accounts[i].password = p
  /\ accounts[i].metadata.myCode = None
  /\ MakeCode
  /\ Arrive(r, "login", [NoReq EXCEPT !.pc = "login", !.id = i, !.code = NewCode])
  /\ UNCHANGED <<accounts, everMade, now, open, patched, otpAge>>

LoginSetCode(r) ==
  LET q == req[r]
      a == [accounts[q.id] EXCEPT !.metadata.myCode = q.code]
  IN  /\ q.pc = "login"
      /\ accounts' = Updated(q.id, a)
      /\ Finish(r)
      /\ UNCHANGED <<everMade, codes, now, open, patched, otpAge>>

(* PATCH /auth/change-password: the old password is compared, the caller   *)
(* is answered, and the new one is hashed in the background.               *)
ChangePassword(r, i, old, new) ==
  /\ accounts[i].password = old
  /\ Arrive(r, "changePassword",
       [NoReq EXCEPT !.pc = "hash", !.id = i, !.password = new])
  /\ UNCHANGED <<accounts, everMade, codes, now, open, patched, otpAge>>

(* POST /auth/reset-password with a token of the account.                  *)
ResetPassword(r, i, new) ==
  /\ Arrive(r, "resetPassword",
       [NoReq EXCEPT !.pc = "hash", !.id = i, !.password = new])
  /\ UNCHANGED <<accounts, everMade, codes, now, open, patched, otpAge>>

(* The callback of bcrypt.hash, after the answer.  Its errors are          *)
(* ProcessEnds.                                                            *)
StorePassword(r) ==
  LET q == req[r]
      a == [accounts[q.id] EXCEPT !.password = q.password]
  IN  /\ q.pc = "hash"
      /\ accounts' = Updated(q.id, a)
      /\ Finish(r)
      /\ UNCHANGED <<everMade, codes, now, open, patched, otpAge>>

(* PUT /auth/update-profile: nobody else has this email yet.               *)
UpdateProfile(r, i, e) ==
  /\ ~EmailTaken(e, i)
  /\ Arrive(r, "updateProfile", [NoReq EXCEPT !.pc = "profile", !.id = i, !.email = e])
  /\ UNCHANGED <<accounts, everMade, codes, now, open, patched, otpAge>>

(* Variant: without the index.                                             *)
ProfileUnindexed(r) ==
  LET q == req[r]
  IN  /\ q.pc = "profile"
      /\ accounts' = Updated(q.id, [accounts[q.id] EXCEPT !.email = q.email])
      /\ Finish(r)
      /\ UNCHANGED <<everMade, codes, now, open, patched, otpAge>>

ProfileWrite(r) ==
  LET q == req[r]
      a == [accounts[q.id] EXCEPT !.email = q.email]
  IN  /\ q.pc = "profile"
      /\ \/ EmailTaken(q.email, q.id) /\ UNCHANGED accounts
         \/ ~EmailTaken(q.email, q.id) /\ accounts' = Updated(q.id, a)
      /\ Finish(r)
      /\ UNCHANGED <<everMade, codes, now, open, patched, otpAge>>

(* PATCH /auth/update-metadata sets one key, whichever the client names.   *)
UpdateMetadata(r, i, patch) ==
  /\ Arrive(r, "updateMetadata",
       [NoReq EXCEPT !.pc = "metadata", !.id = i, !.patch = patch])
  /\ UNCHANGED <<accounts, everMade, codes, now, open, patched, otpAge>>

MetadataWrite(r) ==
  LET q == req[r]
      a == [accounts[q.id] EXCEPT !.metadata[q.patch[1]] = q.patch[2]]
  IN  /\ q.pc = "metadata"
      /\ accounts' = Updated(q.id, a)
      /\ patched' = patched \cup {<<q.id, q.patch[1]>>}
      /\ Finish(r)
      /\ UNCHANGED <<everMade, codes, now, open, otpAge>>

(* Variant: only the chat is written back.                                 *)
TelegramAlone(r, i, chat) ==
  /\ Arrive(r, "updateTelegram",
       [NoReq EXCEPT !.pc = "telegram", !.id = i,
          !.known = [NoMetadata EXCEPT !.telegramChatId = chat]])
  /\ UNCHANGED <<accounts, everMade, codes, now, open, patched, otpAge>>

(* PATCH /auth/update-telegram writes back all the metadata that the       *)
(* account had when the request was let in.                                *)
UpdateTelegram(r, i, chat) ==
  /\ Arrive(r, "updateTelegram",
       [NoReq EXCEPT !.pc = "telegram", !.id = i,
          !.known = [accounts[i].metadata EXCEPT !.telegramChatId = chat]])
  /\ UNCHANGED <<accounts, everMade, codes, now, open, patched, otpAge>>

TelegramWrite(r) ==
  LET q == req[r]
      a == [accounts[q.id] EXCEPT !.metadata = q.known]
  IN  /\ q.pc = "telegram"
      /\ accounts' = Updated(q.id, a)
      /\ Finish(r)
      /\ UNCHANGED <<everMade, codes, now, open, patched, otpAge>>

(* POST /auth/verify/check/:token, findOneAndUpdate on an unverified       *)
(* account: one round trip.  Any other answer leaves everything as it is.  *)
HandleVerify(i) ==
  /\ "verify" \in open
  /\ ~accounts[i].isVerified
  /\ accounts' = Updated(i, [accounts[i] EXCEPT !.isVerified = TRUE])
  /\ UNCHANGED <<everMade, codes, req, now, open, patched, otpAge>>

(* DELETE /auth/request-delete and the deletion by an administrator: the   *)
(* role is read, notices are deleted (Notices), then the account.          *)
RequestDelete(r, i) ==
  /\ ~accounts[i].admin
  /\ Arrive(r, "delete", [NoReq EXCEPT !.pc = "delete", !.id = i])
  /\ UNCHANGED <<accounts, everMade, codes, now, open, patched, otpAge>>

(* Variant: the document stays, its email is emptied.                      *)
EmptyEmail(r) ==
  /\ req[r].pc = "delete"
  /\ accounts' = Updated(req[r].id, [accounts[req[r].id] EXCEPT !.email = None])
  /\ Finish(r)
  /\ UNCHANGED <<everMade, codes, now, open, patched, otpAge>>

DeleteOne(r) ==
  /\ req[r].pc = "delete"
  /\ accounts' = [j \in DOMAIN accounts \ {req[r].id} |-> accounts[j]]
  /\ Finish(r)
  /\ UNCHANGED <<everMade, codes, now, open, patched, otpAge>>

(* POST /auth/resend-otp: a new code and a new expiry.                     *)
ResendOtp(r, i) ==
  /\ accounts[i].admin
  /\ accounts[i].metadata.pendingLoginIp
  /\ MakeCode
  /\ Arrive(r, "otp", [NoReq EXCEPT !.pc = "otp", !.id = i, !.code = NewCode])
  /\ UNCHANGED <<accounts, everMade, now, open, patched, otpAge>>

(* Variant: the ten minutes start when the code is stored.                 *)
OtpExpiryFromWrite(r) ==
  LET q == req[r]
      a == [accounts[q.id] EXCEPT !.metadata.otpCode = q.code,
                          !.metadata.otpExpiry = now + OtpLife]
  IN  /\ q.pc = "otp"
      /\ accounts' = Updated(q.id, a)
      /\ Finish(r)
      /\ UNCHANGED <<everMade, codes, now, open, patched, otpAge>>

OtpWrite(r) ==
  LET q == req[r]
      a == [accounts[q.id] EXCEPT !.metadata.otpCode = q.code,
                          !.metadata.otpExpiry = q.code.at + OtpLife]
  IN  /\ q.pc = "otp"
      /\ accounts' = Updated(q.id, a)
      /\ Finish(r)
      /\ UNCHANGED <<everMade, codes, now, open, patched, otpAge>>

OtpPatched(i) == <<i, "otpCode">> \in patched \/ <<i, "otpExpiry">> \in patched

(* POST /auth/verify-otp with the code in the metadata: it is there, has   *)
(* an expiry that is not past, and is then cleared.  Any other code is     *)
(* refused.                                                                *)
VerifyOtp(r, i) ==
  LET m == accounts[i].metadata
  IN  /\ accounts[i].admin
      /\ m.otpCode # None
      /\ m.otpExpiry # None /\ now <= m.otpExpiry
      /\ Arrive(r, "otp", [NoReq EXCEPT !.pc = "clear", !.id = i])
      /\ otpAge' = IF OtpPatched(i) THEN otpAge ELSE now - m.otpCode.at
      /\ UNCHANGED <<accounts, everMade, codes, now, open, patched>>

ClearOtp(r) ==
  LET q == req[r]
      a == [accounts[q.id] EXCEPT !.metadata.otpCode = None, !.metadata.otpExpiry = None,
                          !.metadata.pendingLoginIp = FALSE]
  IN  /\ q.pc = "clear"
      /\ accounts' = Updated(q.id, a)
      /\ Finish(r)
      /\ UNCHANGED <<everMade, codes, now, open, patched, otpAge>>

(* Time matters to codes and to QR sessions.                               *)
Tick ==
  /\ now < MaxTime
  /\ open \cap {"otp", "qr"} # {}
  /\ now' = now + 1
  /\ UNCHANGED <<accounts, everMade, codes, req, open, patched, otpAge>>
-----------------------------------------------------------------------------
Call(r) ==
  \/ \E e \in Emails, p \in Passwords : Register(r, e, p)
  \/ \E i \in DOMAIN accounts :
       \/ \E p \in Passwords : Login(r, i, p) \/ ResetPassword(r, i, p)
       \/ \E old, new \in Passwords : ChangePassword(r, i, old, new)
       \/ \E e \in Emails : UpdateProfile(r, i, e)
       \/ \E patch \in Patches : UpdateMetadata(r, i, patch)
       \/ \E chat \in Chats \cup {None} : UpdateTelegram(r, i, chat)
       \/ RequestDelete(r, i)
       \/ ResendOtp(r, i)
       \/ VerifyOtp(r, i)

Continue(r) ==
  \/ RegisterInsert(r) \/ LoginSetCode(r) \/ StorePassword(r) \/ ProfileWrite(r)
  \/ MetadataWrite(r) \/ TelegramWrite(r) \/ DeleteOne(r) \/ OtpWrite(r) \/ ClearOtp(r)

AccountsNext ==
  \/ \E r \in Reqs : Call(r) \/ Continue(r)
  \/ \E i \in DOMAIN accounts : HandleVerify(i)
  \/ Tick

(* The process may end, and every handler in flight ends with it.  An      *)
(* error of genSalt, hash or the write of a password ends it, thrown in a  *)
(* callback after the answer, where nothing catches it.                    *)
ProcessEnds ==
  /\ req' = [r \in Reqs |-> NoReq]
  /\ UNCHANGED <<accounts, everMade, codes, now, open, patched, otpAge>>
-----------------------------------------------------------------------------
(* Documents, handlers and histories have the shape of the code, and every *)
(* id in use was given out.                                                *)
ReqOK(q) ==
  /\ DOMAIN q = DOMAIN NoReq
  /\ q.pc # "idle" => q.pc = "register" \/ q.id \in everMade
  /\ q.pc = "register" => q.email \in Emails /\ q.password \in Passwords
  /\ q.pc = "hash" => q.password \in Passwords
  /\ q.pc = "profile" => q.email \in Emails
  /\ q.pc \in {"register", "login", "otp"} => q.code \in Code
  /\ q.patch \in Patch
  /\ q.known \in Metadata

AccountsTypeOK ==
  /\ everMade \subseteq Ids /\ DOMAIN accounts \subseteq everMade
  /\ \A i \in DOMAIN accounts : accounts[i] \in Account
  /\ DOMAIN req = Reqs /\ \A r \in Reqs : ReqOK(req[r])
  /\ codes \in 0 .. MaxCodes /\ now \in Nat
  /\ patched \subseteq everMade \X DOMAIN NoMetadata

(* Registrations and changes of profile race from their check to their     *)
(* write; only the index keeps an email from having two accounts.          *)
OneAccountPerEmail ==
  \A i, j \in DOMAIN accounts : accounts[i].email = accounts[j].email => i = j

(* An account that came with an invitation code keeps it, although         *)
(* update-telegram writes metadata that may be out of date, unless a       *)
(* client names the key in PATCH /auth/update-metadata.                    *)
InvitationCodeKept ==
  [][\A i \in DOMAIN accounts \cap DOMAIN accounts' :
       /\ i \in DOMAIN Seed => Seed[i].metadata.myCode # None
       /\ <<i, "myCode">> \notin patched'
       => accounts'[i].metadata.myCode = accounts[i].metadata.myCode]_vars

(* A one-time code is accepted no later than OtpLife after it was made,    *)
(* whichever resend, verification or stale metadata was written last, as   *)
(* long as no client wrote the code or its expiry into the account.        *)
CodeAcceptedInTime == otpAge <= OtpLife
=============================================================================
