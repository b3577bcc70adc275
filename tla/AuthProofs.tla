------------------------------ MODULE AuthProofs ------------------------------
(***************************************************************************)
(* Theorems about accounts and QR logins for any number of requests,       *)
(* accounts, devices and confirmations in flight.                          *)
(***************************************************************************)
EXTENDS QrLogin, FiniteSetTheorems, TLAPS

-----------------------------------------------------------------------------
(* Documents and handlers.                                                 *)

(* A handler that begins with what it knows of an account.                 *)
LEMMA NoReqOK ==
  /\ NoReq.pc = "idle"
  /\ ReqOK(NoReq)
  BY AccountsAssumption DEF NoReq, NoMetadata, ReqOK, Metadata, CodeValue, ChatValue,
     Expiry, Patch

(* An account that is not there has no id.                                 *)
LEMMA NoneIsNoId == None \notin Nat /\ None \notin Ids
  BY AccountsAssumption DEF Ids

(* What a code is made of is within its bounds.                            *)
LEMMA NewCodeOK == AccountsTypeOK /\ MakeCode => NewCode \in Code /\ codes' \in 0 .. MaxCodes
  BY AccountsAssumption DEF AccountsTypeOK, MakeCode, NewCode, Code

(* A request that arrives, with the local state q.                         *)
LEMMA ArriveOK ==
  ASSUME AccountsTypeOK, NEW r \in Reqs, NEW call, NEW q, Arrive(r, call, q), ReqOK(q),
         UNCHANGED <<accounts, everMade, now, patched>>, codes' \in 0 .. MaxCodes
  PROVE  AccountsTypeOK'
<1>1. DOMAIN req' = Reqs /\ \A s \in Reqs : req'[s] = IF s = r THEN q ELSE req[s]
  BY DEF Arrive, AccountsTypeOK
<1>2. \A s \in Reqs : ReqOK(req'[s])
  BY <1>1 DEF AccountsTypeOK
<1>3. \A s \in Reqs : ReqOK(req[s])'
  BY <1>2 DEF ReqOK
<1> QED
  BY <1>1, <1>3 DEF AccountsTypeOK

(* A write by id of a document of the right shape, and the end of its      *)
(* request.                                                                *)
LEMMA WriteOK ==
  ASSUME AccountsTypeOK, NEW r \in Reqs, Finish(r), NEW i, NEW a,
         accounts' \in {accounts, Updated(i, a)},
         i \in DOMAIN accounts => a \in Account,
         UNCHANGED <<everMade, codes, now>>,
         patched' \subseteq everMade \X DOMAIN NoMetadata
  PROVE  AccountsTypeOK'
<1>1. DOMAIN accounts' = DOMAIN accounts /\ \A j \in DOMAIN accounts : accounts'[j] \in Account
  BY DEF AccountsTypeOK, Updated
<1>2. DOMAIN req' = Reqs /\ \A s \in Reqs : req'[s] \in {req[s], NoReq}
  BY DEF Finish, AccountsTypeOK
<1>3. \A s \in Reqs : ReqOK(req'[s])
  BY <1>2, NoReqOK DEF AccountsTypeOK
<1>4. \A s \in Reqs : ReqOK(req[s])'
  BY <1>3 DEF ReqOK
<1> QED
  BY <1>1, <1>2, <1>4 DEF AccountsTypeOK

(* Each call a client can make.                                            *)
LEMMA CallKeepsTypes ==
  ASSUME AccountsTypeOK, NEW r \in Reqs, Call(r)
  PROVE  AccountsTypeOK' /\ UNCHANGED accounts
<1>1. ASSUME NEW e \in Emails, NEW p \in Passwords, Register(r, e, p)
      PROVE  AccountsTypeOK'
  <2> DEFINE q == [NoReq EXCEPT !.pc = "register", !.email = e, !.password = p,
                                !.code = NewCode]
  <2>1. NewCode \in Code /\ codes' \in 0 .. MaxCodes
    BY <1>1, NewCodeOK DEF Register
  <2>2. ReqOK(q)
    BY <2>1, NoReqOK DEF ReqOK, NoReq
  <2> QED
    BY <1>1, <2>1, <2>2, ArriveOK DEF Register
<1> SUFFICES ASSUME NEW i \in DOMAIN accounts,
               \/ \E p \in Passwords : Login(r, i, p) \/ ResetPassword(r, i, p)
               \/ \E old, new \in Passwords : ChangePassword(r, i, old, new)
               \/ \E e \in Emails : UpdateProfile(r, i, e)
               \/ \E patch \in Patches : UpdateMetadata(r, i, patch)
               \/ \E chat \in Chats \cup {None} : UpdateTelegram(r, i, chat)
               \/ RequestDelete(r, i)
               \/ ResendOtp(r, i)
               \/ VerifyOtp(r, i)
             PROVE  AccountsTypeOK' /\ UNCHANGED accounts
  BY <1>1 DEF Call, Register
<1>2. i \in everMade /\ codes \in 0 .. MaxCodes
  BY DEF AccountsTypeOK
<1>3. ASSUME NEW p \in Passwords, Login(r, i, p)
      PROVE  AccountsTypeOK'
  <2> DEFINE q == [NoReq EXCEPT !.pc = "login", !.id = i, !.code = NewCode]
  <2>1. NewCode \in Code /\ codes' \in 0 .. MaxCodes
    BY <1>3, NewCodeOK DEF Login
  <2>2. ReqOK(q)
    BY <1>2, <2>1, NoReqOK DEF ReqOK, NoReq
  <2> QED
    BY <1>3, <2>1, <2>2, ArriveOK DEF Login
<1>4. ASSUME NEW p \in Passwords,
             ResetPassword(r, i, p) \/ \E old \in Passwords : ChangePassword(r, i, old, p)
      PROVE  AccountsTypeOK'
  <2> DEFINE q == [NoReq EXCEPT !.pc = "hash", !.id = i, !.password = p]
  <2>1. ReqOK(q)
    BY <1>2, NoReqOK DEF ReqOK, NoReq
  <2>2. \E call \in {"resetPassword", "changePassword"} :
          Arrive(r, call, q) /\ UNCHANGED <<accounts, everMade, codes, now, patched>>
    BY <1>4 DEF ResetPassword, ChangePassword
  <2> QED
    BY <1>2, <2>1, <2>2, ArriveOK
<1>5. ASSUME NEW e \in Emails, UpdateProfile(r, i, e)
      PROVE  AccountsTypeOK'
  <2> DEFINE q == [NoReq EXCEPT !.pc = "profile", !.id = i, !.email = e]
  <2>1. ReqOK(q)
    BY <1>2, NoReqOK DEF ReqOK, NoReq
  <2> QED
    BY <1>2, <1>5, <2>1, ArriveOK DEF UpdateProfile
<1>6. ASSUME NEW patch \in Patches, UpdateMetadata(r, i, patch)
      PROVE  AccountsTypeOK'
  <2> DEFINE q == [NoReq EXCEPT !.pc = "metadata", !.id = i, !.patch = patch]
  <2>1. patch \in Patch
    BY AccountsAssumption
  <2>2. ReqOK(q)
    BY <1>2, <2>1, NoReqOK DEF ReqOK, NoReq
  <2> QED
    BY <1>2, <1>6, <2>2, ArriveOK DEF UpdateMetadata
<1>7. ASSUME NEW chat \in Chats \cup {None}, UpdateTelegram(r, i, chat)
      PROVE  AccountsTypeOK'
  <2> DEFINE m == [accounts[i].metadata EXCEPT !.telegramChatId = chat]
             q == [NoReq EXCEPT !.pc = "telegram", !.id = i, !.known = m]
  <2>1. m \in Metadata
    BY DEF AccountsTypeOK, Account, Metadata, ChatValue
  <2> HIDE DEF m
  <2>2. ReqOK(q)
    BY <1>2, <2>1, NoReqOK DEF ReqOK, NoReq
  <2> QED
    BY <1>2, <1>7, <2>2, ArriveOK DEF UpdateTelegram, m
<1>8. CASE RequestDelete(r, i)
  <2> DEFINE q == [NoReq EXCEPT !.pc = "delete", !.id = i]
  <2>1. ReqOK(q)
    BY <1>2, NoReqOK DEF ReqOK, NoReq
  <2> QED
    BY <1>2, <1>8, <2>1, ArriveOK DEF RequestDelete
<1>9. CASE ResendOtp(r, i)
  <2> DEFINE q == [NoReq EXCEPT !.pc = "otp", !.id = i, !.code = NewCode]
  <2>1. NewCode \in Code /\ codes' \in 0 .. MaxCodes
    BY <1>9, NewCodeOK DEF ResendOtp
  <2>2. ReqOK(q)
    BY <1>2, <2>1, NoReqOK DEF ReqOK, NoReq
  <2> QED
    BY <1>9, <2>1, <2>2, ArriveOK DEF ResendOtp
<1>10. CASE VerifyOtp(r, i)
  <2> DEFINE q == [NoReq EXCEPT !.pc = "clear", !.id = i]
  <2>1. ReqOK(q)
    BY <1>2, NoReqOK DEF ReqOK, NoReq
  <2> QED
    BY <1>2, <1>10, <2>1, ArriveOK DEF VerifyOtp
<1> QED
  BY <1>3, <1>4, <1>5, <1>6, <1>7, <1>8, <1>9, <1>10 DEF Login, ResetPassword,
     ChangePassword, UpdateProfile, UpdateMetadata, UpdateTelegram, RequestDelete,
     ResendOtp, VerifyOtp

(* A write that leaves the email of its document alone gives no email to a *)
(* second account.                                                         *)
LEMMA EmailsKept ==
  ASSUME OneAccountPerEmail, NEW i, NEW a, accounts' = Updated(i, a),
         i \in DOMAIN accounts => a.email = accounts[i].email
  PROVE  OneAccountPerEmail'
<1>1. DOMAIN accounts' = DOMAIN accounts
      /\ \A j \in DOMAIN accounts : accounts'[j].email = accounts[j].email
  BY DEF Updated
<1> QED
  BY <1>1 DEF OneAccountPerEmail

AccountsInv == AccountsTypeOK /\ OneAccountPerEmail

(* One key of the metadata of a document, whichever it is.                 *)
LEMMA PatchedAccount ==
  ASSUME NEW d \in Account, NEW p \in Patch
  PROVE  /\ [d EXCEPT !.metadata[p[1]] = p[2]] \in Account
         /\ [d EXCEPT !.metadata[p[1]] = p[2]].email = d.email
<1>1. d.metadata \in Metadata
  BY DEF Account
<1>2. CASE p \in {"myCode", "otpCode"} \X CodeValue
  BY <1>1, <1>2 DEF Account, Metadata
<1>3. CASE p \in {"telegramChatId"} \X ChatValue
  BY <1>1, <1>3 DEF Account, Metadata
<1>4. CASE p \in {"otpExpiry"} \X Expiry
  BY <1>1, <1>4 DEF Account, Metadata
<1>5. CASE p \in {"pendingLoginIp", "sendMail"} \X BOOLEAN
  BY <1>1, <1>5 DEF Account, Metadata
<1> QED
  BY <1>2, <1>3, <1>4, <1>5 DEF Patch

(* The writes that replace one document.                                   *)
LEMMA ReplacingKeeps ==
  ASSUME AccountsInv, NEW r \in Reqs,
         \/ LoginSetCode(r) \/ StorePassword(r) \/ MetadataWrite(r) \/ TelegramWrite(r)
         \/ OtpWrite(r) \/ ClearOtp(r)
  PROVE  AccountsInv'
<1> DEFINE i == req[r].id
           d == accounts[i]
<1>1. AccountsTypeOK /\ OneAccountPerEmail /\ ReqOK(req[r])
  BY DEF AccountsInv, AccountsTypeOK
<1>2. i \in DOMAIN accounts => d \in Account
  BY <1>1 DEF AccountsTypeOK
<1> patched \subseteq everMade \X DOMAIN NoMetadata
  BY <1>1 DEF AccountsTypeOK
<1>3. PICK a : /\ accounts' = Updated(i, a)
               /\ Finish(r) /\ UNCHANGED <<everMade, codes, now>>
               /\ patched' \subseteq everMade \X DOMAIN NoMetadata
               /\ i \in DOMAIN accounts => a \in Account /\ a.email = d.email
  <2>1. CASE LoginSetCode(r)
    <3> DEFINE a == [d EXCEPT !.metadata.myCode = req[r].code]
    <3>1. req[r].code \in Code
      BY <1>1, <2>1 DEF LoginSetCode, ReqOK
    <3>2. d \in Account => a \in Account /\ a.email = d.email
      BY <3>1 DEF Account, Metadata, CodeValue
    <3> QED
      BY <1>2, <2>1, <3>2 DEF LoginSetCode
  <2>2. CASE StorePassword(r)
    <3> DEFINE a == [d EXCEPT !.password = req[r].password]
    <3>1. req[r].password \in Passwords
      BY <1>1, <2>2 DEF StorePassword, ReqOK
    <3>2. d \in Account => a \in Account /\ a.email = d.email
      BY <3>1 DEF Account
    <3> QED
      BY <1>2, <2>2, <3>2 DEF StorePassword
  <2>3. CASE MetadataWrite(r)
    <3> DEFINE a == [d EXCEPT !.metadata[req[r].patch[1]] = req[r].patch[2]]
    <3>1. req[r].patch \in Patch /\ i \in everMade
      BY <1>1, <2>3 DEF MetadataWrite, ReqOK
    <3>2. d \in Account => a \in Account /\ a.email = d.email
      BY <3>1, PatchedAccount
    <3>3. req[r].patch[1] \in DOMAIN NoMetadata
      BY <3>1 DEF Patch, NoMetadata
    <3>4. /\ accounts' = Updated(i, a) /\ Finish(r) /\ UNCHANGED <<everMade, codes, now>>
          /\ patched' = patched \cup {<<i, req[r].patch[1]>>}
      BY <2>3 DEF MetadataWrite
    <3>5. patched' \subseteq everMade \X DOMAIN NoMetadata
      BY <3>1, <3>3, <3>4
    <3> HIDE DEF a
    <3> QED
      BY <1>2, <3>2, <3>4, <3>5
  <2>4. CASE TelegramWrite(r)
    <3> DEFINE a == [d EXCEPT !.metadata = req[r].known]
    <3>1. req[r].known \in Metadata
      BY <1>1 DEF ReqOK
    <3>2. d \in Account => a \in Account /\ a.email = d.email
      BY <3>1 DEF Account
    <3> QED
      BY <1>2, <2>4, <3>2 DEF TelegramWrite
  <2>5. CASE OtpWrite(r)
    <3> DEFINE a == [d EXCEPT !.metadata.otpCode = req[r].code,
                              !.metadata.otpExpiry = req[r].code.at + OtpLife]
    <3>1. req[r].code \in Code
      BY <1>1, <2>5 DEF OtpWrite, ReqOK
    <3>2. req[r].code.at + OtpLife \in Nat
      BY <3>1, AccountsAssumption DEF Code
    <3>3. d \in Account => a \in Account /\ a.email = d.email
      BY <3>1, <3>2 DEF Account, Metadata, CodeValue, Expiry
    <3> QED
      BY <1>2, <2>5, <3>3 DEF OtpWrite
  <2>6. CASE ClearOtp(r)
    <3> DEFINE a == [d EXCEPT !.metadata.otpCode = None, !.metadata.otpExpiry = None,
                              !.metadata.pendingLoginIp = FALSE]
    <3>1. d \in Account => a \in Account /\ a.email = d.email
      BY DEF Account, Metadata, CodeValue, Expiry
    <3> QED
      BY <1>2, <2>6, <3>1 DEF ClearOtp
  <2> QED
    BY <2>1, <2>2, <2>3, <2>4, <2>5, <2>6
<1>4. AccountsTypeOK'
  BY <1>1, <1>3, WriteOK
<1>5. OneAccountPerEmail'
  BY <1>1, <1>3, EmailsKept
<1> QED
  BY <1>4, <1>5 DEF AccountsInv

(* A new profile: refused when the index has the email already.            *)
LEMMA ProfileKeeps ==
  ASSUME AccountsInv, NEW r \in Reqs, ProfileWrite(r)
  PROVE  AccountsInv'
<1> DEFINE i == req[r].id
           e == req[r].email
           a == [accounts[i] EXCEPT !.email = e]
<1>1. /\ AccountsTypeOK /\ OneAccountPerEmail /\ e \in Emails
      /\ i \in DOMAIN accounts => accounts[i] \in Account
  <2>1. req[r].pc = "profile" /\ ReqOK(req[r])
    BY DEF AccountsInv, AccountsTypeOK, ProfileWrite
  <2>2. e \in Emails
    BY <2>1 DEF ReqOK
  <2> QED
    BY <2>2 DEF AccountsInv, AccountsTypeOK
<1>2. i \in DOMAIN accounts => a \in Account /\ a.email = e
  BY <1>1 DEF Account
<1>3. /\ Finish(r) /\ UNCHANGED <<everMade, codes, now, patched>>
      /\ \/ accounts' = accounts
         \/ ~EmailTaken(e, i) /\ accounts' = Updated(i, a)
  BY Zenon DEF ProfileWrite
<1>4. AccountsTypeOK'
  BY <1>1, <1>2, <1>3, WriteOK DEF AccountsTypeOK
<1>5. OneAccountPerEmail'
  <2>1. CASE accounts' = accounts
    BY <1>1, <2>1 DEF OneAccountPerEmail
  <2>2. CASE ~EmailTaken(e, i) /\ accounts' = Updated(i, a)
    <3> HIDE DEF a, e, i
    <3>1. DOMAIN accounts' = DOMAIN accounts
          /\ \A j \in DOMAIN accounts : accounts'[j] = IF j = i THEN a ELSE accounts[j]
      BY <2>2 DEF Updated
    <3>2. \A j \in DOMAIN accounts \ {i} : accounts[j].email # e
      BY <2>2 DEF EmailTaken
    <3> QED
      BY <1>1, <1>2, <3>1, <3>2 DEF OneAccountPerEmail
  <2> QED
    BY <1>3, <2>1, <2>2
<1> QED
  BY <1>4, <1>5 DEF AccountsInv

(* An insert: refused when the index has the email already.                *)
LEMMA InsertKeeps ==
  ASSUME AccountsInv, NEW r \in Reqs, RegisterInsert(r)
  PROVE  AccountsInv'
<1> DEFINE q == req[r]
           i == Cardinality(everMade) + 1
           a == [email |-> q.email, password |-> q.password, admin |-> FALSE,
                 isVerified |-> FALSE, metadata |-> [NoMetadata EXCEPT !.myCode = q.code]]
<1>1. /\ AccountsTypeOK /\ OneAccountPerEmail
      /\ Finish(r) /\ UNCHANGED <<codes, now, patched>>
      /\ q.pc = "register" /\ ReqOK(q)
  BY DEF AccountsInv, AccountsTypeOK, RegisterInsert
<1>2. CASE UNCHANGED <<accounts, everMade>>
  <2>1. AccountsTypeOK'
    BY <1>1, <1>2, WriteOK DEF AccountsTypeOK
  <2> QED
    BY <1>1, <1>2, <2>1 DEF AccountsInv, OneAccountPerEmail
<1>3. CASE /\ ~EmailTaken(q.email, None)
           /\ i \in Ids
           /\ everMade' = everMade \cup {i}
           /\ accounts' = [j \in DOMAIN accounts \cup {i} |-> IF j = i THEN a ELSE accounts[j]]
  <2>1. /\ q.email \in Emails /\ q.password \in Passwords /\ q.code \in Code
    BY <1>1 DEF ReqOK
  <2>2. [NoMetadata EXCEPT !.myCode = q.code] \in Metadata
    BY <2>1, AccountsAssumption DEF NoMetadata, Metadata, CodeValue, ChatValue, Expiry
  <2>3. a \in Account /\ a.email = q.email
    BY <2>1, <2>2 DEF Account
  <2> HIDE DEF a, i
  <2>4. /\ DOMAIN accounts' = DOMAIN accounts \cup {i}
        /\ \A j \in DOMAIN accounts' : accounts'[j] = IF j = i THEN a ELSE accounts[j]
    BY <1>3
  <2>5. /\ everMade' \subseteq Ids /\ DOMAIN accounts' \subseteq everMade'
        /\ \A j \in DOMAIN accounts' : accounts'[j] \in Account
    BY <1>1, <1>3, <2>3, <2>4 DEF AccountsTypeOK
  <2>6. DOMAIN req' = Reqs /\ \A s \in Reqs : req'[s] \in {req[s], NoReq}
    BY <1>1 DEF Finish, AccountsTypeOK
  <2>7. \A s \in Reqs : ReqOK(req'[s])
    BY <1>1, <2>6, NoReqOK DEF AccountsTypeOK
  <2>8. \A s \in Reqs : ReqOK(req[s])'
    BY <1>3, <2>7 DEF ReqOK
  <2>9. AccountsTypeOK'
    <3>1. patched' \subseteq everMade' \X DOMAIN NoMetadata
      BY <1>1, <1>3 DEF AccountsTypeOK
    <3>2. codes' \in 0 .. MaxCodes /\ now' \in Nat
      BY <1>1 DEF AccountsTypeOK
    <3> QED
      BY <2>5, <2>6, <2>8, <3>1, <3>2, Zenon DEF AccountsTypeOK
  <2>10. \A j \in DOMAIN accounts : accounts[j].email # q.email
    <3>1. None \notin DOMAIN accounts
      BY <1>1, NoneIsNoId DEF AccountsTypeOK
    <3> QED
      BY <1>3, <3>1 DEF EmailTaken
  <2>11. OneAccountPerEmail'
    BY <1>1, <2>3, <2>4, <2>10 DEF OneAccountPerEmail
  <2> QED
    BY <2>9, <2>11 DEF AccountsInv
<1> QED
  BY <1>2, <1>3 DEF RegisterInsert

(* A deletion takes one document away.                                     *)
LEMMA DeleteKeeps ==
  ASSUME AccountsInv, NEW r \in Reqs, DeleteOne(r)
  PROVE  AccountsInv'
<1>1. /\ AccountsTypeOK /\ OneAccountPerEmail
      /\ Finish(r) /\ UNCHANGED <<everMade, codes, now, patched>>
      /\ accounts' = [j \in DOMAIN accounts \ {req[r].id} |-> accounts[j]]
  BY DEF AccountsInv, DeleteOne
<1>2. /\ DOMAIN accounts' \subseteq DOMAIN accounts
      /\ \A j \in DOMAIN accounts' : accounts'[j] = accounts[j]
  BY <1>1
<1>3. DOMAIN req' = Reqs /\ \A s \in Reqs : req'[s] \in {req[s], NoReq}
  BY <1>1 DEF Finish, AccountsTypeOK
<1>4. \A s \in Reqs : ReqOK(req'[s])
  BY <1>1, <1>3, NoReqOK DEF AccountsTypeOK
<1>5. \A s \in Reqs : ReqOK(req[s])'
  BY <1>1, <1>4 DEF ReqOK
<1> QED
  BY <1>1, <1>2, <1>3, <1>5 DEF AccountsInv, AccountsTypeOK, OneAccountPerEmail

(* A link in a mail, the clock, and the end of the process.                *)
LEMMA OtherKeeps ==
  ASSUME AccountsInv, Tick \/ ProcessEnds \/ \E i \in DOMAIN accounts : HandleVerify(i)
  PROVE  AccountsInv'
<1>1. AccountsTypeOK /\ OneAccountPerEmail
  BY DEF AccountsInv
<1>2. CASE Tick
  BY <1>1, <1>2 DEF Tick, AccountsInv, AccountsTypeOK, OneAccountPerEmail, ReqOK
<1>3. ASSUME NEW i \in DOMAIN accounts, HandleVerify(i)
      PROVE  AccountsInv'
  <2> DEFINE a == [accounts[i] EXCEPT !.isVerified = TRUE]
  <2>1. a \in Account /\ a.email = accounts[i].email
    BY <1>1 DEF AccountsTypeOK, Account
  <2>2. accounts' = Updated(i, a) /\ UNCHANGED <<everMade, codes, req, now, patched>>
    BY <1>3 DEF HandleVerify
  <2>3. OneAccountPerEmail'
    BY <1>1, <2>1, <2>2, EmailsKept
  <2>4. DOMAIN accounts' = DOMAIN accounts /\ \A j \in DOMAIN accounts : accounts'[j] \in Account
    BY <1>1, <2>1, <2>2 DEF AccountsTypeOK, Updated
  <2> QED
    BY <1>1, <2>2, <2>3, <2>4 DEF AccountsInv, AccountsTypeOK, ReqOK
<1>4. CASE ProcessEnds
  <2>1. \A r \in Reqs : ReqOK(NoReq)'
    BY <1>4, NoReqOK DEF ProcessEnds, ReqOK
  <2> QED
    BY <1>1, <1>4, <2>1 DEF ProcessEnds, AccountsInv, AccountsTypeOK, OneAccountPerEmail
<1> QED
  BY <1>2, <1>3, <1>4

(* The seed keeps its shape and has one account per email.                *)
LEMMA AccountsStart == AccountsInit => AccountsInv
<1> SUFFICES ASSUME AccountsInit
             PROVE  AccountsInv
  OBVIOUS
<1>1. Cardinality(DOMAIN Seed) \in 0 .. MaxCodes
  <2>1. MaxId \in Int /\ DOMAIN Seed \subseteq Ids
    BY AccountsAssumption
  <2>2. IsFiniteSet(Ids)
    BY <2>1, FS_Interval DEF Ids
  <2>3. Cardinality(DOMAIN Seed) \in Nat
    BY <2>1, <2>2, FS_Subset, FS_CardinalityType
  <2> QED
    BY <2>3, AccountsAssumption
<1>2. \A r \in Reqs : ReqOK(req[r])
  BY NoReqOK DEF AccountsInit
<1> QED
  BY <1>1, <1>2, AccountsAssumption DEF AccountsInit, AccountsInv, AccountsTypeOK,
     OneAccountPerEmail

(* One case per endpoint: only an insert and a profile write set an email. *)
LEMMA AccountsStep == AccountsInv /\ [AccountsNext \/ ProcessEnds]_vars => AccountsInv'
<1> SUFFICES ASSUME AccountsInv, [AccountsNext \/ ProcessEnds]_vars
             PROVE  AccountsInv'
  OBVIOUS
<1>1. ASSUME NEW r \in Reqs, Call(r)
      PROVE  AccountsInv'
  BY <1>1, CallKeepsTypes DEF AccountsInv, OneAccountPerEmail
<1>2. ASSUME NEW r \in Reqs, Continue(r)
      PROVE  AccountsInv'
  BY <1>2, ReplacingKeeps, ProfileKeeps, InsertKeeps, DeleteKeeps DEF Continue
<1>3. CASE UNCHANGED vars
  BY <1>3 DEF vars, AccountsInv, AccountsTypeOK, OneAccountPerEmail, ReqOK
<1> QED
  BY <1>1, <1>2, <1>3, OtherKeeps DEF AccountsNext

(* Requests with their two round trips, of any number at once, and the     *)
(* index: documents keep their shape, an id that is used was given out,    *)
(* and no email has two accounts.                                          *)
THEOREM AccountsCorrect == AuthSpec => [](AccountsTypeOK /\ OneAccountPerEmail)
<1>1. AuthInit => AccountsInv
  BY AccountsStart DEF AuthInit
<1>2. AccountsInv /\ [AuthNext]_<<vars, qrVars>> => AccountsInv'
  BY AccountsStep DEF AuthNext, vars, qrVars
<1>3. AccountsInv => AccountsTypeOK /\ OneAccountPerEmail
  BY DEF AccountsInv
<1> QED
  BY <1>1, <1>2, <1>3, PTL DEF AuthSpec

(* Read alone: an account is always stored under an id that was given out, *)
(* with the fields of its schema, and a request works on one of these ids. *)
THEOREM AccountsKeepShape == AuthSpec => []AccountsTypeOK
  BY AccountsCorrect, PTL

-----------------------------------------------------------------------------
(* One-time codes.                                                         *)

(* A client wrote the code or its expiry, by the history p.                *)
OtpIn(p, i) == <<i, "otpCode">> \in p \/ <<i, "otpExpiry">> \in p

(* Metadata whose code, if any, expires in time.                           *)
InTime(m) ==
  m.otpCode # None /\ m.otpExpiry # None => m.otpExpiry <= m.otpCode.at + OtpLife

(* So is the metadata of every account whose code and expiry no client     *)
(* wrote, and what a request knows of one.                                 *)
CodesInv ==
  /\ \A i \in DOMAIN accounts : OtpIn(patched, i) \/ InTime(accounts[i].metadata)
  /\ \A r \in Reqs : OtpIn(patched, req[r].id) \/ InTime(req[r].known)
  /\ CodeAcceptedInTime

(* Writes of metadata that is in time.                                     *)
LEMMA WriteInTime ==
  ASSUME AccountsTypeOK, CodesInv, NEW r \in Reqs, Finish(r), NEW i, NEW a,
         accounts' = accounts \/ accounts' = Updated(i, a),
         patched \subseteq patched', UNCHANGED otpAge,
         i \in DOMAIN accounts => OtpIn(patched', i) \/ InTime(a.metadata)
  PROVE  CodesInv'
<1>0. \A j : OtpIn(patched, j) => OtpIn(patched', j)
  BY DEF OtpIn
<1>1. DOMAIN accounts' = DOMAIN accounts
  BY DEF Updated
<1>2. \A j \in DOMAIN accounts : OtpIn(patched', j) \/ InTime(accounts'[j].metadata)
  <2>1. CASE accounts' = accounts
    BY <1>0, <2>1 DEF CodesInv
  <2>2. CASE accounts' = Updated(i, a)
    <3>1. \A j \in DOMAIN accounts : accounts'[j] = IF j = i THEN a ELSE accounts[j]
      BY <2>2 DEF Updated
    <3> QED
      BY <1>0, <3>1 DEF CodesInv
  <2> QED
    BY <2>1, <2>2
<1>3. \A s \in Reqs : req'[s] \in {req[s], NoReq}
  BY DEF Finish, AccountsTypeOK
<1>4. InTime(NoReq.known)
  BY DEF InTime, NoReq, NoMetadata
<1> QED
  BY <1>0, <1>1, <1>2, <1>3, <1>4 DEF CodesInv, CodeAcceptedInTime, InTime, OtpIn

(* Requests that begin with metadata in time.                              *)
LEMMA ArriveInTime ==
  ASSUME AccountsTypeOK, CodesInv, NEW r \in Reqs, NEW call, NEW q, Arrive(r, call, q),
         OtpIn(patched, q.id) \/ InTime(q.known), UNCHANGED <<accounts, patched>>,
         otpAge' <= OtpLife
  PROVE  CodesInv'
<1>1. \A s \in Reqs : req'[s] \in {req[s], q}
  BY DEF Arrive, AccountsTypeOK
<1> QED
  BY <1>1 DEF CodesInv, CodeAcceptedInTime, InTime, OtpIn

(* A code is stored with the expiry of that code, whoever writes it.       *)
LEMMA ContinueInTime ==
  ASSUME AccountsTypeOK, CodesInv, NEW r \in Reqs, Continue(r)
  PROVE  CodesInv'
<1> DEFINE i == req[r].id
           d == accounts[i]
<1>1. /\ ReqOK(req[r])
      /\ i \in DOMAIN accounts => d \in Account /\ (OtpIn(patched, i) \/ InTime(d.metadata))
  BY DEF AccountsTypeOK, CodesInv
<1>0. patched \subseteq patched' /\ \A j : OtpIn(patched, j) => OtpIn(patched', j)
  <2>1. patched \subseteq patched'
    BY DEF Continue, RegisterInsert, LoginSetCode, StorePassword, ProfileWrite, MetadataWrite,
       TelegramWrite, DeleteOne, OtpWrite, ClearOtp
  <2> QED
    BY <2>1 DEF OtpIn
<1>2. CASE LoginSetCode(r)
  <2> DEFINE a == [d EXCEPT !.metadata.myCode = req[r].code]
  <2>1. d \in Account => /\ a.metadata.otpCode = d.metadata.otpCode
                         /\ a.metadata.otpExpiry = d.metadata.otpExpiry
    BY DEF Account, Metadata
  <2> QED
    BY <1>0, <1>1, <1>2, <2>1, WriteInTime DEF LoginSetCode, InTime
<1>3. CASE StorePassword(r)
  <2> DEFINE a == [d EXCEPT !.password = req[r].password]
  <2>1. d \in Account => a.metadata = d.metadata
    BY DEF Account
  <2> QED
    BY <1>0, <1>1, <1>3, <2>1, WriteInTime DEF StorePassword
<1>4. CASE ProfileWrite(r)
  <2> DEFINE a == [d EXCEPT !.email = req[r].email]
  <2>1. d \in Account => a.metadata = d.metadata
    BY DEF Account
  <2> QED
    BY <1>0, <1>1, <1>4, <2>1, WriteInTime DEF ProfileWrite
<1>5. CASE MetadataWrite(r)
  <2> DEFINE a == [d EXCEPT !.metadata[req[r].patch[1]] = req[r].patch[2]]
           k == req[r].patch[1]
  <2>0. /\ accounts' = Updated(i, a) /\ Finish(r) /\ UNCHANGED otpAge
        /\ patched' = patched \cup {<<i, k>>}
    BY <1>5 DEF MetadataWrite
  <2>1. CASE k \in {"otpCode", "otpExpiry"}
    <3>1. <<i, k>> \in patched'
      BY <2>0
    <3>2. OtpIn(patched', i)
      BY <2>1, <3>1 DEF OtpIn
    <3> HIDE DEF a, i
    <3> QED
      BY <1>0, <2>0, <3>2, WriteInTime
  <2>2. CASE k \notin {"otpCode", "otpExpiry"}
    <3>1. d \in Account => /\ a.metadata.otpCode = d.metadata.otpCode
                           /\ a.metadata.otpExpiry = d.metadata.otpExpiry
      BY <2>2 DEF Account, Metadata
    <3>2. i \in DOMAIN accounts => OtpIn(patched', i) \/ InTime(a.metadata)
      BY <1>0, <1>1, <3>1 DEF InTime
    <3> HIDE DEF a, i
    <3> QED
      BY <1>0, <2>0, <3>2, WriteInTime
  <2> QED
    BY <2>1, <2>2
<1>6. CASE TelegramWrite(r)
  <2> DEFINE a == [d EXCEPT !.metadata = req[r].known]
  <2>1. d \in Account => a.metadata = req[r].known
    BY DEF Account
  <2> QED
    BY <1>0, <1>1, <1>6, <2>1, WriteInTime DEF TelegramWrite, CodesInv
<1>7. CASE OtpWrite(r)
  <2> DEFINE a == [d EXCEPT !.metadata.otpCode = req[r].code,
                            !.metadata.otpExpiry = req[r].code.at + OtpLife]
  <2>1. req[r].code \in Code
    BY <1>1, <1>7 DEF OtpWrite, ReqOK
  <2>2. req[r].code.at + OtpLife \in Nat
    BY <2>1, AccountsAssumption DEF Code
  <2>3. d \in Account => /\ a.metadata.otpCode = req[r].code
                         /\ a.metadata.otpExpiry = req[r].code.at + OtpLife
    BY DEF Account, Metadata
  <2>4. d \in Account => InTime(a.metadata)
    BY <2>2, <2>3 DEF InTime
  <2> QED
    BY <1>0, <1>1, <1>7, <2>4, WriteInTime DEF OtpWrite
<1>8. CASE ClearOtp(r)
  <2> DEFINE a == [d EXCEPT !.metadata.otpCode = None, !.metadata.otpExpiry = None,
                            !.metadata.pendingLoginIp = FALSE]
  <2>1. d \in Account => a.metadata.otpCode = None
    BY DEF Account, Metadata
  <2> QED
    BY <1>0, <1>1, <1>8, <2>1, WriteInTime DEF ClearOtp, InTime
<1>9. CASE RegisterInsert(r) \/ DeleteOne(r)
  <2> DEFINE m == [NoMetadata EXCEPT !.myCode = req[r].code]
  <2>1. InTime(m)
    BY DEF InTime, NoMetadata
  <2>2. \A j \in DOMAIN accounts' :
          \/ j \in DOMAIN accounts /\ accounts'[j] = accounts[j]
          \/ accounts'[j].metadata = m
    BY <1>9 DEF RegisterInsert, DeleteOne
  <2>3. \A s \in Reqs : req'[s] \in {req[s], NoReq}
    BY <1>9 DEF RegisterInsert, DeleteOne, Finish, AccountsTypeOK
  <2>4. InTime(NoReq.known)
    BY DEF InTime, NoReq, NoMetadata
  <2>5. otpAge' = otpAge
    BY <1>9 DEF RegisterInsert, DeleteOne
  <2> QED
    BY <1>0, <2>1, <2>2, <2>3, <2>4, <2>5 DEF CodesInv, CodeAcceptedInTime, InTime, OtpIn
<1> QED
  BY <1>2, <1>3, <1>4, <1>5, <1>6, <1>7, <1>8, <1>9 DEF Continue

(* Nothing of the seed is a one-time code.                                *)
LEMMA CodesStart == AccountsInit => CodesInv
<1>1. AccountsInit => \A i \in DOMAIN accounts : InTime(accounts[i].metadata)
  BY AccountsAssumption DEF AccountsInit, InTime
<1>2. AccountsInit => \A r \in Reqs : InTime(req[r].known)
  BY DEF AccountsInit, InTime, NoReq, NoMetadata
<1>3. AccountsInit => CodeAcceptedInTime
  BY AccountsAssumption DEF AccountsInit, CodeAcceptedInTime
<1> QED
  BY <1>1, <1>2, <1>3 DEF CodesInv

(* A stored code and its expiry come from one clock reading.              *)
LEMMA CodesStep == AccountsTypeOK /\ CodesInv /\ [AccountsNext \/ ProcessEnds]_vars => CodesInv'
<1> SUFFICES ASSUME AccountsTypeOK, CodesInv, [AccountsNext \/ ProcessEnds]_vars
             PROVE  CodesInv'
  OBVIOUS
<1>1. ASSUME NEW r \in Reqs, NEW call, NEW q, Arrive(r, call, q), q.known = NoMetadata,
             UNCHANGED <<accounts, patched, otpAge>>
      PROVE  CodesInv'
  <2>1. InTime(NoMetadata)
    BY DEF InTime, NoMetadata
  <2> QED
    BY <1>1, <2>1, ArriveInTime DEF CodesInv, CodeAcceptedInTime
<1>2. ASSUME NEW r \in Reqs, NEW e \in Emails, NEW p \in Passwords, Register(r, e, p)
      PROVE  CodesInv'
  <2> DEFINE q == [NoReq EXCEPT !.pc = "register", !.email = e, !.password = p,
                                !.code = NewCode]
  <2>1. q.known = NoMetadata
    BY DEF NoReq
  <2> QED
    BY <1>1, <1>2, <2>1 DEF Register
<1>3. ASSUME NEW r \in Reqs, NEW i \in DOMAIN accounts, NEW chat \in Chats \cup {None},
             UpdateTelegram(r, i, chat)
      PROVE  CodesInv'
  <2> DEFINE m == [accounts[i].metadata EXCEPT !.telegramChatId = chat]
             q == [NoReq EXCEPT !.pc = "telegram", !.id = i, !.known = m]
  <2>1. accounts[i].metadata \in Metadata /\ (OtpIn(patched, i) \/ InTime(accounts[i].metadata))
    BY DEF AccountsTypeOK, Account, CodesInv
  <2>2. OtpIn(patched, i) \/ InTime(m)
    BY <2>1 DEF Metadata, InTime
  <2>3. q.known = m /\ q.id = i
    BY DEF NoReq
  <2> QED
    BY <1>3, <2>2, <2>3, ArriveInTime DEF UpdateTelegram, CodesInv, CodeAcceptedInTime
<1>4. ASSUME NEW r \in Reqs, NEW i \in DOMAIN accounts, VerifyOtp(r, i)
      PROVE  CodesInv'
  <2> DEFINE q == [NoReq EXCEPT !.pc = "clear", !.id = i]
             m == accounts[i].metadata
  <2>1. q.known = NoMetadata
    BY DEF NoReq
  <2>2. InTime(NoMetadata)
    BY DEF InTime, NoMetadata
  <2>3. m \in Metadata /\ now \in Nat
    BY DEF AccountsTypeOK, Account
  <2>4. m.otpCode # None /\ m.otpExpiry # None /\ now <= m.otpExpiry
    BY <1>4 DEF VerifyOtp
  <2>5. m.otpCode.at \in Nat /\ m.otpExpiry \in Nat
    BY <2>3, <2>4 DEF Metadata, CodeValue, Code, ClientText, Expiry
  <2>6. ~OtpIn(patched, i) => now - m.otpCode.at <= OtpLife
    <3>1. ~OtpIn(patched, i) => m.otpExpiry <= m.otpCode.at + OtpLife
      BY <2>4 DEF CodesInv, InTime
    <3> QED
      BY <2>3, <2>4, <2>5, <3>1, AccountsAssumption
  <2>7. otpAge' <= OtpLife
    BY <1>4, <2>6 DEF VerifyOtp, OtpPatched, OtpIn, CodesInv, CodeAcceptedInTime
  <2> QED
    BY <1>4, <2>1, <2>2, <2>7, ArriveInTime DEF VerifyOtp
<1>5. ASSUME NEW r \in Reqs, NEW i \in DOMAIN accounts,
             \/ \E p \in Passwords : Login(r, i, p) \/ ResetPassword(r, i, p)
             \/ \E old, new \in Passwords : ChangePassword(r, i, old, new)
             \/ \E e \in Emails : UpdateProfile(r, i, e)
             \/ \E patch \in Patches : UpdateMetadata(r, i, patch)
             \/ RequestDelete(r, i)
             \/ ResendOtp(r, i)
      PROVE  CodesInv'
  <2>1. \E call, q : Arrive(r, call, q) /\ q.known = NoMetadata
    <3>1. \A p : [NoReq EXCEPT !.pc = "login", !.id = i, !.code = p].known = NoMetadata
      BY DEF NoReq
    <3>2. \A p : [NoReq EXCEPT !.pc = "hash", !.id = i, !.password = p].known = NoMetadata
      BY DEF NoReq
    <3>3. \A p : [NoReq EXCEPT !.pc = "profile", !.id = i, !.email = p].known = NoMetadata
      BY DEF NoReq
    <3>4. \A p : [NoReq EXCEPT !.pc = "metadata", !.id = i, !.patch = p].known = NoMetadata
      BY DEF NoReq
    <3>5. [NoReq EXCEPT !.pc = "delete", !.id = i].known = NoMetadata
      BY DEF NoReq
    <3>6. \A p : [NoReq EXCEPT !.pc = "otp", !.id = i, !.code = p].known = NoMetadata
      BY DEF NoReq
    <3> QED
      BY <1>5, <3>1, <3>2, <3>3, <3>4, <3>5, <3>6, Zenon DEF Login, ResetPassword,
         ChangePassword, UpdateProfile, UpdateMetadata, RequestDelete, ResendOtp
  <2>2. UNCHANGED <<accounts, patched, otpAge>>
    BY <1>5 DEF Login, ResetPassword, ChangePassword, UpdateProfile, UpdateMetadata,
       RequestDelete, ResendOtp
  <2> QED
    BY <1>1, <2>1, <2>2
<1>6. ASSUME NEW r \in Reqs, Call(r)
      PROVE  CodesInv'
  BY <1>2, <1>3, <1>4, <1>5, <1>6 DEF Call
<1>7. ASSUME NEW i \in DOMAIN accounts, HandleVerify(i)
      PROVE  CodesInv'
  <2> DEFINE a == [accounts[i] EXCEPT !.isVerified = TRUE]
  <2>1. a.metadata = accounts[i].metadata
    BY DEF AccountsTypeOK, Account
  <2>2. /\ DOMAIN accounts' = DOMAIN accounts /\ UNCHANGED <<req, patched, otpAge>>
        /\ \A j \in DOMAIN accounts : accounts'[j].metadata = accounts[j].metadata
    BY <1>7, <2>1 DEF HandleVerify, Updated
  <2> QED
    BY <2>2 DEF CodesInv, CodeAcceptedInTime, InTime, OtpIn
<1>8. CASE Tick \/ UNCHANGED vars
  BY <1>8 DEF Tick, vars, CodesInv, CodeAcceptedInTime, InTime, OtpIn
<1>9. CASE ProcessEnds
  <2>1. InTime(NoReq.known)
    BY DEF InTime, NoReq, NoMetadata
  <2> QED
    BY <1>9, <2>1 DEF ProcessEnds, CodesInv, CodeAcceptedInTime, InTime, OtpIn
<1> QED
  BY <1>6, <1>7, <1>8, <1>9, ContinueInTime DEF AccountsNext

(* However many resends, verifications and writes of old metadata race, no *)
(* code is accepted later than OtpLife after it was made, for an account   *)
(* whose code and expiry no client wrote.                                  *)
THEOREM CodesExpire == AuthSpec => []CodeAcceptedInTime
<1>1. AuthInit => AccountsInv /\ CodesInv
  BY AccountsStart, CodesStart DEF AuthInit
<1>2. AccountsInv /\ CodesInv /\ [AuthNext]_<<vars, qrVars>> => (AccountsInv /\ CodesInv)'
  BY AccountsStep, CodesStep DEF AuthNext, vars, qrVars, AccountsInv
<1>3. CodesInv => CodeAcceptedInTime
  BY DEF CodesInv
<1> QED
  BY <1>1, <1>2, <1>3, PTL DEF AuthSpec

-----------------------------------------------------------------------------
(* QR sessions.                                                            *)

DeviceState == [session : SessionIds \cup {None}, expiresAt : Nat,
                token : Ids \cup {None}, at : Nat]

(* What a device shows was created, with the time the device was told; the *)
(* token of a session is that of somebody who was answered yes.            *)
QrInv ==
  /\ QrTypeOK
  /\ \A s \in DOMAIN sessions : sessions[s].token # None =>
       sessions[s].token \in accepted[s]
  /\ \A d \in Devices : device[d].session # None =>
       /\ device[d].session \in 1 .. made
       /\ device[d].session \in DOMAIN sessions =>
            sessions[device[d].session].expiresAt = device[d].expiresAt
  /\ TokenWithinPromise

(* No session, no token, nobody in flight.                                *)
LEMMA QrStarts == QrInit => QrInv
<1> SUFFICES ASSUME QrInit
             PROVE  QrInv
  OBVIOUS
<1>1. None \notin Ids \cup SessionIds /\ MaxSessions \in Nat
  BY NoneIsNoId, QrAssumption DEF SessionIds
<1>2. Blank \in DeviceState /\ Blank.session = None /\ Blank.token = None
  BY <1>1 DEF Blank, DeviceState
<1>3. QrTypeOK
  BY <1>1, <1>2 DEF QrInit, QrTypeOK, DeviceState
<1> QED
  BY <1>2, <1>3 DEF QrInit, QrInv, TokenWithinPromise

(* A device that changes what it shows, and nothing else.                  *)
LEMMA DeviceKeeps ==
  ASSUME QrInv, NEW d \in Devices, NEW shown \in DeviceState,
         device' = [device EXCEPT ![d] = shown],
         UNCHANGED <<sessions, made, confirming, accepted>>,
         shown.session # None =>
           /\ shown.session \in 1 .. made
           /\ shown.session \in DOMAIN sessions =>
                sessions[shown.session].expiresAt = shown.expiresAt,
         shown.token # None =>
           /\ shown.at <= shown.expiresAt
           /\ shown.session # None
           /\ shown.token \in accepted[shown.session]
  PROVE  QrInv'
<1>1. device \in [Devices -> DeviceState]
  BY DEF QrInv, QrTypeOK, DeviceState
<1>2. device' \in [Devices -> DeviceState]
      /\ \A e \in Devices : device'[e] = IF e = d THEN shown ELSE device[e]
  BY <1>1
<1>3. QrTypeOK'
  BY <1>2 DEF QrInv, QrTypeOK, DeviceState
<1> QED
  BY <1>2, <1>3 DEF QrInv, TokenWithinPromise

(* Each step of a device, a confirmation or the TTL index.                 *)
LEMMA QrStep ==
  ASSUME AccountsTypeOK, QrInv, QrNext, UNCHANGED vars
  PROVE  QrInv'
<1>1. /\ None \notin Nat /\ None \notin Ids /\ now \in Nat /\ Life \in Nat
      /\ made \in 0 .. MaxSessions /\ MaxSessions \in Nat
      /\ DOMAIN accounts \subseteq Ids
      /\ device \in [Devices -> DeviceState]
  BY NoneIsNoId, QrAssumption DEF AccountsTypeOK, QrInv, QrTypeOK, DeviceState
<1>2. Blank \in DeviceState /\ Blank.session = None /\ Blank.token = None
  BY DEF Blank, DeviceState
<1>3. ASSUME NEW d \in Devices, GenerateQrSession(d)
      PROVE  QrInv'
  <2> DEFINE s == made + 1
             new == [status |-> "pending", token |-> None, expiresAt |-> now + Life]
             shown == [Blank EXCEPT !.session = s, !.expiresAt = now + Life]
  <2>1. /\ s \in SessionIds /\ made' = s /\ s \notin DOMAIN sessions /\ s # None
        /\ now + Life \in Nat
    BY <1>1, <1>3 DEF GenerateQrSession, SessionIds, QrInv, QrTypeOK
  <2>2. /\ DOMAIN sessions' = DOMAIN sessions \cup {s}
        /\ \A t \in DOMAIN sessions' : sessions'[t] = IF t = s THEN new ELSE sessions[t]
        /\ UNCHANGED <<confirming, accepted>>
    BY <1>3 DEF GenerateQrSession
  <2>3. /\ shown \in DeviceState /\ shown.session = s /\ shown.token = None
        /\ shown.expiresAt = now + Life
    BY <2>1 DEF Blank, DeviceState
  <2>4. device' = [device EXCEPT ![d] = shown]
    BY <1>3 DEF GenerateQrSession
  <2> HIDE DEF shown, s
  <2>5. device' \in [Devices -> DeviceState]
        /\ \A e \in Devices : device'[e] = IF e = d THEN shown ELSE device[e]
    BY <1>1, <2>3, <2>4
  <2>6. new \in QrSession /\ new.status # "confirmed" /\ new.token = None
        /\ new.expiresAt = now + Life
    BY <2>1 DEF QrSession
  <2> HIDE DEF new
  <2>7. QrTypeOK'
    <3>1. made' \in 0 .. MaxSessions /\ DOMAIN sessions' \subseteq 1 .. made'
      BY <1>1, <2>1, <2>2 DEF s, SessionIds, QrInv, QrTypeOK
    <3>2. \A t \in DOMAIN sessions' :
            /\ sessions'[t] \in QrSession
            /\ sessions'[t].status = "confirmed" <=> sessions'[t].token # None
      BY <2>2, <2>6 DEF QrInv, QrTypeOK
    <3> QED
      BY <2>2, <2>5, <3>1, <3>2 DEF QrInv, QrTypeOK, DeviceState
  <2>8. \A t \in DOMAIN sessions' : sessions'[t].token # None =>
          sessions'[t].token \in accepted'[t]
    BY <2>2, <2>6 DEF QrInv
  <2>9. ASSUME NEW e \in Devices, device'[e].session # None
        PROVE  /\ device'[e].session \in 1 .. made'
               /\ device'[e].session \in DOMAIN sessions' =>
                    sessions'[device'[e].session].expiresAt = device'[e].expiresAt
    <3>1. CASE e = d
      BY <1>1, <2>1, <2>2, <2>3, <2>5, <2>6, <3>1 DEF s
    <3>2. CASE e # d
      <4>1. device[e].session \in 1 .. made /\ device'[e] = device[e]
        BY <2>5, <2>9, <3>2 DEF QrInv
      <4>2. device[e].session # s /\ device[e].session \in 1 .. made'
        BY <1>1, <2>1, <4>1 DEF s
      <4> QED
        BY <2>2, <2>9, <4>1, <4>2 DEF QrInv
    <3> QED
      BY <3>1, <3>2
  <2>10. TokenWithinPromise'
    BY <2>2, <2>3, <2>5 DEF QrInv, TokenWithinPromise
  <2> QED
    BY <2>7, <2>8, <2>9, <2>10 DEF QrInv
<1>4. ASSUME NEW d \in Devices, GetQrStatus(d)
      PROVE  QrInv'
  <2> DEFINE s == device[d].session
             shown == [device[d] EXCEPT !.token = sessions[s].token, !.at = now]
  <2>1. UNCHANGED <<sessions, made, confirming, accepted>>
    BY <1>4 DEF GetQrStatus
  <2>2. CASE device' = [device EXCEPT ![d] = Blank]
    BY <1>2, <2>1, <2>2, DeviceKeeps
  <2>3. CASE device' = device
    BY <2>1, <2>3 DEF QrInv, QrTypeOK, TokenWithinPromise
  <2>4. CASE /\ s # None /\ Live(s) /\ sessions[s].status = "confirmed"
             /\ device' = [device EXCEPT ![d].token = sessions[s].token, ![d].at = now]
    <3>1. /\ s \in DOMAIN sessions /\ now <= sessions[s].expiresAt
          /\ sessions[s].expiresAt = device[d].expiresAt /\ s \in 1 .. made
      BY <2>4 DEF Live, QrInv
    <3>2. /\ sessions[s].token \in Ids /\ sessions[s].token \in accepted[s]
      BY <2>4, <3>1 DEF QrInv, QrTypeOK, QrSession
    <3>3. device[d] \in DeviceState
      BY <1>1
    <3>4. /\ shown \in DeviceState /\ shown.session = s /\ shown.token = sessions[s].token
          /\ shown.expiresAt = device[d].expiresAt /\ shown.at = now
      BY <1>1, <3>2, <3>3 DEF DeviceState
    <3>5. device' = [device EXCEPT ![d] = shown]
      BY <1>1, <2>4, <3>3 DEF DeviceState
    <3> HIDE DEF shown
    <3>6. /\ shown.session \in 1 .. made /\ shown.session # None
          /\ sessions[shown.session].expiresAt = shown.expiresAt
          /\ shown.at <= shown.expiresAt
          /\ shown.token \in accepted[shown.session]
      BY <2>4, <3>1, <3>2, <3>4
    <3> QED
      BY <2>1, <3>4, <3>5, <3>6, DeviceKeeps
  <2> QED
    BY <1>4, <2>2, <2>3, <2>4 DEF GetQrStatus
<1>5. ASSUME NEW d \in Devices, SignOut(d)
      PROVE  QrInv'
  BY <1>2, <1>5, DeviceKeeps DEF SignOut
<1>6. ASSUME NEW c \in Confirms, ConfirmWrite(c)
      PROVE  QrInv'
  <2> DEFINE s == confirming[c].session
             a == confirming[c].account
             yes(t) == [sessions[t] EXCEPT !.status = "confirmed", !.token = a]
  <2>1. confirming[c] \in [session : SessionIds, account : Ids]
    BY <1>6 DEF ConfirmWrite, QrInv, QrTypeOK
  <2>2. s \in SessionIds /\ a \in Ids /\ a # None
    BY <1>1, <2>1
  <2>3. /\ DOMAIN sessions' = DOMAIN sessions
        /\ \A t \in DOMAIN sessions : sessions'[t] = IF t = s THEN yes(t) ELSE sessions[t]
        /\ UNCHANGED <<made, device>>
    BY <1>6 DEF ConfirmWrite
  <2>4. \A t \in DOMAIN sessions :
          /\ yes(t) \in QrSession /\ yes(t).status = "confirmed" /\ yes(t).token = a
          /\ yes(t).expiresAt = sessions[t].expiresAt
    BY <2>2 DEF QrInv, QrTypeOK, QrSession
  <2>5. /\ accepted' \in [SessionIds -> SUBSET Ids]
        /\ \A t \in SessionIds : accepted'[t] = IF t = s THEN accepted[t] \cup {a} ELSE accepted[t]
    BY <1>6, <2>2 DEF ConfirmWrite, QrInv, QrTypeOK
  <2>6. confirming' \in [Confirms -> [session : SessionIds, account : Ids] \cup {NoConfirm}]
    BY <1>6 DEF ConfirmWrite, QrInv, QrTypeOK
  <2> HIDE DEF s, a, yes
  <2>7. QrTypeOK'
    BY <2>2, <2>3, <2>4, <2>5, <2>6 DEF QrInv, QrTypeOK
  <2>8. \A t \in DOMAIN sessions' : t \in SessionIds
    BY <1>1, <2>3 DEF QrInv, QrTypeOK, SessionIds
  <2>9. \A t \in DOMAIN sessions' : sessions'[t].token # None =>
          sessions'[t].token \in accepted'[t]
    BY <2>3, <2>4, <2>5, <2>8 DEF QrInv
  <2>10. \A d \in Devices : device[d].session # None =>
           /\ device[d].session \in 1 .. made
           /\ device[d].session \in DOMAIN sessions' =>
                sessions'[device[d].session].expiresAt = device[d].expiresAt
    BY <2>3, <2>4 DEF QrInv
  <2>11. \A d \in Devices : device[d].token # None =>
           device[d].token \in accepted'[device[d].session]
    <3>1. \A d \in Devices : device[d].token # None =>
            device[d].session \in SessionIds /\ device[d].token \in accepted[device[d].session]
      BY <1>1 DEF QrInv, TokenWithinPromise, DeviceState
    <3> QED
      BY <2>5, <3>1
  <2> QED
    BY <2>3, <2>7, <2>9, <2>10, <2>11 DEF QrInv, TokenWithinPromise
<1>7. ASSUME NEW s \in DOMAIN sessions, RemoveExpired(s)
      PROVE  QrInv'
  <2>1. /\ DOMAIN sessions' = DOMAIN sessions \ {s}
        /\ \A t \in DOMAIN sessions' : sessions'[t] = sessions[t]
        /\ UNCHANGED <<made, confirming, device, accepted>>
    BY <1>7 DEF RemoveExpired
  <2>2. QrTypeOK'
    BY <2>1 DEF QrInv, QrTypeOK
  <2> QED
    BY <2>1, <2>2 DEF QrInv, TokenWithinPromise
<1>8. ASSUME NEW s \in DOMAIN sessions, NEW c \in Confirms, NEW a \in DOMAIN accounts,
             ConfirmRead(c, a, s)
      PROVE  QrInv'
  <2>1. s \in SessionIds /\ a \in Ids
    BY <1>1 DEF QrInv, QrTypeOK, SessionIds
  <2>2. confirming' \in [Confirms -> [session : SessionIds, account : Ids] \cup {NoConfirm}]
    BY <1>8, <2>1 DEF ConfirmRead, QrInv, QrTypeOK
  <2>3. UNCHANGED <<sessions, made, device, accepted>>
    BY <1>8 DEF ConfirmRead
  <2>4. QrTypeOK'
    BY <2>2, <2>3 DEF QrInv, QrTypeOK
  <2> QED
    BY <2>3, <2>4 DEF QrInv, TokenWithinPromise
<1> QED
  BY <1>3, <1>4, <1>5, <1>6, <1>7, <1>8 DEF QrNext

(* With any number of devices, confirmations in flight and late removals:  *)
(* no device gets a token later than it was promised, and the token is of  *)
(* somebody whose confirmation of this very session was answered yes.      *)
THEOREM TokensKeepThePromise == AuthSpec => []TokenWithinPromise
<1>1. AuthInit => AccountsInv /\ QrInv
  BY AccountsStart, QrStarts DEF AuthInit
<1>2. AccountsInv /\ QrInv /\ [AuthNext]_<<vars, qrVars>> => (AccountsInv /\ QrInv)'
  <2> SUFFICES ASSUME AccountsInv, QrInv, [AuthNext]_<<vars, qrVars>>
               PROVE  (AccountsInv /\ QrInv)'
    OBVIOUS
  <2>1. AccountsInv'
    BY AccountsStep DEF AuthNext, vars, qrVars
  <2>2. QrInv'
    <3>1. CASE UNCHANGED qrVars
      BY <3>1 DEF qrVars, QrInv, QrTypeOK, TokenWithinPromise
    <3>2. CASE QrNext /\ UNCHANGED vars
      BY <3>2, QrStep DEF AccountsInv
    <3>3. CASE /\ confirming' = [c \in Confirms |-> NoConfirm]
               /\ UNCHANGED <<sessions, made, device, accepted>>
      <4>1. QrTypeOK'
        BY <3>3 DEF QrInv, QrTypeOK
      <4> QED
        BY <3>3, <4>1 DEF QrInv, TokenWithinPromise
    <3> QED
      BY <3>1, <3>2, <3>3 DEF AuthNext, vars, qrVars
  <2> QED
    BY <2>1, <2>2
<1>3. QrInv => TokenWithinPromise
  BY DEF QrInv
<1> QED
  BY <1>1, <1>2, <1>3, PTL DEF AuthSpec

-----------------------------------------------------------------------------
(* Invitation codes.                                                       *)

(* Accounts that came with a code, as only those from before there were    *)
(* codes did not, and whose client did not write another one.              *)
Coded(p, i) ==
  /\ i \in DOMAIN Seed => Seed[i].metadata.myCode # None
  /\ <<i, "myCode">> \notin p

(* A login that is about to set a code is of an account without one, and   *)
(* metadata that update-telegram is about to write back is out of date in  *)
(* other keys only.  Ids are given out in order, so that a new account is  *)
(* none a request in flight means.                                         *)
KeptInv ==
  /\ \E n \in Nat : everMade = 1 .. n
  /\ \A i \in DOMAIN accounts : Coded(patched, i) => accounts[i].metadata.myCode # None
  /\ \A r \in Reqs :
       LET q == req[r]
       IN  /\ q.pc = "login" => ~Coded(patched, q.id)
           /\ (q.pc = "telegram" /\ q.id \in DOMAIN accounts /\ Coded(patched, q.id)) =>
                q.known.myCode = accounts[q.id].metadata.myCode

CodesStay ==
  \A i \in DOMAIN accounts \cap DOMAIN accounts' :
    Coded(patched', i) => accounts'[i].metadata.myCode = accounts[i].metadata.myCode

(* Keys that clients wrote stay written.                                   *)
LEMMA CodedBefore ==
  ASSUME patched \subseteq patched', NEW i, Coded(patched', i)
  PROVE  Coded(patched, i)
  BY DEF Coded

(* Documents come, go and change, but none of those that stay and had a    *)
(* code gets another one.                                                  *)
LEMMA KeptByWrite ==
  ASSUME AccountsTypeOK, KeptInv, CodesStay,
         \A s \in Reqs : req'[s] \in {req[s], NoReq},
         \E n \in Nat : everMade' = 1 .. n, patched \subseteq patched',
         \A i \in DOMAIN accounts' \ DOMAIN accounts :
           accounts'[i].metadata.myCode # None /\ i \notin everMade
  PROVE  KeptInv'
<1>0. \A i : Coded(patched', i) => Coded(patched, i)
  BY CodedBefore
<1>1. \A i \in DOMAIN accounts' : Coded(patched', i) => accounts'[i].metadata.myCode # None
  BY <1>0 DEF KeptInv, CodesStay
<1>2. NoReq.pc = "idle"
  BY DEF NoReq
<1>3. \A s \in Reqs : ReqOK(req[s])
  BY DEF AccountsTypeOK
<1>4. \A s \in Reqs : req[s].pc = "telegram" => req[s].id \in everMade
  BY <1>3 DEF ReqOK
<1>5. ASSUME NEW s \in Reqs
      PROVE  /\ req'[s].pc = "login" => ~Coded(patched', req'[s].id)
             /\ (req'[s].pc = "telegram" /\ req'[s].id \in DOMAIN accounts'
                 /\ Coded(patched', req'[s].id)) =>
                  req'[s].known.myCode = accounts'[req'[s].id].metadata.myCode
  <2>1. CASE req'[s] = NoReq
    BY <1>2, <2>1
  <2>2. CASE req'[s] = req[s]
    <3>1. /\ req[s].pc = "login" => ~Coded(patched, req[s].id)
          /\ (req[s].pc = "telegram" /\ req[s].id \in DOMAIN accounts /\ Coded(patched, req[s].id))
               => req[s].known.myCode = accounts[req[s].id].metadata.myCode
      BY DEF KeptInv
    <3>2. \A i \in DOMAIN accounts' :
            (i \in everMade /\ Coded(patched', i)) =>
              i \in DOMAIN accounts
              /\ accounts'[i].metadata.myCode = accounts[i].metadata.myCode
      BY DEF CodesStay
    <3> QED
      BY <1>0, <1>4, <2>2, <3>1, <3>2
  <2> QED
    BY <2>1, <2>2
<1> QED
  BY <1>1, <1>5 DEF KeptInv

(* A write that leaves the code of its document alone, or gives one to an  *)
(* account that came without.                                              *)
LEMMA KeptByUpdate ==
  ASSUME AccountsTypeOK, KeptInv, NEW r \in Reqs, Finish(r), NEW i, NEW a,
         accounts' = accounts \/ accounts' = Updated(i, a), UNCHANGED everMade,
         patched \subseteq patched',
         (i \in DOMAIN accounts /\ Coded(patched', i)) =>
           a.metadata.myCode = accounts[i].metadata.myCode
  PROVE  KeptInv' /\ CodesStay
<1>1. CodesStay /\ DOMAIN accounts' = DOMAIN accounts
  BY DEF CodesStay, Updated
<1>2. \A s \in Reqs : req'[s] \in {req[s], NoReq}
  BY DEF Finish, AccountsTypeOK
<1>3. \E n \in Nat : everMade' = 1 .. n
  BY DEF KeptInv
<1> QED
  BY <1>1, <1>2, <1>3, KeptByWrite

(* A request that arrives.                                                 *)
LEMMA KeptByArrival ==
  ASSUME AccountsTypeOK, KeptInv, NEW r \in Reqs, NEW call, NEW q, Arrive(r, call, q),
         UNCHANGED <<accounts, everMade, patched>>,
         q.pc = "login" => ~Coded(patched, q.id),
         (q.pc = "telegram" /\ q.id \in DOMAIN accounts /\ Coded(patched, q.id)) =>
           q.known.myCode = accounts[q.id].metadata.myCode
  PROVE  KeptInv' /\ CodesStay
<1>1. \A s \in Reqs : req'[s] \in {req[s], q}
  BY DEF Arrive, AccountsTypeOK
<1> QED
  BY <1>1 DEF KeptInv, CodesStay, Coded

(* Each step a handler goes on with.                                       *)
LEMMA KeptByContinue ==
  ASSUME AccountsTypeOK, KeptInv, NEW r \in Reqs, Continue(r)
  PROVE  KeptInv' /\ CodesStay
<1> DEFINE i == req[r].id
           d == accounts[i]
<1>1. ReqOK(req[r]) /\ (i \in DOMAIN accounts => d \in Account)
  BY DEF AccountsTypeOK
<1>0. patched \subseteq patched'
  BY DEF Continue, RegisterInsert, LoginSetCode, StorePassword, ProfileWrite, MetadataWrite,
     TelegramWrite, DeleteOne, OtpWrite, ClearOtp
<1>2. CASE LoginSetCode(r)
  <2> DEFINE a == [d EXCEPT !.metadata.myCode = req[r].code]
  <2>1. ~Coded(patched, i)
    BY <1>2 DEF LoginSetCode, KeptInv
  <2>2. ~Coded(patched', i)
    BY <1>2, <2>1 DEF LoginSetCode, Coded
  <2>3. accounts' = Updated(i, a) /\ Finish(r) /\ UNCHANGED everMade
    BY <1>2 DEF LoginSetCode
  <2> HIDE DEF a, i
  <2> QED
    BY <1>0, <2>2, <2>3, KeptByUpdate
<1>3. CASE StorePassword(r)
  <2> DEFINE a == [d EXCEPT !.password = req[r].password]
  <2>1. d \in Account => a.metadata = d.metadata
    BY DEF Account
  <2> QED
    BY <1>0, <1>1, <1>3, <2>1, KeptByUpdate, CodedBefore DEF StorePassword
<1>4. CASE ProfileWrite(r)
  <2> DEFINE a == [d EXCEPT !.email = req[r].email]
  <2>1. d \in Account => a.metadata = d.metadata
    BY DEF Account
  <2> QED
    BY <1>0, <1>1, <1>4, <2>1, KeptByUpdate, CodedBefore DEF ProfileWrite
<1>5. CASE MetadataWrite(r)
  <2> DEFINE a == [d EXCEPT !.metadata[req[r].patch[1]] = req[r].patch[2]]
           k == req[r].patch[1]
  <2>1. /\ accounts' = Updated(i, a) /\ Finish(r) /\ UNCHANGED everMade
        /\ patched' = patched \cup {<<i, k>>}
    BY <1>5 DEF MetadataWrite
  <2>2. (i \in DOMAIN accounts /\ k # "myCode") => a.metadata.myCode = d.metadata.myCode
    BY <1>1 DEF Account, Metadata
  <2>3. k = "myCode" => <<i, "myCode">> \in patched'
    BY <2>1
  <2> HIDE DEF a, i, k
  <2>4. k = "myCode" => ~Coded(patched', i)
    BY <2>3 DEF Coded
  <2> QED
    BY <1>0, <2>1, <2>2, <2>4, KeptByUpdate
<1>6. CASE TelegramWrite(r)
  <2> DEFINE a == [d EXCEPT !.metadata = req[r].known]
  <2>1. d \in Account => a.metadata = req[r].known
    BY DEF Account
  <2>2. (i \in DOMAIN accounts /\ Coded(patched, i)) => req[r].known.myCode = d.metadata.myCode
    BY <1>6 DEF TelegramWrite, KeptInv
  <2> QED
    BY <1>0, <1>1, <1>6, <2>1, <2>2, KeptByUpdate, CodedBefore DEF TelegramWrite
<1>7. CASE OtpWrite(r)
  <2> DEFINE a == [d EXCEPT !.metadata.otpCode = req[r].code,
                            !.metadata.otpExpiry = req[r].code.at + OtpLife]
  <2>1. d \in Account => a.metadata.myCode = d.metadata.myCode
    BY DEF Account, Metadata
  <2> QED
    BY <1>0, <1>1, <1>7, <2>1, KeptByUpdate, CodedBefore DEF OtpWrite
<1>8. CASE ClearOtp(r)
  <2> DEFINE a == [d EXCEPT !.metadata.otpCode = None, !.metadata.otpExpiry = None,
                            !.metadata.pendingLoginIp = FALSE]
  <2>1. d \in Account => a.metadata.myCode = d.metadata.myCode
    BY DEF Account, Metadata
  <2> QED
    BY <1>0, <1>1, <1>8, <2>1, KeptByUpdate, CodedBefore DEF ClearOtp
<1>9. CASE DeleteOne(r)
  <2>1. /\ DOMAIN accounts' \subseteq DOMAIN accounts
        /\ \A j \in DOMAIN accounts' : accounts'[j] = accounts[j]
        /\ everMade' = everMade
    BY <1>9 DEF DeleteOne
  <2>2. CodesStay
    BY <2>1 DEF CodesStay
  <2>3. \A s \in Reqs : req'[s] \in {req[s], NoReq}
    BY <1>9 DEF DeleteOne, Finish, AccountsTypeOK
  <2>4. \E n \in Nat : everMade' = 1 .. n
    BY <2>1 DEF KeptInv
  <2> QED
    BY <1>0, <2>1, <2>2, <2>3, <2>4, KeptByWrite
<1>10. CASE RegisterInsert(r)
  <2> DEFINE j == Cardinality(everMade) + 1
             m == [NoMetadata EXCEPT !.myCode = req[r].code]
             a == [email |-> req[r].email, password |-> req[r].password, admin |-> FALSE,
                   isVerified |-> FALSE, metadata |-> m]
  <2>1. PICK n \in Nat : everMade = 1 .. n
    BY DEF KeptInv
  <2>2. j = n + 1
    <3>1. 1 \in Int /\ n \in Int
      OBVIOUS
    <3>2. Cardinality(1 .. n) = IF 1 > n THEN 0 ELSE n - 1 + 1
      BY ONLY <3>1, FS_Interval
    <3> QED
      BY <2>1, <3>2
  <2>3. j \notin everMade /\ everMade \cup {j} = 1 .. n + 1 /\ n + 1 \in Nat
    BY <2>1, <2>2
  <2>4. req[r].code # None
    BY <1>1, <1>10, AccountsAssumption DEF RegisterInsert, ReqOK
  <2>5. a.metadata.myCode # None
    BY <2>4 DEF NoMetadata
  <2> HIDE DEF a, j
  <2>6. \A s \in Reqs : req'[s] \in {req[s], NoReq}
    BY <1>10 DEF RegisterInsert, Finish, AccountsTypeOK
  <2>7. CASE UNCHANGED <<accounts, everMade>>
    <3>1. CodesStay
      BY <2>7 DEF CodesStay
    <3> QED
      BY <1>0, <2>1, <2>6, <2>7, <3>1, KeptByWrite
  <2>8. CASE /\ everMade' = everMade \cup {j}
             /\ accounts' = [k \in DOMAIN accounts \cup {j} |->
                               IF k = j THEN a ELSE accounts[k]]
    <3>1. DOMAIN accounts' = DOMAIN accounts \cup {j}
          /\ \A k \in DOMAIN accounts' : accounts'[k] = IF k = j THEN a ELSE accounts[k]
      BY <2>8
    <3>2. j \notin DOMAIN accounts
      BY <2>3 DEF AccountsTypeOK
    <3>3. CodesStay
      BY <3>1, <3>2 DEF CodesStay
    <3>4. \A k \in DOMAIN accounts' \ DOMAIN accounts :
            accounts'[k].metadata.myCode # None /\ k \notin everMade
      BY <2>3, <2>5, <3>1
    <3>5. \E l \in Nat : everMade' = 1 .. l
      BY <2>3, <2>8
    <3> QED
      BY <1>0, <2>6, <3>3, <3>4, <3>5, KeptByWrite
  <2> QED
    BY <1>10, <2>7, <2>8 DEF RegisterInsert, j, a
<1> QED
  BY <1>2, <1>3, <1>4, <1>5, <1>6, <1>7, <1>8, <1>9, <1>10 DEF Continue

(* Calls: a login of an account without a code, metadata as it is now, and *)
(* others that have nothing to do with either.                             *)
LEMMA KeptByCall ==
  ASSUME AccountsTypeOK, KeptInv, NEW r \in Reqs, Call(r)
  PROVE  KeptInv' /\ CodesStay
<1>1. ASSUME NEW call, NEW q, Arrive(r, call, q), q.pc \notin {"login", "telegram"},
             UNCHANGED <<accounts, everMade, patched>>
      PROVE  KeptInv' /\ CodesStay
  BY <1>1, KeptByArrival
<1>2. ASSUME NEW i \in DOMAIN accounts, NEW p \in Passwords, Login(r, i, p)
      PROVE  KeptInv' /\ CodesStay
  <2> DEFINE q == [NoReq EXCEPT !.pc = "login", !.id = i, !.code = NewCode]
  <2>1. q.pc = "login" /\ q.id = i
    BY DEF NoReq
  <2>2. ~Coded(patched, i)
    BY <1>2 DEF Login, KeptInv
  <2> QED
    BY <1>2, <2>1, <2>2, KeptByArrival DEF Login
<1>3. ASSUME NEW i \in DOMAIN accounts, NEW chat \in Chats \cup {None},
             UpdateTelegram(r, i, chat)
      PROVE  KeptInv' /\ CodesStay
  <2> DEFINE m == [accounts[i].metadata EXCEPT !.telegramChatId = chat]
             q == [NoReq EXCEPT !.pc = "telegram", !.id = i, !.known = m]
  <2>1. accounts[i].metadata \in Metadata
    BY DEF AccountsTypeOK, Account
  <2>2. m.myCode = accounts[i].metadata.myCode
    BY <2>1 DEF Metadata
  <2>3. q.pc = "telegram" /\ q.id = i /\ q.known = m
    BY DEF NoReq
  <2> QED
    BY <1>3, <2>2, <2>3, KeptByArrival DEF UpdateTelegram
<1>4. ASSUME \/ \E e \in Emails, p \in Passwords : Register(r, e, p)
             \/ \E i \in DOMAIN accounts :
                  \/ \E p \in Passwords : ResetPassword(r, i, p)
                  \/ \E old, new \in Passwords : ChangePassword(r, i, old, new)
                  \/ \E e \in Emails : UpdateProfile(r, i, e)
                  \/ \E patch \in Patches : UpdateMetadata(r, i, patch)
                  \/ RequestDelete(r, i)
                  \/ ResendOtp(r, i)
                  \/ VerifyOtp(r, i)
      PROVE  KeptInv' /\ CodesStay
  <2>1. \E call, q : Arrive(r, call, q) /\ q.pc \notin {"login", "telegram"}
    <3>1. \A e, p, n : [NoReq EXCEPT !.pc = "register", !.email = e, !.password = p,
                                     !.code = n].pc \notin {"login", "telegram"}
      BY DEF NoReq
    <3>2. \A i, p : [NoReq EXCEPT !.pc = "hash", !.id = i, !.password = p].pc
                      \notin {"login", "telegram"}
      BY DEF NoReq
    <3>3. \A i, p : [NoReq EXCEPT !.pc = "profile", !.id = i, !.email = p].pc
                      \notin {"login", "telegram"}
      BY DEF NoReq
    <3>4. \A i, p : [NoReq EXCEPT !.pc = "metadata", !.id = i, !.patch = p].pc
                      \notin {"login", "telegram"}
      BY DEF NoReq
    <3>5. \A i : [NoReq EXCEPT !.pc = "delete", !.id = i].pc \notin {"login", "telegram"}
      BY DEF NoReq
    <3>6. \A i, p : [NoReq EXCEPT !.pc = "otp", !.id = i, !.code = p].pc
                      \notin {"login", "telegram"}
      BY DEF NoReq
    <3>7. \A i : [NoReq EXCEPT !.pc = "clear", !.id = i].pc \notin {"login", "telegram"}
      BY DEF NoReq
    <3> QED
      BY <1>4, <3>1, <3>2, <3>3, <3>4, <3>5, <3>6, <3>7, Zenon DEF Register, ResetPassword,
         ChangePassword, UpdateProfile, UpdateMetadata, RequestDelete, ResendOtp, VerifyOtp
  <2>2. UNCHANGED <<accounts, everMade, patched>>
    BY <1>4 DEF Register, ResetPassword, ChangePassword, UpdateProfile, UpdateMetadata,
       RequestDelete, ResendOtp, VerifyOtp
  <2> QED
    BY <1>1, <2>1, <2>2
<1> QED
  BY <1>2, <1>3, <1>4 DEF Call

(* Every step of the accounts.                                             *)
LEMMA KeptStep ==
  ASSUME AccountsTypeOK, KeptInv, [AccountsNext \/ ProcessEnds]_vars
  PROVE  KeptInv' /\ CodesStay
<1>1. ASSUME NEW i \in DOMAIN accounts, HandleVerify(i)
      PROVE  KeptInv' /\ CodesStay
  <2> DEFINE a == [accounts[i] EXCEPT !.isVerified = TRUE]
  <2>1. a.metadata = accounts[i].metadata
    BY DEF AccountsTypeOK, Account
  <2>2. /\ DOMAIN accounts' = DOMAIN accounts /\ UNCHANGED <<req, everMade, patched>>
        /\ \A j \in DOMAIN accounts : accounts'[j].metadata = accounts[j].metadata
    BY <1>1, <2>1 DEF HandleVerify, Updated
  <2>3. CodesStay
    BY <2>2 DEF CodesStay
  <2>4. \E n \in Nat : everMade' = 1 .. n
    BY <2>2 DEF KeptInv
  <2> QED
    BY <2>2, <2>3, <2>4, KeptByWrite
<1>2. CASE Tick \/ UNCHANGED vars
  BY <1>2 DEF Tick, vars, KeptInv, CodesStay, Coded
<1>3. CASE ProcessEnds
  <2>1. CodesStay /\ \E n \in Nat : everMade' = 1 .. n
    BY <1>3 DEF ProcessEnds, CodesStay, KeptInv
  <2> QED
    BY <1>3, <2>1, KeptByWrite DEF ProcessEnds
<1> QED
  BY <1>1, <1>2, <1>3, KeptByCall, KeptByContinue DEF AccountsNext

(* Nobody is on the way yet.                                               *)
LEMMA KeptStart == AccountsInit => KeptInv
<1>1. Cardinality(DOMAIN Seed) \in Nat
  <2>1. MaxId \in Int /\ DOMAIN Seed \subseteq Ids
    BY AccountsAssumption
  <2>2. IsFiniteSet(Ids)
    BY <2>1, FS_Interval DEF Ids
  <2> QED
    BY <2>1, <2>2, FS_Subset, FS_CardinalityType
<1>2. DOMAIN Seed = 1 .. Cardinality(DOMAIN Seed)
  BY AccountsAssumption
<1> QED
  BY <1>1, <1>2 DEF AccountsInit, KeptInv, Coded, NoReq

(* Old metadata that is written back, two logins at once, or any other     *)
(* race never changes the invitation code of an account that came with one *)
(* and whose client never wrote one.                                       *)
THEOREM CodesAreKept == AuthSpec => InvitationCodeKept
<1>1. AuthInit => AccountsInv /\ KeptInv
  BY AccountsStart, KeptStart DEF AuthInit
<1>2. AccountsInv /\ KeptInv /\ [AuthNext]_<<vars, qrVars>>
        => (AccountsInv /\ KeptInv)' /\ [CodesStay]_vars
  BY AccountsStep, KeptStep DEF AuthNext, vars, qrVars, AccountsInv
<1> QED
  BY <1>1, <1>2, PTL DEF AuthSpec, InvitationCodeKept, CodesStay, Coded
=============================================================================
