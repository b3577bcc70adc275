------------------------------ MODULE MCAccounts ------------------------------
(***************************************************************************)
(* Accounts and QR logins: an account from before there were invitation    *)
(* codes, one that registered, and an administrator who signs in.          *)
(***************************************************************************)
EXTENDS QrLogin, TLC

SeedDef ==
  LET doc(e, admin, code, pending) ==
        [email |-> e, password |-> "p1", admin |-> admin, isVerified |-> FALSE,
         metadata |-> [NoMetadata EXCEPT !.myCode = code, !.pendingLoginIp = pending]]
  IN  1 :> doc("e1", FALSE, None, FALSE)
      @@ 2 :> doc("e2", TRUE, [n |-> 2, at |-> 0], TRUE)

ScenariosDef ==
  { {"register", "updateProfile", "delete"},
    {"register", "verify"},
    {"changePassword", "resetPassword", "login", "delete"},
    {"login", "updateMetadata"},
    {"login", "updateTelegram"},
    {"updateMetadata", "updateTelegram"},
    {"updateMetadata", "otp"},
    {"updateTelegram", "otp"},
    {"qr", "delete"} }

(* A date after every code's, and an invitation code of the client's own.  *)
PatchesDef ==
  {<<"pendingLoginIp", TRUE>>, <<"otpExpiry", MaxTime>>, <<"myCode", ClientText>>}

(* Clients write two keys at most.                                         *)
MCAuthSpec ==
  /\ AuthInit
  /\ [][AuthNext /\ Cardinality(patched') <= 2]_<<vars, qrVars>>
  /\ AuthFairness
==============================================================================
