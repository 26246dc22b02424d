----------------------------- MODULE AccountsProofs -----------------------------
(***************************************************************************)
(* Theorems about Accounts, for any number of handlers, sessions, attempts *)
(* and codes.  The invariant behind them says what a handler still knows   *)
(* after its awaits (CallOK): the code it compared belongs to the record   *)
(* it kept, accounts it found do not go away, and a session that was ended *)
(* when its request came in is ended still.                                *)
(***************************************************************************)
EXTENDS Accounts, TLAPS

\* What a handler with the state r may rely on.
CallOK(r) ==
    /\ r.stage \in {"storeCode", "countAttempt", "findUser", "createUser"} =>
          r.record \in Records
    /\ r.stage = "countAttempt" => r.record.attempts < OTP_MAX_ATTEMPTS
    /\ r.stage \in {"findUser", "createUser"} => r.code = r.record.code
    /\ r.stage \in {"setPassword", "promote", "ensureWallet"} => user # NoUser
    /\ r.stage \in {"refreshUser", "rotate", "validate", "letIn"} => r.session \in Sessions
    /\ r.late => r.stage = "validate" /\ session[r.session] = "revoked"

CallsOK == \A c \in Calls : CallOK(call[c])

Rows == {"none", "alive", "expired", "revoked"}

Inv == TypeOK /\ CallsOK /\ WalletWithAccount

-----------------------------------------------------------------------------
(* How a step changes the handlers *)

\* Nothing a handler relies on is taken from it by others.
Keeps ==
    /\ user # NoUser => user' # NoUser
    /\ \A s \in Sessions : session[s] = "revoked" => session'[s] = "revoked"

LEMMA OthersKeep ==
    ASSUME TypeOK, CallsOK, Keeps, NEW c \in Calls,
           call' \in [Calls -> CallRecords], \A d \in Calls \ {c} : call'[d] = call[d],
           CallOK(call[c])'
    PROVE  CallsOK'
<1> SUFFICES ASSUME NEW d \in Calls PROVE CallOK(call[d])'
  BY DEF CallsOK
<1>1. CASE d = c
  BY <1>1
<1>2. CASE d # c
  <2>1. CallOK(call[d]) /\ call'[d] = call[d]
    BY <1>2 DEF CallsOK
  <2>2. QED
    BY <2>1 DEF CallOK, Keeps
<1>3. QED
  BY <1>1, <1>2

LEMMA Idle == NoCall \in CallRecords /\ CallOK(NoCall)
BY AttemptsAssumption DEF NoCall, SessionCall, CallRecords, Stages, Kinds, NoRecord, CallOK

LEMMA Starts ==
    ASSUME TypeOK, NEW c \in Calls, NEW r \in CallRecords, Start(c, r)
    PROVE  /\ call' \in [Calls -> CallRecords] /\ call'[c] = r
           /\ \A d \in Calls \ {c} : call'[d] = call[d]
BY DEF TypeOK, Start

LEMMA GoesOn ==
    ASSUME TypeOK, NEW c \in Calls, NEW from, NEW to \in Stages, Goes(c, from, to)
    PROVE  /\ call[c].stage = from
           /\ call' \in [Calls -> CallRecords]
           /\ call'[c] = [stage |-> to, kind |-> call[c].kind, code |-> call[c].code,
                          record |-> call[c].record, session |-> call[c].session,
                          late |-> call[c].late]
           /\ \A d \in Calls \ {c} : call'[d] = call[d]
BY DEF TypeOK, Goes, CallRecords

LEMMA Stops ==
    ASSUME TypeOK, NEW c \in Calls, call' = [call EXCEPT ![c] = NoCall]
    PROVE  /\ call' \in [Calls -> CallRecords] /\ call'[c] = NoCall
           /\ \A d \in Calls \ {c} : call'[d] = call[d]
BY Idle DEF TypeOK

\* The end of a handler leaves nothing to rely on.
LEMMA StopsOK ==
    ASSUME TypeOK, CallsOK, Keeps, NEW c \in Calls, call' = [call EXCEPT ![c] = NoCall]
    PROVE  call' \in [Calls -> CallRecords] /\ CallsOK'
<1>1. CallOK(call[c])'
  BY Stops DEF CallOK, NoCall, SessionCall
<1>2. QED
  BY <1>1, Stops, OthersKeep

\* A step that only begins a handler, or moves it on.
LEMMA StartsOK ==
    ASSUME Inv, NEW c \in Calls, NEW r \in CallRecords, Start(c, r), CallOK(r),
           UNCHANGED <<otpEnabled, user, wallet, pending, session>>, codes' \in 0 .. MaxCodes
    PROVE  Inv'
<1>1. /\ call' \in [Calls -> CallRecords] /\ call'[c] = r
      /\ \A d \in Calls \ {c} : call'[d] = call[d]
  BY Starts DEF Inv
<1>2. CallOK(call[c])' /\ Keeps
  BY <1>1 DEF CallOK, Keeps
<1>3. CallsOK'
  BY <1>1, <1>2, OthersKeep DEF Inv
<1>4. QED
  BY <1>1, <1>3 DEF Inv, TypeOK, WalletWithAccount

Moved(r, to) == [stage |-> to, kind |-> r.kind, code |-> r.code, record |-> r.record,
                 session |-> r.session, late |-> r.late]

LEMMA GoesOnOK ==
    ASSUME Inv, NEW c \in Calls, NEW from, NEW to \in Stages, Goes(c, from, to),
           CallOK(Moved(call[c], to)),
           UNCHANGED <<otpEnabled, user, wallet, pending, session, codes>>
    PROVE  Inv'
<1>1. /\ call' \in [Calls -> CallRecords] /\ call'[c] = Moved(call[c], to)
      /\ \A d \in Calls \ {c} : call'[d] = call[d]
  BY GoesOn DEF Inv, Moved
<1>2. CallOK(call[c])' /\ Keeps
  BY <1>1 DEF CallOK, Keeps, Moved
<1>3. CallsOK'
  BY <1>1, <1>2, OthersKeep DEF Inv
<1>4. QED
  BY <1>1, <1>3 DEF Inv, TypeOK, WalletWithAccount

-----------------------------------------------------------------------------
(* One lemma for each group of actions *)

LEMMA RequestInv ==
    ASSUME Inv, NEW c \in Calls, NEW kind \in Kinds, NEW next \in {"storeCode", "createUser"},
           request(c, kind, next)
    PROVE  Inv'
<1> DEFINE r == CodeCall(next, kind, codes', [code |-> codes', attempts |-> 0])
<1>1. codes' \in 1 .. MaxCodes
  BY AttemptsAssumption DEF Inv, TypeOK, request
<1>2. [code |-> codes', attempts |-> 0] \in Records
  BY <1>1, AttemptsAssumption DEF Records
<1>3. r \in CallRecords /\ CallOK(r)
  BY <1>1, <1>2, AttemptsAssumption DEF CodeCall, CallRecords, Stages, CallOK
<1>4. QED
  BY <1>1, <1>3, StartsOK DEF request

LEMMA EnterCodeInv ==
    ASSUME Inv, NEW c \in Calls, NEW kind \in Kinds, NEW code \in 0 .. codes,
           enterCode(c, kind, code)
    PROVE  Inv'
<1> DEFINE next == IF tooMany(pending[kind]) THEN "deleteCode"
                   ELSE IF code # pending[kind].code THEN "countAttempt" ELSE "findUser"
           r == CodeCall(next, kind, code, pending[kind])
<1>1. pending[kind] \in Records /\ code \in 0 .. MaxCodes
  BY AttemptsAssumption DEF Inv, TypeOK, enterCode
<1>2. r \in CallRecords
  BY <1>1 DEF CodeCall, CallRecords, Stages
<1>3. CallOK(r)
  <2>1. next = "countAttempt" => pending[kind].attempts < OTP_MAX_ATTEMPTS
    BY <1>1, AttemptsAssumption DEF tooMany, Records
  <2>2. next = "findUser" => code = pending[kind].code
    OBVIOUS
  <2>3. QED
    BY <1>1, <2>1, <2>2 DEF CodeCall, CallOK
<1>4. QED
  BY <1>2, <1>3, StartsOK DEF enterCode, Inv, TypeOK

LEMMA PendingInv ==
    ASSUME Inv, NEW kind \in Kinds, NEW r \in Records \cup {NoRecord},
           pending' = [pending EXCEPT ![kind] = r], call' \in [Calls -> CallRecords], CallsOK',
           UNCHANGED <<otpEnabled, user, wallet, session, codes>>
    PROVE  Inv'
BY DEF Inv, TypeOK, WalletWithAccount

LEMMA StoreCodeInv ==
    ASSUME Inv, NEW c \in Calls, storeCode(c)
    PROVE  Inv'
<1>1. call[c].kind \in Kinds /\ call[c].record \in Records
  BY DEF Inv, TypeOK, CallRecords, CallsOK, CallOK, storeCode, Ends
<1>2. Keeps
  BY DEF Keeps, storeCode
<1>3. call' \in [Calls -> CallRecords] /\ CallsOK'
  BY <1>2, StopsOK DEF storeCode, Ends, Inv
<1>4. QED
  BY <1>1, <1>3, PendingInv DEF storeCode

LEMMA CountAttemptInv ==
    ASSUME Inv, NEW c \in Calls, countAttempt(c)
    PROVE  Inv'
<1> DEFINE r == [code |-> call[c].record.code, attempts |-> call[c].record.attempts + 1]
<1>1. /\ call[c].kind \in Kinds /\ call[c].record \in Records
      /\ call[c].record.attempts < OTP_MAX_ATTEMPTS
  BY DEF Inv, TypeOK, CallRecords, CallsOK, CallOK, countAttempt, Ends
<1>2. r \in Records
  BY <1>1, AttemptsAssumption DEF Records
<1>3. Keeps
  BY DEF Keeps, countAttempt
<1>4. call' \in [Calls -> CallRecords] /\ CallsOK'
  BY <1>3, StopsOK DEF countAttempt, Ends, Inv
<1>5. QED
  BY <1>1, <1>2, <1>4, PendingInv DEF countAttempt

LEMMA FindUserInv ==
    ASSUME Inv, NEW c \in Calls, findUser(c)
    PROVE  Inv'
<1> DEFINE to == IF (call[c].kind = "signup") # (user = NoUser) THEN "deleteCode"
                 ELSE IF call[c].kind = "signup" THEN "createUser" ELSE "setPassword"
<1>1. call[c].stage = "findUser" /\ call[c] \in CallRecords /\ CallOK(call[c])
  BY DEF Inv, TypeOK, CallsOK, findUser, Goes
<1>2. to \in Stages
  BY DEF Stages
<1>3. to = "setPassword" => user # NoUser
  BY <1>1 DEF CallRecords, Kinds
<1>4. CallOK(Moved(call[c], to))
  BY <1>1, <1>3 DEF CallOK, Moved, CallRecords
<1>5. QED
  BY <1>2, <1>4, GoesOnOK DEF findUser

LEMMA DeleteCodeInv ==
    ASSUME Inv, NEW c \in Calls, deleteCode(c)
    PROVE  Inv'
<1>1. call[c].kind \in Kinds
  BY DEF Inv, TypeOK, CallRecords
<1>2. Keeps
  BY DEF Keeps, deleteCode
<1>3. call' \in [Calls -> CallRecords] /\ CallsOK'
  <2>1. CASE Ends(c, "deleteCode")
    BY <1>2, <2>1, StopsOK DEF Ends, Inv
  <2>2. CASE Goes(c, "deleteCodeAndLogin", "createSession")
    <3>1. "createSession" \in Stages /\ CallOK(call[c])
      BY DEF Stages, Inv, CallsOK
    <3>2. /\ call[c].stage = "deleteCodeAndLogin"
          /\ call' \in [Calls -> CallRecords] /\ call'[c] = Moved(call[c], "createSession")
          /\ \A d \in Calls \ {c} : call'[d] = call[d]
      BY <2>2, <3>1, GoesOn DEF Inv, Moved
    <3>3. CallOK(call[c])'
      BY <3>1, <3>2 DEF CallOK, Moved
    <3>4. QED
      BY <1>2, <3>2, <3>3, OthersKeep DEF Inv
  <2>3. QED
    BY <2>1, <2>2 DEF deleteCode
<1>4. QED
  BY <1>1, <1>3, PendingInv DEF deleteCode

\* The account appears, or its password or status changes.
LEMMA UserInv ==
    ASSUME Inv, NEW c \in Calls, NEW to \in Stages \ {"createUser", "findUser", "storeCode",
                                                     "countAttempt"},
           \/ call' = [call EXCEPT ![c] = NoCall]
           \/ \E from : Goes(c, from, to) /\ CallOK(Moved(call[c], to)),
           user' \in Users, wallet' = TRUE, session' \in [Sessions -> Rows],
           \A s \in Sessions : session[s] = "revoked" => session'[s] = "revoked",
           UNCHANGED <<otpEnabled, pending, codes>>
    PROVE  Inv'
<1>1. Keeps /\ user' # NoUser
  BY DEF Keeps, Users, NoUser
<1>2. call' \in [Calls -> CallRecords] /\ CallsOK'
  <2>1. CASE call' = [call EXCEPT ![c] = NoCall]
    BY <1>1, <2>1, StopsOK DEF Inv
  <2>2. CASE \E from : Goes(c, from, to) /\ CallOK(Moved(call[c], to))
    <3>1. /\ call' \in [Calls -> CallRecords] /\ call'[c] = Moved(call[c], to)
          /\ \A d \in Calls \ {c} : call'[d] = call[d]
      BY <2>2, GoesOn DEF Inv, Moved
    <3>2. CallOK(Moved(call[c], to))
      BY <2>2
    <3>3. CallOK(call[c])'
      BY <1>1, <3>1, <3>2 DEF CallOK, Moved, Keeps
    <3>4. QED
      BY <1>1, <3>1, <3>3, OthersKeep DEF Inv
  <2>3. QED
    BY <2>1, <2>2
<1>3. QED
  BY <1>2 DEF Inv, TypeOK, WalletWithAccount, Rows

LEMMA CreateUserInv ==
    ASSUME Inv, NEW c \in Calls, createUser(c)
    PROVE  Inv'
<1> DEFINE to == IF otpEnabled THEN "deleteCodeAndLogin" ELSE "createSession"
<1>1. call[c].stage = "createUser" /\ CallOK(call[c])
  BY DEF Inv, CallsOK, createUser, Goes
<1>2. call[c].record \in Records /\ CallOK(Moved(call[c], to))
  BY <1>1 DEF CallOK, Moved
<1>3. user' \in Users /\ wallet' = TRUE /\ Goes(c, "createUser", to)
  BY <1>2, AttemptsAssumption DEF createUser, insertUser, Users, Records
<1>4. to \in Stages \ {"createUser", "findUser", "storeCode", "countAttempt"}
  BY DEF Stages
<1>5. QED
  BY <1>2, <1>3, <1>4, UserInv DEF createUser, Inv, TypeOK, Rows

LEMMA SetPasswordInv ==
    ASSUME Inv, NEW c \in Calls, setPassword(c)
    PROVE  Inv'
<1>1. call[c].stage = "setPassword" /\ CallOK(call[c]) /\ call[c].code \in 0 .. MaxCodes
  BY DEF Inv, TypeOK, CallRecords, CallsOK, setPassword, Goes
<1>2. user # NoUser /\ wallet = TRUE /\ user \in Users
  BY <1>1 DEF CallOK, Inv, TypeOK, WalletWithAccount
<1>3. user' \in Users /\ wallet' = TRUE
  BY <1>1, <1>2 DEF setPassword, Users
<1>4. /\ session' \in [Sessions -> Rows]
      /\ \A s \in Sessions : session[s] = "revoked" => session'[s] = "revoked"
  BY DEF setPassword, Rows, Inv, TypeOK
<1>5. Goes(c, "setPassword", "deleteCode") /\ CallOK(Moved(call[c], "deleteCode"))
  BY <1>1 DEF setPassword, CallOK, Moved
<1>6. "deleteCode" \in Stages \ {"createUser", "findUser", "storeCode", "countAttempt"}
  BY DEF Stages
<1>7. QED
  BY <1>3, <1>4, <1>5, <1>6, UserInv DEF setPassword

LEMMA AdminInv ==
    ASSUME Inv, NEW c \in Calls,
           createAdmin(c) \/ insertAdmin(c) \/ promote(c) \/ ensureWallet(c)
    PROVE  Inv'
<1> USE AttemptsAssumption
<1>1. CallOK(call[c]) /\ user \in Users \cup {NoUser}
  BY DEF Inv, TypeOK, CallsOK
<1>2. CASE createAdmin(c)
  <2> DEFINE r == SessionCall(IF user = NoUser THEN "createAdmin" ELSE "promote",
                              NoSession, FALSE)
  <2>1. r \in CallRecords
    BY DEF SessionCall, CallRecords, Stages, Kinds
  <2>2. CallOK(r)
    BY DEF SessionCall, CallOK
  <2>3. QED
    BY <1>2, <2>1, <2>2, StartsOK DEF createAdmin, Inv, TypeOK
<1>3. CASE insertAdmin(c)
  <2>1. user' \in Users /\ wallet' = TRUE
    BY <1>3 DEF insertAdmin, insertUser, Users, AdminPassword
  <2>2. "idle" \in Stages \ {"createUser", "findUser", "storeCode", "countAttempt"}
    BY DEF Stages
  <2>3. QED
    BY <1>3, <2>1, <2>2, UserInv DEF insertAdmin, Ends, Inv, TypeOK, Rows
<1>4. CASE promote(c)
  <2>1. user # NoUser /\ wallet = TRUE
    BY <1>1, <1>4 DEF promote, Goes, CallOK, Inv, TypeOK, WalletWithAccount
  <2>2. user' \in Users /\ wallet' = TRUE
    BY <1>4, <2>1 DEF promote, Users, AdminPassword
  <2>3. Goes(c, "promote", "ensureWallet") /\ CallOK(Moved(call[c], "ensureWallet"))
    BY <1>1, <1>4, <2>1 DEF promote, Goes, CallOK, Moved
  <2>4. "ensureWallet" \in Stages \ {"createUser", "findUser", "storeCode", "countAttempt"}
    BY DEF Stages
  <2>5. QED
    BY <1>4, <2>2, <2>3, <2>4, UserInv DEF promote, Inv, TypeOK, Rows
<1>5. CASE ensureWallet(c)
  <2>1. user \in Users
    BY <1>1, <1>5 DEF ensureWallet, Ends, CallOK
  <2>2. "idle" \in Stages \ {"createUser", "findUser", "storeCode", "countAttempt"}
    BY DEF Stages
  <2>3. QED
    BY <1>5, <2>1, <2>2, UserInv DEF ensureWallet, Ends, Inv, TypeOK, Rows
<1>6. QED
  BY <1>2, <1>3, <1>4, <1>5

LEMMA FreezeInv ==
    ASSUME Inv, setUserFrozen
    PROVE  Inv'
<1>1. user # NoUser /\ user \in Users
  BY DEF setUserFrozen, Inv, TypeOK
<1>2. user' \in Users /\ user' # NoUser
  BY <1>1 DEF setUserFrozen, Users, NoUser
<1>3. CallsOK'
  BY <1>1, <1>2 DEF setUserFrozen, Inv, CallsOK, CallOK
<1>4. QED
  BY <1>1, <1>2, <1>3 DEF setUserFrozen, Inv, TypeOK, WalletWithAccount

\* Sessions change, but none that has ended comes back.
LEMMA SessionInv ==
    ASSUME Inv, NEW c \in Calls, call' = [call EXCEPT ![c] = NoCall],
           session' \in [Sessions -> Rows],
           \A s \in Sessions : session[s] = "revoked" => session'[s] = "revoked",
           UNCHANGED <<otpEnabled, user, wallet, pending, codes>>
    PROVE  Inv'
<1>1. Keeps
  BY DEF Keeps
<1>2. call' \in [Calls -> CallRecords] /\ CallsOK'
  BY <1>1, StopsOK DEF Inv
<1>3. QED
  BY <1>2 DEF Inv, TypeOK, WalletWithAccount, Rows

LEMMA VisitInv ==
    ASSUME Inv, NEW c \in Calls, Visiting(c)
    PROVE  Inv'
<1>0. CallOK(call[c]) /\ session \in [Sessions -> Rows] /\ 0 \in 0 .. MaxCodes
  BY AttemptsAssumption DEF Inv, TypeOK, CallsOK, Rows
<1>1. CASE login(c)
  <2>1. /\ SessionCall("createSession", NoSession, FALSE) \in CallRecords
        /\ CallOK(SessionCall("createSession", NoSession, FALSE))
    BY <1>0 DEF SessionCall, CallRecords, Stages, Kinds, CallOK
  <2>2. QED
    BY <1>1, <2>1, StartsOK DEF login, Inv, TypeOK
<1>2. ASSUME NEW s \in Sessions, issueTokens(c, s)
      PROVE  Inv'
  BY <1>0, <1>2, SessionInv DEF issueTokens, Ends, Rows
<1>3. ASSUME NEW s \in Sessions, refresh(c, s)
      PROVE  Inv'
  <2>1. /\ SessionCall("refreshUser", s, FALSE) \in CallRecords
        /\ CallOK(SessionCall("refreshUser", s, FALSE))
    BY <1>0 DEF SessionCall, CallRecords, Stages, Kinds, CallOK
  <2>2. QED
    BY <1>3, <2>1, StartsOK DEF refresh, Inv, TypeOK
<1>4. ASSUME NEW s \in Sessions, validate(c, s)
      PROVE  Inv'
  <2>1. /\ SessionCall("validate", s, session[s] = "revoked") \in CallRecords
        /\ CallOK(SessionCall("validate", s, session[s] = "revoked"))
    BY <1>0 DEF SessionCall, CallRecords, Stages, Kinds, CallOK, Rows
  <2>2. QED
    BY <1>4, <2>1, StartsOK DEF validate, Inv, TypeOK
<1>5. CASE refreshUser(c)
  <2>1. "rotate" \in Stages /\ CallOK(Moved(call[c], "rotate"))
    BY <1>0, <1>5 DEF Stages, CallOK, Moved, refreshUser, Goes
  <2>2. QED
    BY <1>5, <2>1, GoesOnOK DEF refreshUser
<1>6. CASE letIn(c)
  <2>1. "letIn" \in Stages /\ CallOK(Moved(call[c], "letIn"))
    BY <1>0, <1>6 DEF Stages, CallOK, Moved, letIn, Goes, Alive
  <2>2. QED
    BY <1>6, <2>1, GoesOnOK DEF letIn
<1>7. CASE rotate(c)
  BY <1>0, <1>7, SessionInv DEF rotate, Ends, Rows
<1>8. CASE logout(c)
  BY <1>0, <1>8, SessionInv DEF logout, Ends, Rows
<1>9. QED
  BY <1>1, <1>2, <1>3, <1>4, <1>5, <1>6, <1>7, <1>8 DEF Visiting

LEMMA ElseInv ==
    ASSUME Inv, \/ \E c \in Calls : fail(c)
                \/ \E kind \in Kinds : codeExpires(kind)
                \/ \E s \in Sessions : sessionExpires(s)
    PROVE  Inv'
<1>1. ASSUME NEW c \in Calls, fail(c)
      PROVE  Inv'
  BY <1>1, SessionInv DEF fail, Inv, TypeOK, Rows
<1>2. ASSUME NEW kind \in Kinds, codeExpires(kind)
      PROVE  Inv'
  <2>1. CallsOK'
    BY <1>2 DEF codeExpires, Inv, CallsOK, CallOK
  <2>2. QED
    BY <1>2, <2>1, PendingInv DEF codeExpires, Inv, TypeOK
<1>3. ASSUME NEW s \in Sessions, sessionExpires(s)
      PROVE  Inv'
  <2>1. /\ session' \in [Sessions -> Rows]
        /\ \A t \in Sessions : session[t] = "revoked" => session'[t] = "revoked"
    BY <1>3 DEF sessionExpires, Alive, Inv, TypeOK, Rows
  <2>2. \A c \in Calls : call[c].late => call[c].session \in Sessions
    BY DEF Inv, CallsOK, CallOK
  <2>3. CallsOK'
    BY <1>3, <2>1, <2>2 DEF sessionExpires, Inv, CallsOK, CallOK
  <2>4. QED
    BY <1>3, <2>1, <2>3 DEF sessionExpires, Inv, TypeOK, WalletWithAccount
<1>4. QED
  BY <1>1, <1>2, <1>3

LEMMA InvInit == Init => Inv
<1> SUFFICES ASSUME Init PROVE Inv
  OBVIOUS
<1> USE AttemptsAssumption DEF Init
<1>1. TypeOK
  <2>1. otpEnabled \in BOOLEAN /\ wallet \in BOOLEAN
    OBVIOUS
  <2>2. user \in Users \cup {NoUser} /\ codes \in 0 .. MaxCodes
    OBVIOUS
  <2>3. pending \in [Kinds -> Records \cup {NoRecord}]
    OBVIOUS
  <2>4. session \in [Sessions -> {"none", "alive", "expired", "revoked"}]
    OBVIOUS
  <2>5. call \in [Calls -> CallRecords]
    BY Idle
  <2>6. QED
    BY <2>1, <2>2, <2>3, <2>4, <2>5 DEF TypeOK
<1>2. CallsOK
  BY Idle DEF CallsOK
<1>3. WalletWithAccount
  BY DEF WalletWithAccount
<1>4. QED
  BY <1>1, <1>2, <1>3 DEF Inv

LEMMA InvNext == Inv /\ [Next]_vars => Inv'
<1> SUFFICES ASSUME Inv, [Next]_vars PROVE Inv'
  OBVIOUS
<1>1. ASSUME NEW c \in Calls, Coding(c)
      PROVE  Inv'
  <2>1. CASE requestSignupOtp(c)
    <3>1. PICK next \in {"storeCode", "createUser"} : request(c, "signup", next)
      BY <2>1 DEF requestSignupOtp
    <3>2. QED
      BY <3>1, RequestInv DEF Kinds
  <2>2. CASE requestPasswordReset(c)
    BY <2>2, RequestInv DEF requestPasswordReset, Kinds
  <2>3. CASE \E kind \in Kinds, code \in 0 .. codes : enterCode(c, kind, code)
    BY <2>3, EnterCodeInv
  <2>4. QED
    BY <1>1, <2>1, <2>2, <2>3, StoreCodeInv, CountAttemptInv, FindUserInv, DeleteCodeInv
    DEF Coding
<1>2. ASSUME NEW c \in Calls, Registering(c)
      PROVE  Inv'
  BY <1>2, CreateUserInv, SetPasswordInv, AdminInv DEF Registering
<1>3. CASE UNCHANGED vars
  BY <1>3 DEF vars, Inv, TypeOK, CallsOK, CallOK, WalletWithAccount
<1>4. QED
  BY <1>1, <1>2, <1>3, VisitInv, ElseInv, FreezeInv DEF Next

\* Types, what handlers may rely on, and the wallet, in every reachable state.
THEOREM AccountsInvariant == Spec => []Inv
BY InvInit, InvNext, PTL DEF Spec

\* Every reachable state is well typed; in particular no record counts more
\* attempts than OTP_MAX_ATTEMPTS, whatever records are written back late.
THEOREM AccountsTyped == Spec => []TypeOK
<1>1. Inv => TypeOK
  BY DEF Inv
<1>2. QED
  BY <1>1, AccountsInvariant, PTL

\* There is never an account without a wallet, whoever creates it and whatever
\* fails on the way.
THEOREM WalletExists == Spec => []WalletWithAccount
<1>1. Inv => WalletWithAccount
  BY DEF Inv
<1>2. QED
  BY <1>1, AccountsInvariant, PTL

\* No request is let in by a session that had ended before the request came.
THEOREM SessionsEnd == Spec => []EndedForGood
<1>1. Inv => EndedForGood
  BY DEF Inv, CallsOK, CallOK, EndedForGood
<1>2. QED
  BY <1>1, AccountsInvariant, PTL

-----------------------------------------------------------------------------
(* What a step does to the account *)

LEMMA ChangesUser ==
    ASSUME [Next]_vars
    PROVE  \/ user' = user
           \/ \E c \in Calls :
                 createUser(c) \/ insertAdmin(c) \/ setPassword(c) \/ promote(c)
           \/ setUserFrozen
<1>1. ASSUME NEW c \in Calls, Coding(c)
      PROVE  user' = user
  BY <1>1 DEF Coding, requestSignupOtp, requestPasswordReset, request, storeCode,
              enterCode, countAttempt, findUser, deleteCode
<1>2. ASSUME NEW c \in Calls, Visiting(c) \/ fail(c) \/ createAdmin(c) \/ ensureWallet(c)
      PROVE  user' = user
  BY <1>2 DEF Visiting, login, refreshUser, rotate, letIn, logout, issueTokens, refresh,
              validate, fail, createAdmin, ensureWallet
<1>3. ASSUME \/ \E kind \in Kinds : codeExpires(kind)
             \/ \E s \in Sessions : sessionExpires(s)
             \/ UNCHANGED vars
      PROVE  user' = user
  BY <1>3 DEF codeExpires, sessionExpires, vars
<1>4. QED
  BY <1>1, <1>2, <1>3 DEF Next, Registering

\* The steps of handlers that write the account, and what they write.
LEMMA WritesUser ==
    ASSUME Inv, NEW c \in Calls,
           createUser(c) \/ insertAdmin(c) \/ setPassword(c) \/ promote(c)
    PROVE  /\ Moves(c)
           /\ user = NoUser => \/ call[c].stage = "createAdmin"
                               \/ user'.password = call[c].code
           /\ user # NoUser => call[c].stage \in {"setPassword", "promote"}
<1>1. CallOK(call[c]) /\ call \in [Calls -> CallRecords]
  BY DEF Inv, TypeOK, CallsOK
<1>2. CASE createUser(c)
  <2>1. /\ call[c].stage = "createUser" /\ call'[c].stage # "createUser"
        /\ user = NoUser /\ user'.password = call[c].record.code
    BY <1>1, <1>2 DEF createUser, insertUser, Goes, CallRecords
  <2>2. QED
    BY <1>1, <2>1 DEF CallOK, Moves
<1>3. CASE insertAdmin(c)
  BY <1>1, <1>3 DEF insertAdmin, insertUser, Ends, NoCall, SessionCall, Moves
<1>4. CASE setPassword(c)
  BY <1>1, <1>4 DEF setPassword, Goes, CallOK, CallRecords, Moves
<1>5. CASE promote(c)
  BY <1>1, <1>5 DEF promote, Goes, CallOK, CallRecords, Moves
<1>6. QED
  BY <1>2, <1>3, <1>4, <1>5

\* A signup creates the account of the request whose code was entered.
THEOREM SignupsAsConfirmed == Spec => SignupAsConfirmed
<1> DEFINE Step == user = NoUser /\ user' # NoUser =>
                      \E c \in Calls : /\ Moves(c)
                                       /\ \/ call[c].stage = "createAdmin"
                                          \/ user'.password = call[c].code
<1>1. Inv /\ [Next]_vars => Step
  BY ChangesUser, WritesUser DEF setUserFrozen
<1>2. QED
  BY <1>1, AccountsInvariant, PTL DEF Spec, SignupAsConfirmed

\* The account of the first signup stays: its password changes by a reset or by
\* createAdmin only.
THEOREM AccountStays == Spec => FirstAccountStays
<1> DEFINE Step == user # NoUser /\ user'.password # user.password =>
                      \E c \in Calls : Moves(c) /\ call[c].stage \in {"setPassword", "promote"}
<1>1. Inv /\ [Next]_vars => Step
  <2>1. ASSUME Inv, setUserFrozen PROVE user'.password = user.password
    BY <2>1 DEF setUserFrozen, Inv, TypeOK, Users, NoUser
  <2>2. QED
    BY <2>1, ChangesUser, WritesUser
<1>2. QED
  BY <1>1, AccountsInvariant, PTL DEF Spec, FirstAccountStays

=============================================================================
