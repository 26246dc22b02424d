-------------------------------- MODULE Accounts --------------------------------
(***************************************************************************)
(* AuthService and JwtStrategy, for one e-mail address: its account, the   *)
(* pending one-time codes in Redis, and its sessions.                      *)
(*                                                                         *)
(* A handler is a row of awaits; between two of them other handlers run,   *)
(* so each step works with what the steps before it have read.  Codes are  *)
(* numbered as they are generated, and the password of a signup or reset   *)
(* has the number of the code that belongs to it.  A refused request takes *)
(* no step.  bcrypt compares the first 72 bytes, which all refresh tokens  *)
(* of one user share, so refresh never sees another hash than its own.     *)
(***************************************************************************)
EXTENDS Integers

CONSTANTS
    Calls,              \* request handlers that may run at the same time
    Sessions,           \* ids available to session rows
    NoSession,
    OTP_MAX_ATTEMPTS,
    MaxCodes            \* bound on the codes generated

ASSUME AttemptsAssumption == OTP_MAX_ATTEMPTS \in Nat \ {0} /\ MaxCodes \in Nat \ {0}
ASSUME SessionAssumption == NoSession \notin Sessions

VARIABLES
    otpEnabled,     \* AUTH_OTP_ENABLED
    user, wallet,   \* the row of the address, and whether its wallet exists
    pending,        \* auth:signup:<email> and auth:pwreset:<email> in Redis
    session,        \* "none", "alive", "expired" or "revoked"
    call,           \* the handlers
    codes           \* number of codes generated

vars == <<otpEnabled, user, wallet, pending, session, call, codes>>

Kinds == {"signup", "reset"}
AdminPassword == 0      \* whatever createAdmin sets

NoUser == [password |-> AdminPassword, status |-> "NONE"]
NoRecord == [code |-> 0, attempts |-> 0]

CodeCall(stage, kind, code, record) ==
    [stage |-> stage, kind |-> kind, code |-> code, record |-> record,
     session |-> NoSession, late |-> FALSE]
SessionCall(stage, s, late) ==
    [stage |-> stage, kind |-> "signup", code |-> 0, record |-> NoRecord,
     session |-> s, late |-> late]
NoCall == SessionCall("idle", NoSession, FALSE)

Active == user.status = "ACTIVE"
Alive(s) == session[s] = "alive"

Start(c, record) == call[c] = NoCall /\ call' = [call EXCEPT ![c] = record]
Goes(c, from, to) == call[c].stage = from /\ call' = [call EXCEPT ![c].stage = to]
Ends(c, from) == call[c].stage = from /\ call' = [call EXCEPT ![c] = NoCall]

\* Any statement throws, or the process dies: what was written stays.  Requests
\* that were let in and change nothing here end like this too.
fail(c) ==
    /\ call[c] # NoCall /\ call' = [call EXCEPT ![c] = NoCall]
    /\ UNCHANGED <<otpEnabled, user, wallet, pending, session, codes>>

-----------------------------------------------------------------------------
(* One-time codes *)

\* requestSignupOtp and requestPasswordReset: look for the user, make a code ...
request(c, kind, next) ==
    /\ codes < MaxCodes /\ codes' = codes + 1
    /\ Start(c, CodeCall(next, kind, codes', [code |-> codes', attempts |-> 0]))
    /\ UNCHANGED <<otpEnabled, user, wallet, pending, session>>

requestSignupOtp(c) ==
    user = NoUser /\ request(c, "signup", IF otpEnabled THEN "storeCode" ELSE "createUser")
requestPasswordReset(c) == Active /\ request(c, "reset", "storeCode")

\* ... and store it over the one before it, if any.
storeCode(c) ==
    /\ Ends(c, "storeCode")
    /\ pending' = [pending EXCEPT ![call[c].kind] = call[c].record]
    /\ UNCHANGED <<otpEnabled, user, wallet, session, codes>>

\* Mutant: one attempt too many.
tooMany_offByOne(record) == record.attempts > OTP_MAX_ATTEMPTS
tooMany(record) == record.attempts >= OTP_MAX_ATTEMPTS

\* verifySignupOtp and resetPassword: read the record and judge the code entered.
enterCode(c, kind, code) ==
    LET record == pending[kind] IN
    /\ record # NoRecord
    /\ Start(c, CodeCall(IF tooMany(record) THEN "deleteCode"
                         ELSE IF code # record.code THEN "countAttempt" ELSE "findUser",
                         kind, code, record))
    /\ UNCHANGED <<otpEnabled, user, wallet, pending, session, codes>>

\* The record read is written back with one attempt more, whatever it is by now.
countAttempt(c) ==
    /\ Ends(c, "countAttempt")
    /\ pending' = [pending EXCEPT ![call[c].kind] =
                      [code |-> call[c].record.code, attempts |-> call[c].record.attempts + 1]]
    /\ UNCHANGED <<otpEnabled, user, wallet, session, codes>>

\* An e-mail that is registered already ends a signup, one that is not a reset.
findUser(c) ==
    /\ Goes(c, "findUser", IF (call[c].kind = "signup") # (user = NoUser) THEN "deleteCode"
                           ELSE IF call[c].kind = "signup" THEN "createUser" ELSE "setPassword")
    /\ UNCHANGED <<otpEnabled, user, wallet, pending, session, codes>>

\* After a success too; the key may hold another record by now.
deleteCode(c) ==
    /\ \/ Ends(c, "deleteCode")
       \/ Goes(c, "deleteCodeAndLogin", "createSession")
    /\ pending' = [pending EXCEPT ![call[c].kind] = NoRecord]
    /\ UNCHANGED <<otpEnabled, user, wallet, session, codes>>

codeExpires(kind) ==
    /\ pending[kind] # NoRecord
    /\ pending' = [pending EXCEPT ![kind] = NoRecord]
    /\ UNCHANGED <<otpEnabled, user, wallet, session, call, codes>>

-----------------------------------------------------------------------------
(* Accounts *)

\* Mutants: the wallet is left to a later request, or the e-mail is not unique.
insertUser_noWallet(password) ==
    /\ user = NoUser /\ user' = [password |-> password, status |-> "ACTIVE"]
    /\ UNCHANGED wallet
insertUser_upsert(password) ==
    user' = [password |-> password, status |-> "ACTIVE"] /\ wallet' = TRUE

\* The transaction that creates user and wallet.  users.email is unique.
insertUser(password) ==
    /\ user = NoUser /\ user' = [password |-> password, status |-> "ACTIVE"]
    /\ wallet' = TRUE

\* Mutant: takes the password from Redis once more.
createUser_readsAgain(c) ==
    /\ Goes(c, "createUser", IF otpEnabled THEN "deleteCodeAndLogin" ELSE "createSession")
    /\ insertUser(IF otpEnabled THEN pending["signup"].code ELSE call[c].record.code)
    /\ UNCHANGED <<otpEnabled, pending, session, codes>>

\* With the password of the record the code was compared with.
createUser(c) ==
    /\ Goes(c, "createUser", IF otpEnabled THEN "deleteCodeAndLogin" ELSE "createSession")
    /\ insertUser(call[c].record.code)
    /\ UNCHANGED <<otpEnabled, pending, session, codes>>

\* resetPassword: one transaction.
setPassword(c) ==
    /\ Goes(c, "setPassword", "deleteCode")
    /\ user' = [user EXCEPT !.password = call[c].code]
    /\ session' = [s \in Sessions |-> IF session[s] = "none" THEN "none" ELSE "revoked"]
    /\ UNCHANGED <<otpEnabled, wallet, pending, codes>>

createAdmin(c) ==
    /\ Start(c, SessionCall(IF user = NoUser THEN "createAdmin" ELSE "promote", NoSession, FALSE))
    /\ UNCHANGED <<otpEnabled, user, wallet, pending, session, codes>>

insertAdmin(c) ==
    /\ Ends(c, "createAdmin") /\ insertUser(AdminPassword)
    /\ UNCHANGED <<otpEnabled, pending, session, codes>>

promote(c) ==
    /\ Goes(c, "promote", "ensureWallet")
    /\ user' = [password |-> AdminPassword, status |-> "ACTIVE"]
    /\ UNCHANGED <<otpEnabled, wallet, pending, session, codes>>

ensureWallet(c) ==
    /\ Ends(c, "ensureWallet") /\ wallet' = TRUE
    /\ UNCHANGED <<otpEnabled, user, pending, session, codes>>

\* The admin's, one statement.
setUserFrozen ==
    /\ user # NoUser
    /\ \E status \in {"ACTIVE", "FROZEN"} : user' = [user EXCEPT !.status = status]
    /\ UNCHANGED <<otpEnabled, wallet, pending, session, call, codes>>

-----------------------------------------------------------------------------
(* Sessions *)

\* With the password of the moment the user is read; comparing takes a while.
login(c) ==
    /\ Active /\ Start(c, SessionCall("createSession", NoSession, FALSE))
    /\ UNCHANGED <<otpEnabled, user, wallet, pending, session, codes>>

issueTokens(c, s) ==
    /\ session[s] = "none" /\ Ends(c, "createSession")
    /\ session' = [session EXCEPT ![s] = "alive"]
    /\ UNCHANGED <<otpEnabled, user, wallet, pending, codes>>

refresh(c, s) ==
    /\ Alive(s) /\ Start(c, SessionCall("refreshUser", s, FALSE))
    /\ UNCHANGED <<otpEnabled, user, wallet, pending, session, codes>>

refreshUser(c) ==
    /\ Active /\ Goes(c, "refreshUser", "rotate")
    /\ UNCHANGED <<otpEnabled, user, wallet, pending, session, codes>>

\* Mutant: the row read is written back, with the revokedAt it had.
rotate_writesRow(c) ==
    /\ Ends(c, "rotate")
    /\ session' = [session EXCEPT ![call[c].session] = "alive"]
    /\ UNCHANGED <<otpEnabled, user, wallet, pending, codes>>

\* The new hash and expiresAt, on the row as it is by now: revokedAt stays.
rotate(c) ==
    /\ Ends(c, "rotate")
    /\ session' = [session EXCEPT ![call[c].session] =
                      IF @ = "revoked" THEN "revoked" ELSE "alive"]
    /\ UNCHANGED <<otpEnabled, user, wallet, pending, codes>>

\* JwtStrategy.validate, before every request that is not public: the user ...
validate(c, s) ==
    /\ session[s] # "none" /\ Active
    /\ Start(c, SessionCall("validate", s, session[s] = "revoked"))
    /\ UNCHANGED <<otpEnabled, user, wallet, pending, session, codes>>

\* ... and then the session.
letIn(c) ==
    /\ Goes(c, "validate", "letIn") /\ Alive(call[c].session)
    /\ UNCHANGED <<otpEnabled, user, wallet, pending, session, codes>>

\* What was let in is logout or something else.
logout(c) ==
    /\ Ends(c, "letIn")
    /\ session' = [session EXCEPT ![call[c].session] = "revoked"]
    /\ UNCHANGED <<otpEnabled, user, wallet, pending, codes>>

sessionExpires(s) ==
    /\ Alive(s) /\ session' = [session EXCEPT ![s] = "expired"]
    /\ UNCHANGED <<otpEnabled, user, wallet, pending, call, codes>>

-----------------------------------------------------------------------------
Init ==
    /\ otpEnabled \in BOOLEAN
    /\ user = NoUser /\ wallet = FALSE
    /\ pending = [kind \in Kinds |-> NoRecord]
    /\ session = [s \in Sessions |-> "none"]
    /\ call = [c \in Calls |-> NoCall] /\ codes = 0

Coding(c) ==
    \/ requestSignupOtp(c) \/ requestPasswordReset(c) \/ storeCode(c)
    \/ \E kind \in Kinds, code \in 0 .. codes : enterCode(c, kind, code)
    \/ countAttempt(c) \/ findUser(c) \/ deleteCode(c)

Registering(c) ==
    \/ createUser(c) \/ setPassword(c)
    \/ createAdmin(c) \/ insertAdmin(c) \/ promote(c) \/ ensureWallet(c)

Visiting(c) ==
    \/ login(c) \/ refreshUser(c) \/ rotate(c) \/ letIn(c) \/ logout(c)
    \/ \E s \in Sessions : issueTokens(c, s) \/ refresh(c, s) \/ validate(c, s)

Next ==
    \/ \E c \in Calls : Coding(c) \/ Registering(c) \/ Visiting(c) \/ fail(c)
    \/ \E kind \in Kinds : codeExpires(kind)
    \/ \E s \in Sessions : sessionExpires(s)
    \/ setUserFrozen

Spec == Init /\ [][Next]_vars

-----------------------------------------------------------------------------
(* Properties *)

Users == [password : 0 .. MaxCodes, status : {"ACTIVE", "FROZEN"}]
Records == [code : 1 .. MaxCodes, attempts : 0 .. OTP_MAX_ATTEMPTS]
Stages == {"idle", "storeCode", "countAttempt", "findUser", "deleteCode",
           "deleteCodeAndLogin", "createUser", "setPassword", "createAdmin", "promote",
           "ensureWallet", "createSession", "refreshUser", "rotate", "validate", "letIn"}
CallRecords == [stage : Stages, kind : Kinds, code : 0 .. MaxCodes,
                record : Records \cup {NoRecord}, session : Sessions \cup {NoSession},
                late : BOOLEAN]

\* Types of the variables; no record counts more attempts than OTP_MAX_ATTEMPTS.
TypeOK ==
    /\ otpEnabled \in BOOLEAN /\ wallet \in BOOLEAN
    /\ user \in Users \cup {NoUser}
    /\ pending \in [Kinds -> Records \cup {NoRecord}]
    /\ session \in [Sessions -> {"none", "alive", "expired", "revoked"}]
    /\ call \in [Calls -> CallRecords]
    /\ codes \in 0 .. MaxCodes

\* An account is created with its wallet: deposits, orders and the admin's
\* adjustments look for the wallet and none of them creates it.
WalletWithAccount == user # NoUser => wallet

Moves(c) == call'[c] # call[c]

\* A signup creates the account of the request whose code was entered, although a
\* second request replaces the record while the first code is being verified.
SignupAsConfirmed ==
    [][user = NoUser /\ user' # NoUser =>
          \E c \in Calls : /\ Moves(c)
                           /\ \/ call[c].stage = "createAdmin"
                              \/ user'.password = call[c].code]_vars

\* "another tab may have already verified": whatever signups overlap, and with
\* createAdmin, the account of the first stays; its password is changed by a
\* reset or by createAdmin for a user it has found, and by nothing else.
FirstAccountStays ==
    [][user # NoUser /\ user'.password # user.password =>
          \E c \in Calls : Moves(c) /\ call[c].stage \in {"setPassword", "promote"}]_vars

\* A session that logout or a reset has ended lets no later request in, although
\* a refresh that read it before writes the row afterwards.
EndedForGood == \A c \in Calls : call[c].stage = "letIn" => ~call[c].late

=============================================================================
