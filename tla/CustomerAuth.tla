---------------------------- MODULE CustomerAuth ----------------------------
(***************************************************************************)
(* Customer accounts (aggregator/customer-auth.ts and the customer-auth    *)
(* routes): sign-up, login, password reset, the session check and logout.  *)
(* Every D1 statement is a step.  Nothing ties the statements of a request *)
(* together: others run in between, and a request may stop at any of them. *)
(*                                                                         *)
(* Hashes are left out: a password or a token stands for what it hashes    *)
(* to.  An account is its UNIQUE email: none is deleted or renamed.        *)
(***************************************************************************)
CONSTANTS
  Emails,    \* normalised addresses
  Passwords, \* of eight characters or more
  Secrets,   \* the values randomHex draws for session and reset tokens
  Clients,   \* requests under way at the same time
  Nil        \* no account, no row, no value yet

ASSUME NilIsNothing == Nil \notin Emails \cup Passwords \cup Secrets

VARIABLES
  account,     \* ap_customer_accounts: the password, by email
  session,     \* ap_customer_sessions, by token
  reset,       \* ap_customer_password_resets, by token
  client,      \* the request each client is making
  interrupted  \* accounts of which a reset stopped half-way      (history)

authVars == <<account, session, reset, client, interrupted>>

SignupStep == {"signup check", "signup insert", "signup reread"}
LoginStep  == {"login read", "login insert"}
AskStep    == {"ask read", "ask insert"}
ResetStep  == {"reset read", "set password", "mark used", "revoke"}
MeStep     == {"me session", "me touch"}
Step       == SignupStep \cup LoginStep \cup AskStep \cup ResetStep \cup MeStep

(* A request that has been answered, in whatever way, leaves nothing here. *)
Idle == [pc |-> "idle", email |-> Nil, password |-> Nil, secret |-> Nil,
         stale |-> FALSE]
Request == [pc : Step \cup {"idle"}, email : Emails \cup {Nil},
            password : Passwords \cup {Nil}, secret : Secrets \cup {Nil},
            stale : BOOLEAN]   \* its token was used or revoked as it began

(* proof: the password that opened it; late: one replaced by then.         *)
Session == [state : {"none", "live", "revoked"}, email : Emails \cup {Nil},
            proof : Passwords \cup {Nil}, late : BOOLEAN]
Reset == [state : {"none", "unused", "used"}, email : Emails \cup {Nil}]

AuthTypeOK ==
  /\ account \in [Emails -> Passwords \cup {Nil}]
  /\ session \in [Secrets -> Session]
  /\ reset \in [Secrets -> Reset]
  /\ client \in [Clients -> Request]
  /\ interrupted \subseteq Emails

AuthInit ==
  /\ account = [e \in Emails |-> Nil]
  /\ session = [s \in Secrets |->
                  [state |-> "none", email |-> Nil, proof |-> Nil, late |-> FALSE]]
  /\ reset = [s \in Secrets |-> [state |-> "none", email |-> Nil]]
  /\ client = [c \in Clients |-> Idle]
  /\ interrupted = {}

Is(c, pc) == client[c].pc = pc
ClientTo(c, pc) == client' = [client EXCEPT ![c].pc = pc]
Answer(c) == client' = [client EXCEPT ![c] = Idle]
ClientToIf(c, ok, pc) == IF ok THEN ClientTo(c, pc) ELSE Answer(c)

Start(c, pc, e, p, s) ==
  /\ Is(c, "idle")
  /\ client' = [client EXCEPT ![c] =
       [pc |-> pc, email |-> e, password |-> p, secret |-> s,
        stale |-> s # Nil /\ (reset[s].state = "used"
                              \/ session[s].state = "revoked")]]
  /\ UNCHANGED <<account, session, reset, interrupted>>

(* randomHex: some value no row holds.  Which one makes no difference.     *)
Unused == {s \in Secrets : session[s].state = "none" /\ reset[s].state = "none"}
Draw == CHOOSE s \in Unused : TRUE

-----------------------------------------------------------------------------
(* signupCustomer                                                          *)

SignupCheck(c) ==
  /\ Is(c, "signup check")
  /\ ClientToIf(c, account[client[c].email] = Nil, "signup insert")
  /\ UNCHANGED <<account, session, reset, interrupted>>

(* INSERT under UNIQUE (email); a violation is an error of the request.    *)
SignupInsert(c) ==
  /\ Is(c, "signup insert")
  /\ account[client[c].email] = Nil
  /\ account' = [account EXCEPT ![client[c].email] = client[c].password]
  /\ ClientTo(c, "signup reread")
  /\ UNCHANGED <<session, reset, interrupted>>

(* The route asks for no session.                                          *)
SignupReread(c) ==
  /\ Is(c, "signup reread")
  /\ Answer(c)
  /\ UNCHANGED <<account, session, reset, interrupted>>

-----------------------------------------------------------------------------
(* loginCustomer and createCustomerSession                                 *)

LoginRead(c) ==
  /\ Is(c, "login read")
  /\ ClientToIf(c, account[client[c].email] = client[c].password, "login insert")
  /\ UNCHANGED <<account, session, reset, interrupted>>

LoginInsert(c) ==
  /\ Is(c, "login insert")
  /\ Unused # {}
  /\ session' = [session EXCEPT ![Draw] =
       [state |-> "live", email |-> client[c].email,
        proof |-> client[c].password,
        late |-> account[client[c].email] # client[c].password]]
  /\ Answer(c)
  /\ UNCHANGED <<account, reset, interrupted>>

-----------------------------------------------------------------------------
(* requestCustomerPasswordReset: the same answer for an unknown address.   *)

AskRead(c) ==
  /\ Is(c, "ask read")
  /\ ClientToIf(c, account[client[c].email] # Nil, "ask insert")
  /\ UNCHANGED <<account, session, reset, interrupted>>

AskInsert(c) ==
  /\ Is(c, "ask insert")
  /\ Unused # {}
  /\ reset' = [reset EXCEPT ![Draw] =
                 [state |-> "unused", email |-> client[c].email]]
  /\ Answer(c)
  /\ UNCHANGED <<account, session, interrupted>>

-----------------------------------------------------------------------------
(* resetCustomerPassword: a read and three updates, none with a condition  *)
(* on what the read saw.                                                   *)

(* Mutant: the read does not ask for used_at IS NULL.                      *)
LinkExists(s) == reset[s].state # "none"
LinkIsOpen(s) == reset[s].state = "unused"

ResetRead(c) ==
  LET s == client[c].secret
  IN /\ Is(c, "reset read")
     /\ IF LinkIsOpen(s)
        THEN client' = [client EXCEPT ![c].pc = "set password",
                                      ![c].email = reset[s].email]
        ELSE Answer(c)
     /\ UNCHANGED <<account, session, reset, interrupted>>

(* Mutant: the values of the UPDATE are bound in the wrong order.          *)
SetPasswordToToken(c) ==
  /\ Is(c, "set password")
  /\ account' = [account EXCEPT ![client[c].email] = client[c].secret]
  /\ ClientTo(c, "mark used")
  /\ UNCHANGED <<session, reset, interrupted>>

SetPassword(c) ==
  /\ Is(c, "set password")
  /\ account' = [account EXCEPT ![client[c].email] = client[c].password]
  /\ ClientTo(c, "mark used")
  /\ UNCHANGED <<session, reset, interrupted>>

(* Mutant: the request ends here and revokes nothing.                      *)
MarkUsedAndAnswer(c) ==
  /\ Is(c, "mark used")
  /\ reset' = [reset EXCEPT ![client[c].secret].state = "used"]
  /\ Answer(c)
  /\ UNCHANGED <<account, session, interrupted>>

MarkUsed(c) ==
  /\ Is(c, "mark used")
  /\ reset' = [reset EXCEPT ![client[c].secret].state = "used"]
  /\ ClientTo(c, "revoke")
  /\ UNCHANGED <<account, session, interrupted>>

LiveOf(e) == {s \in Secrets : session[s].state = "live" /\ session[s].email = e}

RevokeSessions(c) ==
  /\ Is(c, "revoke")
  /\ session' = [s \in Secrets |->
       IF s \in LiveOf(client[c].email)
       THEN [session[s] EXCEPT !.state = "revoked"] ELSE session[s]]
  /\ interrupted' = interrupted \ {client[c].email}
  /\ Answer(c)
  /\ UNCHANGED <<account, reset>>

-----------------------------------------------------------------------------
(* getCustomerSession and logout.  The account is read too, and is there,  *)
(* since none is deleted; the last statement sets last_seen_at.            *)

MeSession(c) ==
  LET s == client[c].secret
  IN /\ Is(c, "me session")
     /\ IF session[s].state = "live"
        THEN ClientTo(c, "me touch") ELSE Answer(c)
     /\ UNCHANGED <<account, session, reset, interrupted>>

MeTouch(c) ==
  /\ Is(c, "me touch")
  /\ Answer(c)
  /\ UNCHANGED <<account, session, reset, interrupted>>

(* One statement, by the token of the cookie                               *)
LogOut(s) ==
  /\ session[s].state # "none"
  /\ session' = [session EXCEPT ![s].state = "revoked"]
  /\ UNCHANGED <<account, reset, client, interrupted>>

-----------------------------------------------------------------------------
(* The routes.  A body that is refused starts nothing.                     *)

BeginSignup(c) ==
  \E e \in Emails, p \in Passwords : Start(c, "signup check", e, p, Nil)

BeginLogin(c) ==
  \E e \in Emails, p \in Passwords : Start(c, "login read", e, p, Nil)

BeginAsk(c) == \E e \in Emails : Start(c, "ask read", e, Nil, Nil)

BeginReset(c) ==
  \E s \in {s \in Secrets : reset[s].state # "none"}, p \in Passwords :
    Start(c, "reset read", Nil, p, s)

BeginMe(c) ==
  \E s \in {s \in Secrets : session[s].state # "none"} :
    Start(c, "me session", Nil, Nil, s)

(* A D1 error, UNIQUE (email), the worker's end, or a row whose expires_at *)
(* has passed.  A statement whose answer is lost is that statement         *)
(* followed by this.                                                       *)
Fail(c) ==
  /\ client[c].pc \in Step
  /\ Answer(c)
  /\ interrupted' = interrupted \cup
       (IF client[c].pc \in {"mark used", "revoke"} THEN {client[c].email} ELSE {})
  /\ UNCHANGED <<account, session, reset>>

AuthNext ==
  \/ \E c \in Clients :
       \/ BeginSignup(c) \/ BeginLogin(c) \/ BeginAsk(c) \/ BeginReset(c)
       \/ BeginMe(c) \/ SignupCheck(c) \/ SignupInsert(c) \/ SignupReread(c)
       \/ LoginRead(c) \/ LoginInsert(c) \/ AskRead(c) \/ AskInsert(c)
       \/ ResetRead(c) \/ SetPassword(c) \/ MarkUsed(c) \/ RevokeSessions(c)
       \/ MeSession(c) \/ MeTouch(c) \/ Fail(c)
  \/ \E s \in Secrets : LogOut(s)

AuthSpec == AuthInit /\ [][AuthNext]_authVars

-----------------------------------------------------------------------------
(* Properties                                                              *)

Resetting(e) ==
  \E c \in Clients : client[c].pc \in {"mark used", "revoke"} /\ client[c].email = e

(* A replaced password ends the sessions it opened.  The exceptions are    *)
(* exactly two: a reset that has not come to its last statement (and may   *)
(* never, when it was interrupted), and a login that had checked the       *)
(* password before it was replaced and inserts its session afterwards.     *)
OldPasswordIsLockedOut ==
  \A s \in Secrets :
    session[s].state = "live" =>
      \/ session[s].proof = account[session[s].email]
      \/ session[s].late
      \/ Resetting(session[s].email)
      \/ session[s].email \in interrupted

(* The password of an account is replaced only by a reset whose link was   *)
(* issued for that account and not yet used when the request began: never  *)
(* by a sign-up that saw no account, nor by a link used before.            *)
OnlyAnOpenLinkReplaces ==
  [][\A e \in Emails :
       account[e] # Nil /\ account'[e] # account[e] =>
         \E c \in Clients :
           /\ Is(c, "set password") /\ ~client[c].stale
           /\ reset[client[c].secret].email = e]_authVars

(* A session check that began after its session was revoked is refused.    *)
RevokedIsRefused ==
  \A c \in Clients : client[c].pc = "me touch" => ~client[c].stale
=============================================================================
