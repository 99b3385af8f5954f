------------------------------ MODULE AdminSso ------------------------------
(***************************************************************************)
(* Editor sign-in: a one-time link of the control plane is exchanged for a *)
(* session (aggregator/admin-sso.ts), which opens the Content Studio       *)
(* routes until it is revoked or six hours are over (builder/auth.ts).  A  *)
(* request that names a subject in its headers is judged by the role it    *)
(* names there, and no session is read.                                    *)
(*                                                                         *)
(* The exchange races each of its awaits against a timer of three seconds. *)
(* The statement that lost the race is not cancelled: it may still commit. *)
(***************************************************************************)
EXTENDS Naturals

CONSTANTS
  Links,        \* the jti of every link the control plane signed
  ForeignLinks, \* those for another project or environment, where the
                \* site's variables name one
  RoleOf,       \* the role each link grants
  NoLink,       \* a token that is missing, malformed or not signed
                \* (also: no session token yet)
  Exchanges,    \* GET /sso/exchange requests; each draws one session token
  Visits,       \* requests that edit
  Names         \* the roles that requests may name in their headers

AdminRole == {"owner", "admin", "editor", "viewer"}

ASSUME LinksAreSigned ==
  /\ ForeignLinks \subseteq Links
  /\ RoleOf \in [Links -> AdminRole] /\ Names \subseteq AdminRole
  /\ NoLink \notin Links

VARIABLES
  overdueLinks,  \* links whose exp has passed
  usedLinks,     \* ap_admin_sso_exchanges, by its UNIQUE jti
  adminSessions, \* ap_admin_sessions, by session token
  overtime,      \* sessions whose expires_at has passed
  flying,        \* inserts given up after the timeout and not yet settled
  exchange,      \* where each exchange is, and its link
  cookies,       \* session tokens some browser holds
  visit          \* where each visit is, its session token, role and guard

ssoVars == <<overdueLinks, usedLinks, adminSessions, overtime, flying,
             exchange, cookies, visit>>

Waiting  == {"verify", "lookup", "insertExchange", "insertSession"}
Answered == {"302", "401", "403", "409", "500", "503"}
SessionState == {"none", "live", "revoked"}
Guard == [publish : BOOLEAN, csrf : BOOLEAN, sends : BOOLEAN]

(* No visit, or one that was denied                                        *)
NoVisit == [pc |-> "idle", token |-> NoLink, role |-> "viewer", late |-> FALSE,
            guard |-> [publish |-> FALSE, csrf |-> FALSE, sends |-> FALSE]]

SsoTypeOK ==
  /\ overdueLinks \subseteq Links
  /\ usedLinks \subseteq Links
  /\ adminSessions \in [Exchanges -> SessionState]
  /\ overtime \subseteq Exchanges
  /\ flying \subseteq {"exchange", "session"} \X Exchanges
  /\ exchange \in [Exchanges -> [pc : {"idle"} \cup Waiting \cup Answered,
                                 link : Links \cup {NoLink}]]
  /\ cookies \subseteq Exchanges
  /\ visit \in [Visits -> [pc : {"idle", "read", "touch", "granted"},
                           token : Exchanges \cup {NoLink}, role : AdminRole,
                           guard : Guard, late : BOOLEAN]]

SsoInit ==
  /\ overdueLinks = {}
  /\ usedLinks = {}
  /\ adminSessions = [r \in Exchanges |-> "none"]
  /\ overtime = {}
  /\ flying = {}
  /\ exchange = [r \in Exchanges |-> [pc |-> "idle", link |-> NoLink]]
  /\ cookies = {}
  /\ visit = [v \in Visits |-> NoVisit]

At(r, pc) == exchange[r].pc = pc
ExchangeTo(r, pc) == exchange' = [exchange EXCEPT ![r].pc = pc]
tables == <<usedLinks, adminSessions, flying>>
clock == <<overdueLinks, overtime>>
browsers == <<cookies, visit>>

-----------------------------------------------------------------------------
(* The exchange: createAdminSsoExchangeSession                             *)

OpenLink(r) ==
  /\ At(r, "idle")
  /\ \E l \in Links \cup {NoLink} :
       exchange' = [exchange EXCEPT ![r] = [pc |-> "verify", link |-> l]]
  /\ UNCHANGED <<tables, clock, browsers>>

(* Signature, issuer, audience, exp and the claims that name a role and an *)
(* environment                                                             *)
Verified(l) == l \notin {NoLink} \cup overdueLinks

(* Project, environment, and whether the request goes where the link says  *)
ForThisSite(l, aimed) == l \notin ForeignLinks /\ aimed

VerifyLink(r) ==
  /\ At(r, "verify")
  /\ \E aimed \in BOOLEAN :
       ExchangeTo(r, IF ~Verified(exchange[r].link) THEN "401"
                     ELSE IF ForThisSite(exchange[r].link, aimed) THEN "lookup"
                     ELSE "403")
  /\ UNCHANGED <<tables, clock, browsers>>

LookUpLink(r) ==
  /\ At(r, "lookup")
  /\ ExchangeTo(r, IF exchange[r].link \in usedLinks THEN "409"
                   ELSE "insertExchange")
  /\ UNCHANGED <<tables, clock, browsers>>

(* Mutant: INSERT OR IGNORE, which says nothing of a link already used.    *)
ClaimOrIgnore(r) ==
  /\ At(r, "insertExchange")
  /\ usedLinks' = usedLinks \cup {exchange[r].link}
  /\ ExchangeTo(r, "insertSession")
  /\ UNCHANGED <<adminSessions, flying, clock, browsers>>

(* INSERT under UNIQUE (jti)                                               *)
ClaimLink(r) ==
  /\ At(r, "insertExchange")
  /\ exchange[r].link \notin usedLinks
  /\ usedLinks' = usedLinks \cup {exchange[r].link}
  /\ ExchangeTo(r, "insertSession")
  /\ UNCHANGED <<adminSessions, flying, clock, browsers>>

LinkIsTaken(r) ==
  /\ At(r, "insertExchange")
  /\ exchange[r].link \in usedLinks
  /\ ExchangeTo(r, "503")
  /\ UNCHANGED <<tables, clock, browsers>>

OpenSession(r) ==
  /\ At(r, "insertSession")
  /\ adminSessions' = [adminSessions EXCEPT ![r] = "live"]
  /\ ExchangeTo(r, "302")
  /\ UNCHANGED <<usedLinks, flying, clock, browsers>>

GiveUpAmong(r, steps) ==
  /\ exchange[r].pc \in steps
  /\ ExchangeTo(r, CASE At(r, "verify") -> "401"
                     [] At(r, "lookup") -> "500"
                     [] OTHER -> "503")
  /\ flying' = CASE At(r, "insertExchange") -> flying \cup {<<"exchange", r>>}
                 [] At(r, "insertSession") -> flying \cup {<<"session", r>>}
                 [] OTHER -> flying
  /\ UNCHANGED <<usedLinks, adminSessions, clock, browsers>>

(* Mutant: the insert of the session is awaited without a timer.           *)
GiveUpEarlySteps(r) == GiveUpAmong(r, Waiting \ {"insertSession"})

(* withTimeout: an error of D1, or three seconds without an answer.  Only  *)
(* the lookup has no catch around it, so its error leaves the handler.     *)
GiveUp(r) == GiveUpAmong(r, Waiting)

(* The statement commits after its request was answered, or never does.    *)
LandLate(r) ==
  /\ \/ /\ <<"exchange", r>> \in flying
        /\ flying' = flying \ {<<"exchange", r>>}
        /\ usedLinks' \in {usedLinks, usedLinks \cup {exchange[r].link}}
        /\ UNCHANGED adminSessions
     \/ /\ <<"session", r>> \in flying
        /\ flying' = flying \ {<<"session", r>>}
        /\ \E s \in {"none", "live"} :
             adminSessions' = [adminSessions EXCEPT ![r] = s]
        /\ UNCHANGED usedLinks
  /\ UNCHANGED <<exchange, clock, browsers>>

(* Mutant: the cookie holds the link's jti.                                *)
ReceiveLink(r) ==
  /\ At(r, "302")
  /\ cookies' = cookies \cup {exchange[r].link}
  /\ UNCHANGED <<tables, exchange, clock, visit>>

(* The 302 with its cookies arrives.                                       *)
ReceiveCookies(r) ==
  /\ At(r, "302")
  /\ cookies' = cookies \cup {r}
  /\ UNCHANGED <<tables, exchange, clock, visit>>

LinkExpires(l) ==
  /\ overdueLinks' = overdueLinks \cup {l}
  /\ UNCHANGED <<tables, exchange, overtime, browsers>>

SessionExpires(r) ==
  /\ adminSessions[r] # "none"
  /\ overtime' = overtime \cup {r}
  /\ UNCHANGED <<tables, exchange, overdueLinks, browsers>>

-----------------------------------------------------------------------------
(* A visit: requireBuilderAccess over getAdminSession                      *)

Visit(v) ==
  /\ visit[v].pc \in {"idle", "granted"}
  /\ \E r \in cookies, g \in Guard :
       visit' = [visit EXCEPT ![v] = [NoVisit EXCEPT
                   !.pc = "read", !.token = r, !.guard = g,
                   !.late = adminSessions[r] = "revoked"]]
  /\ UNCHANGED <<tables, exchange, clock, cookies>>

RoleAllows(role, guard) ==
  /\ role \in {"owner", "admin", "editor"}
  /\ guard.publish => role \in {"owner", "admin"}
  /\ guard.csrf => guard.sends

(* The headers name a subject.                                             *)
VisitByName(v) ==
  /\ visit[v].pc \in {"idle", "granted"}
  /\ \E role \in Names, g \in Guard :
       visit' = [visit EXCEPT ![v] =
                   IF RoleAllows(role, g)
                   THEN [NoVisit EXCEPT !.pc = "granted", !.role = role, !.guard = g]
                   ELSE NoVisit]
  /\ UNCHANGED <<tables, exchange, clock, cookies>>

SessionHolds(r) == adminSessions[r] = "live" /\ r \notin overtime

ReadSession(v) ==
  /\ visit[v].pc = "read"
  /\ visit' = IF SessionHolds(visit[v].token)
              THEN [visit EXCEPT ![v].pc = "touch",
                                 ![v].role = RoleOf[exchange[visit[v].token].link]]
              ELSE [visit EXCEPT ![v] = NoVisit]
  /\ UNCHANGED <<tables, exchange, clock, cookies>>

(* last_seen_at is set whatever the row holds by now; the role is the one  *)
(* of the read.                                                            *)
Touch(v) ==
  /\ visit[v].pc = "touch"
  /\ visit' = IF RoleAllows(visit[v].role, visit[v].guard)
              THEN [visit EXCEPT ![v].pc = "granted"]
              ELSE [visit EXCEPT ![v] = NoVisit]
  /\ UNCHANGED <<tables, exchange, clock, cookies>>

VisitFails(v) ==
  /\ visit[v].pc \in {"read", "touch"}
  /\ visit' = [visit EXCEPT ![v] = NoVisit]
  /\ UNCHANGED <<tables, exchange, clock, cookies>>

(* POST /sso/logout; the answer that clears the cookies may be lost.       *)
Logout(r) ==
  /\ r \in cookies
  /\ adminSessions' = [adminSessions EXCEPT ![r] = "revoked"]
  /\ cookies' \in {cookies, cookies \ {r}}
  /\ UNCHANGED <<usedLinks, flying, exchange, clock, visit>>

SsoNext ==
  \/ \E r \in Exchanges :
       \/ OpenLink(r) \/ VerifyLink(r) \/ LookUpLink(r) \/ ClaimLink(r)
       \/ LinkIsTaken(r) \/ OpenSession(r) \/ GiveUp(r) \/ LandLate(r)
       \/ ReceiveCookies(r) \/ SessionExpires(r) \/ Logout(r)
  \/ \E l \in Links : LinkExpires(l)
  \/ \E v \in Visits :
       Visit(v) \/ VisitByName(v) \/ ReadSession(v) \/ Touch(v) \/ VisitFails(v)

(* D1 may never answer; the timer always does.                             *)
SsoFairness == \A r \in Exchanges : WF_ssoVars(GiveUp(r))

SsoSpec == SsoInit /\ [][SsoNext]_ssoVars /\ SsoFairness

-----------------------------------------------------------------------------
(* Properties                                                              *)

(* A link opens one session at most, however often it is followed and      *)
(* whatever statement commits late; and never a link that this site must   *)
(* refuse.                                                                 *)
LinkOpensOneSession ==
  \A r, s \in Exchanges :
    adminSessions[r] # "none" =>
      /\ exchange[r].link \in usedLinks \ ForeignLinks
      /\ adminSessions[s] # "none" /\ exchange[s].link = exchange[r].link
           => r = s

(* Over a session a visit is let in only if the session was opened and not *)
(* revoked before the visit began, and with the role of the link that      *)
(* opened it; one without a session named its role in its headers.  Either *)
(* way the role is one that the guard of the route lets in.                *)
RevokedStaysOut ==
  \A v \in Visits :
    visit[v].pc = "granted" =>
      /\ RoleAllows(visit[v].role, visit[v].guard)
      /\ \/ visit[v].token = NoLink /\ visit[v].role \in Names
         \/ /\ adminSessions[visit[v].token] # "none" /\ ~visit[v].late
            /\ visit[v].role = RoleOf[exchange[visit[v].token].link]

(* tests/generated-site/edit-access-stability.test.mjs: the exchange "has  *)
(* bounded browser-safe failure handling".                                 *)
ExchangeIsAnswered ==
  \A r \in Exchanges :
    (exchange[r].pc \in Waiting) ~> (exchange[r].pc \in Answered)
=============================================================================
