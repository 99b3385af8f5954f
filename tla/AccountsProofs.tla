--------------------------- MODULE AccountsProofs ---------------------------
(***************************************************************************)
(* Safety of modules AdminSso, McpTokens and Accounts for any links,       *)
(* roles, requests, grants and visits.                                     *)
(***************************************************************************)
EXTENDS Accounts, TLAPS

(* A request that has the session of its link, or whose insert of it may   *)
(* still commit                                                            *)
MayHold(r) ==
  \/ adminSessions[r] # "none"
  \/ At(r, "insertSession")
  \/ <<"session", r>> \in flying

(* Past its verification a request has a link of this site; one that may   *)
(* hold a session has used it up, alone.                                   *)
LinkInv ==
  /\ \A r \in Exchanges :
       /\ exchange[r].pc \in {"lookup", "insertExchange", "insertSession", "302"}
            => exchange[r].link \in Links \ ForeignLinks
       /\ <<"exchange", r>> \in flying
            => At(r, "503") /\ exchange[r].link \in Links \ ForeignLinks
       /\ MayHold(r) => exchange[r].link \in usedLinks \ ForeignLinks
  /\ \A r, s \in Exchanges :
       MayHold(r) /\ MayHold(s) /\ exchange[r].link = exchange[s].link => r = s

(* Where a session may be in the life of its exchange                      *)
SessionInv ==
  \A r \in Exchanges :
    /\ adminSessions[r] # "none" => exchange[r].pc \in {"302", "503"}
    /\ At(r, "302") \/ r \in cookies => adminSessions[r] # "none"
    /\ <<"session", r>> \in flying => At(r, "503") /\ adminSessions[r] = "none"

(* The session of a visit was opened, and a visit that began late finds it *)
(* revoked.                                                                *)
OverSession(s) ==
  /\ s.token \in Exchanges /\ adminSessions[s.token] # "none"
  /\ s.late => adminSessions[s.token] = "revoked"
  /\ s.pc \in {"touch", "granted"} =>
       ~s.late /\ s.role = RoleOf[exchange[s.token].link]

(* A visit is over a session, or was let in by the role of its headers.    *)
VisitInv ==
  \A v \in Visits : LET s == visit[v] IN
    /\ s.pc # "idle" =>
         OverSession(s) \/ (s.token = NoLink /\ s.pc = "granted" /\ s.role \in Names)
    /\ s.pc = "granted" => RoleAllows(s.role, s.guard)

SsoIInv == SsoTypeOK /\ LinkInv /\ SessionInv /\ VisitInv
-----------------------------------------------------------------------------
LEMMA SsoInitially == SsoInit => SsoIInv
  BY DEF SsoInit, SsoIInv, SsoTypeOK, LinkInv, SessionInv, VisitInv, MayHold, At,
         NoVisit, Guard, AdminRole, SessionState, Waiting, Answered

(* A request that goes on keeps its link, and the others stay where they   *)
(* are.                                                                    *)
LEMMA ExchangeGoes ==
  ASSUME SsoTypeOK, NEW r \in Exchanges, NEW pc, ExchangeTo(r, pc)
  PROVE  /\ exchange'[r].pc = pc
         /\ \A s \in Exchanges : exchange'[s].link = exchange[s].link
         /\ \A s \in Exchanges \ {r} : exchange'[s] = exchange[s]
  BY DEF SsoTypeOK, ExchangeTo

(* The visits only read what the exchanges have written.                   *)
LEMMA ExchangesUntouched ==
  ASSUME UNCHANGED <<tables, exchange, clock, cookies>>, SsoIInv
  PROVE  LinkInv' /\ SessionInv'
  BY DEF tables, clock, SsoIInv, LinkInv, SessionInv, MayHold, At

(* Sessions that keep their state, or become revoked, keep the visits.     *)
LEMMA VisitsUntouched ==
  ASSUME SsoIInv, UNCHANGED visit,
         \A r \in Exchanges : adminSessions[r] # "none" =>
            /\ adminSessions'[r] \in {adminSessions[r], "revoked"}
            /\ exchange'[r].link = exchange[r].link
  PROVE  VisitInv'
  BY DEF SsoIInv, VisitInv, OverSession

VisitStep(v) ==
  Visit(v) \/ VisitByName(v) \/ ReadSession(v) \/ Touch(v) \/ VisitFails(v)

(* What a visit becomes, and how.                                          *)
LEMMA VisitStepped ==
  ASSUME SsoIInv, NEW v \in Visits, VisitStep(v)
  PROVE  \E w \in [pc : {"idle", "read", "touch", "granted"}, token : Exchanges \cup {NoLink},
                    role : AdminRole, guard : Guard, late : BOOLEAN] :
           /\ visit' = [visit EXCEPT ![v] = w]
           /\ w.pc # "idle" =>
                OverSession(w) \/ (w.token = NoLink /\ w.pc = "granted" /\ w.role \in Names)
           /\ w.pc = "granted" => RoleAllows(w.role, w.guard)
<1> DEFINE T == [pc : {"idle", "read", "touch", "granted"}, token : Exchanges \cup {NoLink},
                 role : AdminRole, guard : Guard, late : BOOLEAN]
           Fits(w) == /\ w.pc # "idle" =>
                           OverSession(w) \/ (w.token = NoLink /\ w.pc = "granted" /\ w.role \in Names)
                      /\ w.pc = "granted" => RoleAllows(w.role, w.guard)
           s == visit[v]
<1>1. s \in T BY DEF SsoIInv, SsoTypeOK
<1>2. Fits(s) BY DEF SsoIInv, VisitInv
<1>3. NoVisit \in T /\ Fits(NoVisit) BY DEF NoVisit, Guard, AdminRole
<1>4. /\ cookies \subseteq Exchanges /\ \A r \in cookies : adminSessions[r] # "none"
      /\ \A r \in Exchanges : adminSessions[r] # "none" => exchange[r].link \in Links
  BY DEF SsoIInv, SsoTypeOK, SessionInv, LinkInv, MayHold
<1>5. ASSUME Visit(v) PROVE \E w \in T : visit' = [visit EXCEPT ![v] = w] /\ Fits(w)
  <2>1. PICK r \in cookies, g \in Guard :
          visit' = [visit EXCEPT ![v] = [NoVisit EXCEPT
                       !.pc = "read", !.token = r, !.guard = g,
                       !.late = adminSessions[r] = "revoked"]]
    BY <1>5 DEF Visit
  <2> DEFINE w == [NoVisit EXCEPT !.pc = "read", !.token = r, !.guard = g,
                                  !.late = adminSessions[r] = "revoked"]
  <2>2. /\ w.pc = "read" /\ w.token = r /\ w.guard = g /\ w.role = "viewer"
        /\ w.late = (adminSessions[r] = "revoked")
    BY DEF NoVisit
  <2>3. w \in T BY <1>3, <1>4
  <2> HIDE DEF w
  <2>4. Fits(w) BY <1>4, <2>2 DEF OverSession
  <2> USE DEF w
  <2> QED BY <2>1, <2>3, <2>4
<1>6. ASSUME VisitByName(v) PROVE \E w \in T : visit' = [visit EXCEPT ![v] = w] /\ Fits(w)
  <2>1. PICK role \in Names, g \in Guard :
          visit' = [visit EXCEPT ![v] =
                      IF RoleAllows(role, g)
                      THEN [NoVisit EXCEPT !.pc = "granted", !.role = role, !.guard = g]
                      ELSE NoVisit]
    BY <1>6 DEF VisitByName
  <2> DEFINE w == [NoVisit EXCEPT !.pc = "granted", !.role = role, !.guard = g]
  <2>2. w.pc = "granted" /\ w.token = NoLink /\ w.role = role /\ w.guard = g BY DEF NoVisit
  <2>3. w \in T BY <1>3, LinksAreSigned
  <2>4. RoleAllows(role, g) => Fits(w) BY <2>2
  <2> QED BY <1>3, <2>1, <2>3, <2>4
<1>7. ASSUME ReadSession(v) PROVE \E w \in T : visit' = [visit EXCEPT ![v] = w] /\ Fits(w)
  <2> DEFINE w == [s EXCEPT !.pc = "touch", !.role = RoleOf[exchange[s.token].link]]
  <2>1. s.pc = "read" /\ OverSession(s) BY <1>2, <1>7 DEF ReadSession
  <2>2. exchange[s.token].link \in Links BY <1>4, <2>1 DEF OverSession
  <2>3. w \in T BY <1>1, <2>2, LinksAreSigned
  <2>4. /\ w.pc = "touch" /\ w.token = s.token /\ w.late = s.late
        /\ w.role = RoleOf[exchange[s.token].link]
    BY <1>1
  <2>5. CASE SessionHolds(s.token)
    <3>1. visit' = [visit EXCEPT ![v] = w] BY <1>7, <2>5 DEF ReadSession, SsoIInv, SsoTypeOK
    <3> HIDE DEF w, s
    <3>2. Fits(w) BY <2>1, <2>4, <2>5 DEF OverSession, SessionHolds
    <3> USE DEF w, s
    <3> QED BY <2>3, <3>1, <3>2
  <2>6. CASE ~SessionHolds(s.token) BY <1>3, <1>7, <2>6 DEF ReadSession
  <2> QED BY <2>5, <2>6
<1>8. ASSUME Touch(v) PROVE \E w \in T : visit' = [visit EXCEPT ![v] = w] /\ Fits(w)
  <2> DEFINE w == [s EXCEPT !.pc = "granted"]
  <2>1. s.pc = "touch" /\ OverSession(s) BY <1>2, <1>8 DEF Touch
  <2>2. /\ w \in T /\ w.pc = "granted" /\ w.token = s.token /\ w.late = s.late
        /\ w.role = s.role /\ w.guard = s.guard
    BY <1>1
  <2>3. CASE RoleAllows(s.role, s.guard)
    <3>1. visit' = [visit EXCEPT ![v] = w] BY <1>8, <2>3 DEF Touch
    <3> HIDE DEF w, s
    <3>2. Fits(w) BY <2>1, <2>2, <2>3 DEF OverSession
    <3> USE DEF w, s
    <3> QED BY <2>2, <3>1, <3>2
  <2>4. CASE ~RoleAllows(s.role, s.guard) BY <1>3, <1>8, <2>4 DEF Touch
  <2> QED BY <2>3, <2>4
<1>9. ASSUME VisitFails(v) PROVE \E w \in T : visit' = [visit EXCEPT ![v] = w] /\ Fits(w)
  BY <1>3, <1>9 DEF VisitFails
<1> QED BY <1>5, <1>6, <1>7, <1>8, <1>9 DEF VisitStep

LEMMA SsoTypesKept ==
  ASSUME SsoIInv, SsoNext PROVE SsoTypeOK'
<1> USE LinksAreSigned DEF SsoIInv, SsoTypeOK, tables, clock, browsers, ExchangeTo, At
<1>1. ASSUME NEW r \in Exchanges, OpenLink(r) PROVE SsoTypeOK'
  BY <1>1 DEF OpenLink, Waiting
<1>2. ASSUME NEW r \in Exchanges, VerifyLink(r) PROVE SsoTypeOK'
  BY <1>2 DEF VerifyLink, Waiting, Answered
<1>3. ASSUME NEW r \in Exchanges, LookUpLink(r) PROVE SsoTypeOK'
  BY <1>3 DEF LookUpLink, Waiting, Answered
<1>4. ASSUME NEW r \in Exchanges, ClaimLink(r) \/ LinkIsTaken(r) PROVE SsoTypeOK'
  <2>1. exchange[r].link \in Links BY <1>4 DEF ClaimLink, LinkIsTaken, LinkInv
  <2>2. usedLinks' \subseteq Links BY <1>4, <2>1 DEF ClaimLink, LinkIsTaken
  <2>3. exchange' \in [Exchanges -> [pc : {"idle"} \cup Waiting \cup Answered,
                                     link : Links \cup {NoLink}]]
    BY <1>4 DEF ClaimLink, LinkIsTaken, Waiting, Answered
  <2> QED BY <1>4, <2>2, <2>3 DEF ClaimLink, LinkIsTaken
<1>5. ASSUME NEW r \in Exchanges, OpenSession(r) PROVE SsoTypeOK'
  BY <1>5 DEF OpenSession, SessionState, Answered
<1>6. ASSUME NEW r \in Exchanges, GiveUp(r) PROVE SsoTypeOK'
  BY <1>6 DEF GiveUp, GiveUpAmong, Waiting, Answered
<1>7. ASSUME NEW r \in Exchanges, LandLate(r) PROVE SsoTypeOK'
  <2>1. <<"exchange", r>> \in flying => exchange[r].link \in Links BY DEF LinkInv
  <2>2. usedLinks' \subseteq Links BY <1>7, <2>1 DEF LandLate
  <2>3. adminSessions' \in [Exchanges -> SessionState]
    BY <1>7 DEF LandLate, SessionState
  <2> QED BY <1>7, <2>2, <2>3 DEF LandLate
<1>8. ASSUME NEW r \in Exchanges, ReceiveCookies(r) \/ SessionExpires(r) \/ Logout(r)
      PROVE SsoTypeOK'
  BY <1>8 DEF ReceiveCookies, SessionExpires, Logout, SessionState
<1>9. ASSUME NEW l \in Links, LinkExpires(l) PROVE SsoTypeOK'
  BY <1>9 DEF LinkExpires
<1>10. ASSUME NEW v \in Visits, VisitStep(v) PROVE SsoTypeOK'
  <2> DEFINE T == [pc : {"idle", "read", "touch", "granted"}, token : Exchanges \cup {NoLink},
                   role : AdminRole, guard : Guard, late : BOOLEAN]
  <2>1. PICK w \in T : visit' = [visit EXCEPT ![v] = w] BY <1>10, VisitStepped
  <2>2. UNCHANGED <<tables, exchange, clock, cookies>>
    BY <1>10 DEF VisitStep, Visit, VisitByName, ReadSession, Touch, VisitFails
  <2>3. visit \in [Visits -> T] OBVIOUS
  <2> HIDE DEF T
  <2>4. visit' \in [Visits -> T] BY <2>1, <2>3
  <2>5. visit' \in [Visits -> T] => SsoTypeOK' BY <2>2 DEF T
  <2> QED BY <2>4, <2>5
<1> QED BY <1>1, <1>2, <1>3, <1>4, <1>5, <1>6, <1>7, <1>8, <1>9, <1>10 DEF SsoNext, VisitStep

(* Every step keeps the invariant.                                         *)
LEMMA SsoKept == SsoIInv /\ [SsoNext]_ssoVars => SsoIInv'
<1> SUFFICES ASSUME SsoIInv, SsoNext PROVE SsoIInv'
  BY DEF ssoVars, SsoIInv, SsoTypeOK, LinkInv, SessionInv, VisitInv, OverSession, MayHold, At
<1>0. SsoTypeOK' BY SsoTypesKept
<1> USE LinksAreSigned DEF tables, clock, browsers, ExchangeTo, At
<1>1. ASSUME NEW r \in Exchanges,
             OpenLink(r) \/ VerifyLink(r) \/ LookUpLink(r) \/ LinkIsTaken(r)
      PROVE  SsoIInv'
  <2> DEFINE Early == /\ \A s \in Exchanges \ {r} : exchange'[s] = exchange[s]
                      /\ exchange[r].pc \in {"idle", "verify", "lookup", "insertExchange"}
                      /\ exchange'[r].pc \in {"verify", "lookup", "insertExchange",
                                               "401", "403", "409", "503"}
                      /\ exchange'[r].pc \in {"lookup", "insertExchange"}
                           => exchange'[r].link \in Links \ ForeignLinks
  <2>7. ASSUME OpenLink(r) PROVE Early
    <3>1. PICK l \in Links \cup {NoLink} :
            exchange' = [exchange EXCEPT ![r] = [pc |-> "verify", link |-> l]]
      BY <2>7 DEF OpenLink
    <3> QED BY <2>7, <3>1 DEF OpenLink, SsoIInv, SsoTypeOK
  <2>8. ASSUME VerifyLink(r) PROVE Early
    <3>1. exchange[r].link \in Links \cup {NoLink} BY DEF SsoIInv, SsoTypeOK
    <3> QED
      BY <2>8, <3>1, ExchangeGoes DEF VerifyLink, Verified, ForThisSite, SsoIInv
  <2>9. ASSUME LookUpLink(r) \/ LinkIsTaken(r) PROVE Early
    BY <2>9, ExchangeGoes DEF LookUpLink, LinkIsTaken, SsoIInv, LinkInv
  <2>1. UNCHANGED <<tables, clock, browsers>> /\ Early
    <3>1. UNCHANGED <<tables, clock, browsers>>
      BY <1>1 DEF OpenLink, VerifyLink, LookUpLink, LinkIsTaken
    <3> QED BY <1>1, <2>7, <2>8, <2>9, <3>1
  <2>2. ~MayHold(r) /\ ~MayHold(r)' /\ <<"exchange", r>> \notin flying
    BY <2>1 DEF MayHold, SsoIInv, SessionInv, LinkInv
  <2>3. \A s \in Exchanges \ {r} : MayHold(s)' <=> MayHold(s)
    BY <2>1 DEF MayHold
  <2>4. LinkInv' BY <2>1, <2>2, <2>3 DEF LinkInv, SsoIInv
  <2>5. SessionInv' BY <2>1, <2>2 DEF SessionInv, SsoIInv, MayHold
  <2>6. VisitInv'
    BY <2>1, <2>2, VisitsUntouched DEF MayHold
  <2> QED BY <1>0, <2>4, <2>5, <2>6 DEF SsoIInv
<1>2. ASSUME NEW r \in Exchanges, ClaimLink(r) PROVE SsoIInv'
  <2>1. \A s \in Exchanges : MayHold(s)' <=> MayHold(s) \/ s = r
    BY <1>2 DEF ClaimLink, MayHold, SsoIInv, SsoTypeOK
  <2>2. \A s \in Exchanges : exchange'[s].link = exchange[s].link
    BY <1>2 DEF ClaimLink, SsoIInv, SsoTypeOK
  <2>3. \A s \in Exchanges : MayHold(s) => exchange[s].link # exchange[r].link
    BY <1>2 DEF ClaimLink, SsoIInv, LinkInv
  <2>4. LinkInv'
    BY <1>2, <2>1, <2>2, <2>3 DEF ClaimLink, LinkInv, SsoIInv, SsoTypeOK
  <2>5. SessionInv' BY ZenonT(60), <1>2 DEF ClaimLink, SessionInv, SsoIInv, SsoTypeOK
  <2>6. VisitInv' BY <1>2, <2>2, VisitsUntouched DEF ClaimLink
  <2> QED BY <1>0, <2>4, <2>5, <2>6 DEF SsoIInv
<1>3. ASSUME NEW r \in Exchanges, OpenSession(r) PROVE SsoIInv'
  <2>0. /\ exchange'[r].pc = "302"
        /\ \A s \in Exchanges \ {r} : exchange'[s] = exchange[s]
        /\ adminSessions' = [adminSessions EXCEPT ![r] = "live"]
    BY <1>3, ExchangeGoes DEF OpenSession, SsoIInv
  <2>1. \A s \in Exchanges : MayHold(s)' <=> MayHold(s)
    BY <1>3 DEF OpenSession, MayHold, SsoIInv, SsoTypeOK
  <2>2. /\ \A s \in Exchanges : exchange'[s].link = exchange[s].link
        /\ adminSessions[r] = "none"
    BY <1>3, ExchangeGoes DEF OpenSession, SsoIInv, SessionInv
  <2>4. LinkInv'
    BY <1>3, <2>1, <2>2 DEF OpenSession, LinkInv, SsoIInv, SsoTypeOK
  <2>5. SessionInv'
    <3>1. /\ <<"session", r>> \notin flying
          /\ UNCHANGED <<flying, cookies>>
          /\ adminSessions'[r] = "live"
          /\ \A s \in Exchanges \ {r} : adminSessions'[s] = adminSessions[s]
      BY <1>3, <2>0 DEF OpenSession, SessionInv, SsoIInv, SsoTypeOK
    <3> QED BY <2>0, <3>1 DEF SessionInv, SsoIInv
  <2>6. VisitInv'
    BY <1>3, <2>2, VisitsUntouched DEF OpenSession, SsoIInv, SsoTypeOK
  <2> QED BY <1>0, <2>4, <2>5, <2>6 DEF SsoIInv
<1>4. ASSUME NEW r \in Exchanges, GiveUp(r) PROVE SsoIInv'
  <2> USE <1>4 DEF GiveUp, GiveUpAmong
  <2>1. \A s \in Exchanges : MayHold(s)' <=> MayHold(s)
    BY DEF MayHold, SsoIInv, SsoTypeOK, Waiting
  <2>2. \A s \in Exchanges : exchange'[s].link = exchange[s].link
    BY DEF SsoIInv, SsoTypeOK
  <2>3. /\ exchange'[r].pc \in {"401", "500", "503"}
        /\ flying' \subseteq flying \cup {<<"exchange", r>>, <<"session", r>>}
        /\ <<"exchange", r>> \in flying' =>
             /\ exchange'[r].pc = "503"
             /\ exchange[r].link \in Links \ ForeignLinks
        /\ <<"session", r>> \in flying' =>
             exchange'[r].pc = "503" /\ adminSessions[r] = "none"
    BY DEF SsoIInv, SsoTypeOK, LinkInv, SessionInv, Waiting
  <2>4. LinkInv'
    BY <2>1, <2>2, <2>3 DEF LinkInv, SsoIInv, SsoTypeOK
  <2>5. SessionInv'
    BY <2>3 DEF SessionInv, SsoIInv, SsoTypeOK, Waiting
  <2>6. VisitInv' BY <2>2, VisitsUntouched
  <2> QED BY <1>0, <2>4, <2>5, <2>6 DEF SsoIInv
<1>5. ASSUME NEW r \in Exchanges, LandLate(r) PROVE SsoIInv'
  <2> USE <1>5 DEF LandLate
  <2>1. \A s \in Exchanges : MayHold(s)' => MayHold(s)
    BY DEF MayHold, SsoIInv, SsoTypeOK
  <2>2. /\ usedLinks \subseteq usedLinks' /\ flying' \subseteq flying
        /\ exchange' = exchange
    OBVIOUS
  <2>3. LinkInv' BY <2>1, <2>2 DEF LinkInv, SsoIInv
  <2>4. /\ SessionInv'
        /\ \A s \in Exchanges : adminSessions[s] # "none" => adminSessions'[s] = adminSessions[s]
    BY DEF SessionInv, SsoIInv, SsoTypeOK
  <2>5. VisitInv' BY <2>4, VisitsUntouched
  <2> QED BY <1>0, <2>3, <2>4, <2>5 DEF SsoIInv
<1>6. ASSUME NEW r \in Exchanges, ReceiveCookies(r) \/ SessionExpires(r) PROVE SsoIInv'
  <2>1. LinkInv'
    BY <1>6 DEF ReceiveCookies, SessionExpires, LinkInv, MayHold, SsoIInv
  <2>2. SessionInv'
    BY <1>6 DEF ReceiveCookies, SessionExpires, SessionInv, SsoIInv
  <2>3. VisitInv'
    BY <1>6, VisitsUntouched DEF ReceiveCookies, SessionExpires
  <2> QED BY <1>0, <2>1, <2>2, <2>3 DEF SsoIInv
<1>7. ASSUME NEW r \in Exchanges, Logout(r) PROVE SsoIInv'
  <2> USE <1>7 DEF Logout
  <2>1. \A s \in Exchanges : MayHold(s)' <=> MayHold(s)
    BY DEF MayHold, SsoIInv, SsoTypeOK, SessionInv
  <2>2. LinkInv' BY <2>1 DEF LinkInv, SsoIInv
  <2>3. SessionInv' BY DEF SessionInv, SsoIInv, SsoTypeOK
  <2>4. VisitInv' BY VisitsUntouched DEF SsoIInv, SsoTypeOK
  <2> QED BY <1>0, <2>2, <2>3, <2>4 DEF SsoIInv
<1>8. ASSUME NEW l \in Links, LinkExpires(l) PROVE SsoIInv'
  BY <1>0, <1>8 DEF LinkExpires, SsoIInv, LinkInv, SessionInv, VisitInv, OverSession, MayHold
<1>9. ASSUME NEW v \in Visits, VisitStep(v) PROVE SsoIInv'
  <2>1. UNCHANGED <<tables, exchange, clock, cookies>>
    BY <1>9 DEF VisitStep, Visit, VisitByName, ReadSession, Touch, VisitFails
  <2>2. LinkInv' /\ SessionInv' BY <2>1, ExchangesUntouched
  <2>3. PICK w : /\ visit' = [visit EXCEPT ![v] = w]
                 /\ w.pc # "idle" =>
                      OverSession(w) \/ (w.token = NoLink /\ w.pc = "granted" /\ w.role \in Names)
                 /\ w.pc = "granted" => RoleAllows(w.role, w.guard)
    BY <1>9, VisitStepped
  <2>4. visit'[v] = w /\ \A u \in Visits \ {v} : visit'[u] = visit[u]
    BY <2>3 DEF SsoIInv, SsoTypeOK
  <2>5. VisitInv' BY <2>1, <2>3, <2>4 DEF SsoIInv, VisitInv, OverSession
  <2> QED BY <1>0, <2>2, <2>5 DEF SsoIInv
<1> QED BY <1>1, <1>2, <1>3, <1>4, <1>5, <1>6, <1>7, <1>8, <1>9 DEF SsoNext, VisitStep

-----------------------------------------------------------------------------
(* Two provisions of one agent and name ran at the same time, or one was   *)
(* given a token that another name had.                                    *)
Excused(r) ==
  \E p, q \in Provisions :
    /\ SameName(p, r) /\ SameName(q, r)
    /\ <<p, q>> \in overlap \/ provision[p].taken

(* Row i is of the agent and name of request p.                            *)
SameKey(i, p) == NameOf(i) = Asked(p).name /\ UserOf(i) = provision[p].user

Target(p) == IF Step(p, "update token") THEN provision[p].row ELSE p

(* What a request holds on its way                                         *)
Orderly(r) ==
  /\ r.pc \in {"idle", "refused", "dry"} =>
       r.ask = NoGrant /\ r.user = NoGrant
  /\ r.pc \in {"idle", "refused", "dry", "find user", "refresh user", "insert user",
              "find token"} => ~r.taken
  /\ r.pc \in Storing => r.ask \in Grants
  /\ r.pc \in {"refresh user", "find token", "update token", "insert token"} =>
       r.user # NoGrant
  /\ r.pc \in {"find user", "insert user"} => r.user = NoGrant
  /\ r.pc = "update token" => r.row \in Provisions

ProgressInv == \A p \in Provisions : Orderly(provision[p])

(* A service user is the one of its agent.                                 *)
UserInv ==
  /\ \A a \in Agents : serviceUser[a] # NoGrant =>
       /\ Asked(serviceUser[a]) # NoGrant
       /\ Asked(serviceUser[a]).agent = a
  /\ \A p \in Provisions : provision[p].user # NoGrant =>
       /\ Asked(p) # NoGrant /\ Asked(provision[p].user) # NoGrant
       /\ Asked(provision[p].user).agent = Asked(p).agent

RowInv == \A i \in Rows : Asked(tokenRow[i]) \in Grants /\ UserOf(i) # NoGrant

OverlapInv ==
  \A p, q \in InFlight : p # q => <<p, q>> \in overlap

(* What a request is about to write makes no second row of its name that   *)
(* is not excused.                                                         *)
AboutToStore ==
  \A p \in Provisions : provision[p].pc \in {"update token", "insert token"} =>
    \A j \in Rows : j # Target(p) /\ SameKey(j, p) => Excused(p)

PairsInv ==
  \A i, j \in Rows :
    i # j /\ NameOf(i) = NameOf(j) /\ UserOf(i) = UserOf(j) => Excused(tokenRow[i])

TokenIInv ==
  TokenTypeOK /\ ProgressInv /\ UserInv /\ RowInv /\ OverlapInv /\ AboutToStore /\ PairsInv
-----------------------------------------------------------------------------
LEMMA TokenInitially == TokenInit => TokenIInv
<1> SUFFICES ASSUME TokenInit PROVE TokenIInv OBVIOUS
<1> USE GrantsAreForAgents DEF TokenInit
<1>1. \A p \in Provisions : provision[p] = Fresh OBVIOUS
<1>2. Rows = {} BY DEF Rows
<1>3. InFlight = {} BY <1>1 DEF InFlight, Fresh, Storing
<1>4. TokenTypeOK BY DEF TokenTypeOK, Fresh
<1>5. ProgressInv BY <1>1 DEF ProgressInv, Orderly, Fresh, Storing, Step
<1>6. UserInv BY <1>1 DEF UserInv, Fresh
<1>7. RowInv /\ PairsInv /\ AboutToStore BY <1>2 DEF RowInv, PairsInv, AboutToStore
<1>8. OverlapInv BY <1>3 DEF OverlapInv
<1> QED BY <1>4, <1>5, <1>6, <1>7, <1>8 DEF TokenIInv

(* A step keeps what each request asked, and what it has taken.            *)
Remembers ==
  /\ \A p \in Provisions : Asked(p) # NoGrant =>
       Asked(p)' = Asked(p) /\ (provision[p].taken => provision'[p].taken)
  /\ overlap \subseteq overlap'

LEMMA ExcusesLast ==
  ASSUME Remembers, NEW r \in Provisions, Excused(r) PROVE Excused(r)'
  BY DEF Remembers, Excused, SameName, Asked

(* Steps that write no row and bring no request to the point of storing    *)
LEMMA RowsUntouched ==
  ASSUME TokenIInv, TokenTypeOK', ProgressInv', Remembers, UNCHANGED tokenRow,
         \A p \in Provisions :
           /\ provision[p].user # NoGrant => provision'[p].user = provision[p].user
           /\ provision'[p].pc \in {"update token", "insert token"} =>
                provision'[p] = provision[p]
  PROVE  RowInv' /\ AboutToStore' /\ PairsInv'
<1>1. \A i \in Rows : /\ tokenRow[i] \in Provisions
                      /\ NameOf(i)' = NameOf(i) /\ UserOf(i)' = UserOf(i)
                      /\ Asked(tokenRow[i]) \in Grants /\ UserOf(i) # NoGrant
                      /\ Asked(tokenRow[i])' = Asked(tokenRow[i])
  <2> SUFFICES ASSUME NEW i \in Rows
               PROVE  /\ tokenRow[i] \in Provisions
                      /\ NameOf(i)' = NameOf(i) /\ UserOf(i)' = UserOf(i)
                      /\ Asked(tokenRow[i]) \in Grants /\ UserOf(i) # NoGrant
                      /\ Asked(tokenRow[i])' = Asked(tokenRow[i])
    OBVIOUS
  <2>1. tokenRow[i] \in Provisions BY DEF TokenIInv, TokenTypeOK, Rows
  <2>2. Asked(tokenRow[i]) \in Grants /\ UserOf(i) # NoGrant
    BY DEF TokenIInv, RowInv
  <2>3. Asked(tokenRow[i])' = Asked(tokenRow[i])
    BY <2>1, <2>2, GrantsAreForAgents DEF Remembers, Asked
  <2>4. UserOf(i)' = UserOf(i) BY <2>1, <2>2 DEF UserOf
  <2> QED BY <2>1, <2>2, <2>3, <2>4 DEF NameOf, Asked
<1>2. Rows' = Rows BY DEF Rows
<1>3. RowInv' BY <1>1, <1>2 DEF RowInv, UserOf
<1>4. PairsInv'
  <2> SUFFICES ASSUME NEW i \in Rows, NEW j \in Rows, i # j,
                      NameOf(i)' = NameOf(j)', UserOf(i)' = UserOf(j)'
               PROVE  Excused(tokenRow[i])'
    BY <1>2 DEF PairsInv
  <2>1. Excused(tokenRow[i]) BY <1>1 DEF TokenIInv, PairsInv
  <2> DEFINE r == tokenRow[i]
  <2>2. r \in Provisions /\ tokenRow'[i] = r BY <1>1
  <2>3. Excused(r)' BY <2>1, <2>2, ExcusesLast
  <2> QED BY <2>2, <2>3
<1>5. AboutToStore'
  <2> SUFFICES ASSUME NEW p \in Provisions, NEW j \in Rows,
                      provision'[p].pc \in {"update token", "insert token"},
                      j # Target(p)', SameKey(j, p)'
               PROVE  Excused(p)'
    BY <1>2 DEF AboutToStore
  <2>1. provision'[p] = provision[p] OBVIOUS
  <2>2. j # Target(p) /\ SameKey(j, p)
    BY <1>1, <2>1 DEF Target, Step, SameKey, Asked
  <2>3. Excused(p) BY <2>1, <2>2 DEF TokenIInv, AboutToStore
  <2> QED BY <2>3, ExcusesLast
<1> QED BY <1>3, <1>4, <1>5

Place == Storing \cup {"idle", "refused", "dry", "error", "ready"}
Request == [pc : Place, ask : Grants \cup {NoGrant}, user : Provisions \cup {NoGrant},
            row : Provisions \cup {NoGrant}, taken : BOOLEAN]

(* A request goes on to another place, with what it found.                 *)
GoesOn(p, pc, user, row, taken) ==
  provision' = [provision EXCEPT ![p] =
    [pc |-> pc, ask |-> provision[p].ask, user |-> user, row |-> row, taken |-> taken]]

LEMMA GoesOnTyped ==
  ASSUME TokenTypeOK, NEW p \in Provisions, NEW pc \in Place,
         NEW user \in Provisions \cup {NoGrant}, NEW row \in Provisions \cup {NoGrant},
         NEW taken \in BOOLEAN, GoesOn(p, pc, user, row, taken)
  PROVE  /\ provision' \in [Provisions -> Request]
         /\ \A q \in Provisions \ {p} : provision'[q] = provision[q]
         /\ provision'[p].pc = pc /\ provision'[p].ask = provision[p].ask
         /\ provision'[p].user = user /\ provision'[p].row = row
         /\ provision'[p].taken = taken
<1>1. provision \in [Provisions -> Request] BY DEF TokenTypeOK, Request, Place
<1>2. provision[p].ask \in Grants \cup {NoGrant} BY <1>1 DEF Request
<1>3. [pc |-> pc, ask |-> provision[p].ask, user |-> user, row |-> row,
       taken |-> taken] \in Request
  BY <1>2 DEF Request
<1> HIDE DEF Request
<1>4. provision' \in [Provisions -> Request] BY <1>1, <1>3 DEF GoesOn
<1> QED BY <1>1, <1>4 DEF GoesOn

(* Where each action takes its request                                     *)
LEMMA GoesOnBy ==
  ASSUME TokenTypeOK, NEW p \in Provisions
  PROVE  LET r == provision[p] IN
    /\ Refuse(p) => GoesOn(p, "refused", r.user, r.row, r.taken)
    /\ DryRun(p) => GoesOn(p, "dry", r.user, r.row, r.taken)
    /\ ProvisionFails(p) => GoesOn(p, "error", r.user, r.row, r.taken)
    /\ FindUser(p) => LET id == serviceUser[Asked(p).agent] IN
         GoesOn(p, IF id = NoGrant THEN "insert user" ELSE "refresh user",
                id, r.row, r.taken)
    /\ RefreshUser(p) => GoesOn(p, "find token", r.user, r.row, r.taken)
    /\ InsertUser(p) =>
         IF serviceUser[Asked(p).agent] = NoGrant
         THEN GoesOn(p, "find token", p, r.row, r.taken)
         ELSE GoesOn(p, "error", r.user, r.row, r.taken)
    /\ \A id : Store(p, id) =>
         \E pc \in {"ready", "error"} : GoesOn(p, pc, r.user, r.row, r.taken)
<1> DEFINE r == provision[p]
<1>1. provision \in [Provisions -> Request] BY DEF TokenTypeOK, Request, Place
<1>2. r = [pc |-> r.pc, ask |-> r.ask, user |-> r.user, row |-> r.row,
           taken |-> r.taken]
  BY <1>1 DEF Request
<1>3. \A pc : [r EXCEPT !.pc = pc] =
              [pc |-> pc, ask |-> r.ask, user |-> r.user, row |-> r.row,
               taken |-> r.taken]
  BY <1>2
<1>4. \A pc : [provision EXCEPT ![p].pc = pc] = [provision EXCEPT ![p] = [r EXCEPT !.pc = pc]]
  BY <1>1
<1>5. \A pc : provision' = [provision EXCEPT ![p].pc = pc] =>
                GoesOn(p, pc, r.user, r.row, r.taken)
  BY <1>3, <1>4 DEF GoesOn
<1>6. FindUser(p) => LET id == serviceUser[Asked(p).agent] IN
         GoesOn(p, IF id = NoGrant THEN "insert user" ELSE "refresh user",
                id, r.row, r.taken)
  BY <1>1, <1>2 DEF FindUser, GoesOn
<1>7. InsertUser(p) =>
         IF serviceUser[Asked(p).agent] = NoGrant
         THEN GoesOn(p, "find token", p, r.row, r.taken)
         ELSE GoesOn(p, "error", r.user, r.row, r.taken)
  BY <1>1, <1>2, <1>5 DEF InsertUser, GoesOn
<1>8. \A id : Store(p, id) =>
         \E pc \in {"ready", "error"} : GoesOn(p, pc, r.user, r.row, r.taken)
  BY <1>5 DEF Store
<1> QED BY <1>5, <1>6, <1>7, <1>8 DEF Refuse, DryRun, ProvisionFails, RefreshUser

(* In flight requests that stay in flight keep their overlaps.             *)
LEMMA OverlapsStay ==
  ASSUME OverlapInv, InFlight' \subseteq InFlight, overlap \subseteq overlap'
  PROVE  OverlapInv'
  BY DEF OverlapInv

LEMMA TypesFromRequests ==
  ASSUME TokenTypeOK, provision' \in [Provisions -> Request],
         serviceUser' \in [Agents -> Provisions \cup {NoGrant}],
         disabled' \subseteq Agents,
         tokenRow' \in [Provisions -> Provisions \cup {NoGrant}],
         overlap' \subseteq Provisions \X Provisions
  PROVE  TokenTypeOK'
  BY DEF TokenTypeOK, Request, Place

LEMMA UsersKept ==
  ASSUME TokenTypeOK, UserInv, UNCHANGED serviceUser,
         \A q \in Provisions : Asked(q)' = Asked(q) /\ provision'[q].user = provision[q].user
  PROVE  UserInv'
<1>1. ASSUME NEW a \in Agents, serviceUser'[a] # NoGrant
      PROVE  Asked(serviceUser[a])' # NoGrant /\ Asked(serviceUser[a])'.agent = a
  <2>1. /\ serviceUser[a] \in Provisions /\ Asked(serviceUser[a]) # NoGrant
        /\ Asked(serviceUser[a]).agent = a
    BY <1>1 DEF TokenTypeOK, UserInv
  <2>2. Asked(serviceUser[a])' = Asked(serviceUser[a]) BY <2>1 DEF Asked
  <2> QED BY <2>1, <2>2
<1>2. ASSUME NEW q \in Provisions, provision'[q].user # NoGrant
      PROVE  /\ Asked(q)' # NoGrant /\ Asked(provision[q].user)' # NoGrant
             /\ Asked(provision[q].user)'.agent = Asked(q)'.agent
  <2> DEFINE u == provision[q].user
  <2>1. /\ u \in Provisions /\ Asked(u) # NoGrant /\ Asked(q) # NoGrant
        /\ Asked(u).agent = Asked(q).agent /\ provision'[q].user = u
    BY <1>2 DEF TokenTypeOK, UserInv
  <2> QED BY <2>1 DEF Asked
<1> QED BY <1>1, <1>2 DEF UserInv

(* A request that finds or writes its user                                 *)
LEMMA UserSteps ==
  ASSUME TokenIInv, NEW p \in Provisions,
         Refuse(p) \/ DryRun(p) \/ ProvisionFails(p) \/ FindUser(p)
           \/ RefreshUser(p) \/ InsertUser(p)
  PROVE  TokenIInv'
<1> USE GrantsAreForAgents
<1>0. TokenTypeOK BY DEF TokenIInv
<1>1. /\ UNCHANGED <<tokenRow, overlap>>
      /\ provision[p].pc \in {"idle"} \cup Storing
      /\ Asked(p) # NoGrant => Asked(p) \in Grants /\ Asked(p).agent \in Agents
      /\ Step(p, "find user") \/ Step(p, "insert user") => Asked(p) \in Grants
  <2>1. /\ UNCHANGED <<tokenRow, overlap>>
        /\ provision[p].pc \in {"idle"} \cup Storing
    BY DEF Refuse, DryRun, ProvisionFails, FindUser, RefreshUser, InsertUser, Step,
           Arrives, InFlight, Storing
  <2>2. Asked(p) # NoGrant => Asked(p) \in Grants /\ Asked(p).agent \in Agents
    BY <1>0 DEF TokenTypeOK, Asked
  <2>3. Step(p, "find user") \/ Step(p, "insert user") => Asked(p) \in Grants
    BY DEF TokenIInv, ProgressInv, Orderly, Step, Storing, Asked
  <2> QED BY <2>1, <2>2, <2>3
<1>2. PICK pc \in Place, user \in Provisions \cup {NoGrant} :
        /\ GoesOn(p, pc, user, provision[p].row, provision[p].taken)
        /\ \/ /\ user = provision[p].user /\ UNCHANGED serviceUser
              /\ \/ pc \in {"refused", "dry"} /\ Step(p, "idle")
                 \/ pc = "error" /\ provision[p].pc \in Storing
                 \/ pc = "find token" /\ Step(p, "refresh user")
           \/ /\ Step(p, "find user") /\ UNCHANGED serviceUser
              /\ user = serviceUser[Asked(p).agent]
              /\ pc = IF user = NoGrant THEN "insert user" ELSE "refresh user"
           \/ /\ Step(p, "insert user") /\ pc = "find token" /\ user = p
              /\ serviceUser' = [serviceUser EXCEPT ![Asked(p).agent] = p]
  <2>1. provision[p].user \in Provisions \cup {NoGrant} BY <1>0 DEF TokenTypeOK
  <2>2. CASE Refuse(p) \/ DryRun(p) \/ ProvisionFails(p)
    BY <1>0, <2>1, <2>2, GoesOnBy
    DEF Refuse, DryRun, ProvisionFails, Arrives, InFlight, Place
  <2>3. CASE RefreshUser(p)
    BY <1>0, <2>1, <2>3, GoesOnBy DEF RefreshUser, Place, Storing
  <2>4. CASE FindUser(p)
    <3>1. serviceUser[Asked(p).agent] \in Provisions \cup {NoGrant}
      BY <1>0, <1>1, <2>4 DEF FindUser, TokenTypeOK
    <3> QED BY <1>0, <2>4, <3>1, GoesOnBy DEF FindUser, Place, Storing
  <2>5. CASE InsertUser(p)
    BY <1>0, <2>1, <2>5, GoesOnBy DEF InsertUser, Place, Storing, Step
  <2> QED BY <2>2, <2>3, <2>4, <2>5
<1>3. /\ provision' \in [Provisions -> Request]
      /\ \A q \in Provisions \ {p} : provision'[q] = provision[q]
      /\ provision'[p].pc = pc /\ provision'[p].ask = provision[p].ask
      /\ provision'[p].user = user /\ provision'[p].row = provision[p].row
      /\ provision'[p].taken = provision[p].taken
  <2>1. provision[p].row \in Provisions \cup {NoGrant} /\ provision[p].taken \in BOOLEAN
    BY <1>0 DEF TokenTypeOK
  <2>2. GoesOn(p, pc, user, provision[p].row, provision[p].taken) BY <1>2
  <2>3. PICK row \in Provisions \cup {NoGrant}, taken \in BOOLEAN :
          row = provision[p].row /\ taken = provision[p].taken
    BY <2>1
  <2>4. GoesOn(p, pc, user, row, taken) BY <2>2, <2>3
  <2>5. TokenTypeOK BY <1>0
  <2>6. /\ provision' \in [Provisions -> Request]
        /\ \A q \in Provisions \ {p} : provision'[q] = provision[q]
        /\ provision'[p].pc = pc /\ provision'[p].ask = provision[p].ask
        /\ provision'[p].user = user /\ provision'[p].row = row
        /\ provision'[p].taken = taken
    BY <2>4, <2>5, GoesOnTyped
  <2> QED BY <2>3, <2>6
<1>4. \A q \in Provisions : Asked(q)' = Asked(q)
  BY <1>3 DEF Asked
<1>5. TokenTypeOK'
  <2>1. serviceUser' \in [Agents -> Provisions \cup {NoGrant}]
    BY <1>0, <1>2 DEF TokenTypeOK
  <2>2. disabled' \subseteq Agents
    BY <1>0 DEF TokenTypeOK, Refuse, DryRun, ProvisionFails, FindUser, RefreshUser,
                InsertUser
  <2> QED BY <1>0, <1>1, <1>3, <2>1, <2>2, TypesFromRequests DEF TokenTypeOK
<1>6. ProgressInv'
  <2> SUFFICES ASSUME NEW q \in Provisions PROVE Orderly(provision'[q])
    BY DEF ProgressInv
  <2>0. Orderly(provision[p]) BY DEF TokenIInv, ProgressInv
  <2>1. CASE q # p
    <3>1. provision'[q] = provision[q] BY <1>3, <2>1
    <3>2. ProgressInv BY DEF TokenIInv
    <3> QED BY <3>1, <3>2 DEF ProgressInv
  <2>2. CASE q = p
    <3>1. CASE pc \in {"refused", "dry"} /\ Step(p, "idle") /\ user = provision[p].user
      BY <1>3, <2>2, <3>1 DEF TokenIInv, ProgressInv, Orderly, Step, Asked, Storing
    <3>2. CASE pc = "error"
      BY <1>3, <2>2, <3>2 DEF Orderly, Storing
    <3>3. CASE pc = "find token" /\ Step(p, "refresh user") /\ user = provision[p].user
      BY <1>3, <2>2, <3>3 DEF TokenIInv, ProgressInv, Orderly, Step, Asked, Storing
    <3>4. CASE Step(p, "find user") /\ pc = IF user = NoGrant THEN "insert user" ELSE "refresh user"
      BY <1>1, <1>3, <2>0, <2>2, <3>4 DEF Orderly, Asked, Storing, Step
    <3>5. CASE Step(p, "insert user") /\ pc = "find token" /\ user = p
      BY <1>1, <1>3, <2>0, <2>2, <3>5 DEF Orderly, Asked, Storing, Step
    <3> QED BY <1>2, <3>1, <3>2, <3>3, <3>4, <3>5
  <2> QED BY <2>1, <2>2
<1>7. UserInv'
  <2>1. \A a \in Agents : serviceUser'[a] # NoGrant =>
          serviceUser'[a] \in Provisions /\ Asked(serviceUser'[a]) # NoGrant
          /\ Asked(serviceUser'[a]).agent = a
    <3>1. CASE UNCHANGED serviceUser
      BY <1>0, <3>1 DEF TokenIInv, UserInv, TokenTypeOK
    <3>2. CASE Step(p, "insert user") /\
               serviceUser' = [serviceUser EXCEPT ![Asked(p).agent] = p]
      <4>1. Asked(p) # NoGrant BY <1>1, <3>2
      <4> QED BY ZenonT(60), <1>0, <3>2, <4>1 DEF TokenIInv, UserInv, TokenTypeOK
    <3> QED BY <1>2, <3>1, <3>2
  <2>2. user # NoGrant => /\ Asked(p) # NoGrant /\ Asked(user) # NoGrant
                          /\ Asked(user).agent = Asked(p).agent
    BY <1>1, <1>2 DEF TokenIInv, UserInv, Step
  <2>3. \A q \in Provisions : provision'[q].user # NoGrant =>
          /\ provision'[q].user \in Provisions
          /\ Asked(q) # NoGrant /\ Asked(provision'[q].user) # NoGrant
          /\ Asked(provision'[q].user).agent = Asked(q).agent
    BY <1>0, <1>3, <2>2 DEF TokenIInv, UserInv, TokenTypeOK
  <2>5. (\A q \in Provisions : provision[q].user # NoGrant =>
           /\ Asked(q) # NoGrant /\ Asked(provision[q].user) # NoGrant
           /\ Asked(provision[q].user).agent = Asked(q).agent)'
    <3> SUFFICES ASSUME NEW q \in Provisions, provision'[q].user # NoGrant
                 PROVE  /\ Asked(q)' # NoGrant /\ Asked(provision[q].user)' # NoGrant
                        /\ Asked(provision[q].user)'.agent = Asked(q)'.agent
      OBVIOUS
    <3> DEFINE u == provision'[q].user
    <3>1. u \in Provisions /\ Asked(u) # NoGrant /\ Asked(u).agent = Asked(q).agent
      BY <2>3
    <3>2. Asked(provision[q].user)' = provision'[u].ask BY DEF Asked
    <3>3. provision'[u].ask = provision[u].ask BY <1>4, <3>1 DEF Asked
    <3> QED BY <1>4, <2>3, <3>1, <3>2, <3>3 DEF Asked
  <2>6. (\A a \in Agents : serviceUser[a] # NoGrant =>
           /\ Asked(serviceUser[a]) # NoGrant /\ Asked(serviceUser[a]).agent = a)'
    BY <1>4, <2>1 DEF Asked
  <2> QED BY <2>5, <2>6 DEF UserInv
<1>8. OverlapInv'
  <2>1. InFlight' \subseteq InFlight
    BY <1>2, <1>3 DEF InFlight, Step, Storing
  <2> QED BY <1>1, <2>1, OverlapsStay DEF TokenIInv
<1>9. RowInv' /\ AboutToStore' /\ PairsInv'
  <2>1. Remembers BY <1>1, <1>3, <1>4 DEF Remembers
  <2>2. \A q \in Provisions :
          /\ provision[q].user # NoGrant => provision'[q].user = provision[q].user
          /\ provision'[q].pc \in {"update token", "insert token"} =>
               provision'[q] = provision[q]
    BY <1>1, <1>2, <1>3 DEF TokenIInv, ProgressInv, Orderly, Step, Storing
  <2> QED BY <1>1, <1>5, <1>6, <2>1, <2>2, RowsUntouched
<1> QED BY <1>5, <1>6, <1>7, <1>8, <1>9 DEF TokenIInv

LEMMA ProvisionKeeps ==
  ASSUME TokenIInv, NEW p \in Provisions, Provision(p) PROVE TokenIInv'
<1> USE GrantsAreForAgents
<1>0. TokenTypeOK /\ Step(p, "idle") BY DEF TokenIInv, Provision, Arrives
<1>1. PICK g \in Grants :
        provision' = [provision EXCEPT ![p] =
          [pc |-> "find user", ask |-> g, user |-> NoGrant, row |-> NoGrant,
           taken |-> FALSE]]
  BY DEF Provision, Fresh
<1>2. /\ UNCHANGED <<serviceUser, disabled, tokenRow>>
      /\ overlap' = overlap \cup (InFlight \X {p}) \cup ({p} \X InFlight)
  BY DEF Provision
<1>3. /\ Asked(p) = NoGrant /\ provision[p].user = NoGrant /\ ~provision[p].taken
  BY <1>0 DEF TokenIInv, ProgressInv, Orderly, Step, Asked
<1>4. /\ \A q \in Provisions \ {p} : provision'[q] = provision[q]
      /\ provision'[p].pc = "find user" /\ provision'[p].ask = g
      /\ provision'[p].user = NoGrant /\ provision'[p].taken = FALSE
  BY <1>0, <1>1 DEF TokenTypeOK
<1>5. TokenTypeOK'
  <2>1. provision' \in [Provisions -> Request]
    BY <1>0, <1>1 DEF TokenTypeOK, Request, Place, Storing
  <2>2. overlap' \subseteq Provisions \X Provisions
    BY <1>0, <1>2 DEF TokenTypeOK, InFlight
  <2> QED BY <1>0, <1>2, <2>1, <2>2, TypesFromRequests DEF TokenTypeOK
<1>6. ProgressInv'
  <2>1. \A q \in Provisions \ {p} : Orderly(provision'[q])
    BY <1>4 DEF TokenIInv, ProgressInv
  <2>2. Orderly(provision'[p]) BY <1>4 DEF Orderly, Storing
  <2> QED BY <2>1, <2>2 DEF ProgressInv
<1>7. \A q \in Provisions : Asked(q) # NoGrant =>
        Asked(q)' = Asked(q) /\ provision'[q].user = provision[q].user /\ q # p
  BY <1>3, <1>4 DEF Asked
<1>8. UserInv'
  <2>1. \A a \in Agents : serviceUser[a] # NoGrant =>
          serviceUser[a] \in Provisions /\ Asked(serviceUser[a]) # NoGrant
          /\ Asked(serviceUser[a]).agent = a
    BY <1>0 DEF TokenIInv, UserInv, TokenTypeOK
  <2>2. ASSUME NEW q \in Provisions, provision'[q].user # NoGrant
        PROVE  /\ Asked(q)' # NoGrant /\ Asked(provision[q].user)' # NoGrant
               /\ Asked(provision[q].user)'.agent = Asked(q)'.agent
    <3> DEFINE u == provision[q].user
    <3>1. provision'[q].user = u BY <1>4, <2>2
    <3>2. /\ u \in Provisions /\ Asked(u) # NoGrant /\ Asked(q) # NoGrant
          /\ Asked(u).agent = Asked(q).agent
      BY <1>0, <2>2, <3>1 DEF TokenIInv, UserInv, TokenTypeOK
    <3>3. Asked(u)' = Asked(u) /\ Asked(q)' = Asked(q) BY <1>7, <3>1, <3>2
    <3> QED BY <3>1, <3>2, <3>3
  <2>3. \A a \in Agents : serviceUser'[a] = serviceUser[a] BY <1>2
  <2>4. (\A a \in Agents : serviceUser[a] # NoGrant =>
           /\ Asked(serviceUser[a]) # NoGrant /\ Asked(serviceUser[a]).agent = a)'
    BY <1>2, <1>7, <2>1 DEF Asked
  <2> QED BY <2>2, <2>4 DEF UserInv
<1>9. OverlapInv'
  <2> SUFFICES ASSUME NEW q \in InFlight', NEW r \in InFlight', q # r
               PROVE  <<q, r>> \in overlap'
    BY DEF OverlapInv
  <2>1. \A s \in InFlight' : s = p \/ s \in InFlight BY <1>4 DEF InFlight
  <2>2. OverlapInv BY DEF TokenIInv
  <2> QED BY <1>2, <2>1, <2>2 DEF OverlapInv
<1>10. RowInv' /\ AboutToStore' /\ PairsInv'
  <2>1. Remembers BY <1>2, <1>4, <1>7 DEF Remembers
  <2>2. \A q \in Provisions :
          /\ provision[q].user # NoGrant => provision'[q].user = provision[q].user
          /\ provision'[q].pc \in {"update token", "insert token"} =>
               provision'[q] = provision[q]
    BY <1>3, <1>4
  <2> QED BY <1>2, <1>5, <1>6, <2>1, <2>2, RowsUntouched
<1> QED BY <1>5, <1>6, <1>8, <1>9, <1>10 DEF TokenIInv

(* The rows of a request's agent and name have writers of that agent and   *)
(* name.                                                                   *)
LEMMA KeysName ==
  ASSUME TokenIInv, NEW p \in Provisions, Asked(p) \in Grants,
         provision[p].user # NoGrant, NEW j \in Rows, SameKey(j, p)
  PROVE  tokenRow[j] \in Provisions /\ SameName(p, tokenRow[j])
<1> DEFINE w == tokenRow[j]
<1>1. w \in Provisions /\ Asked(w) \in Grants
  BY DEF Rows, TokenIInv, TokenTypeOK, RowInv
<1>2. Asked(w).name = Asked(p).name /\ provision[w].user = provision[p].user
  BY DEF SameKey, NameOf, UserOf
<1>3. Asked(w).agent = Asked(p).agent
  BY <1>1, <1>2 DEF TokenIInv, UserInv
<1> QED BY <1>1, <1>2, <1>3, GrantsAreForAgents DEF SameName

LEMMA ExcuseShared ==
  ASSUME NEW p \in Provisions, NEW r \in Provisions, SameName(p, r), Excused(r)
  PROVE  Excused(p)
  BY DEF Excused, SameName

Finds(p, pc, row, taken) ==
  provision' = [provision EXCEPT ![p].row = row, ![p].taken = taken, ![p].pc = pc]

LEMMA FoundTyped ==
  ASSUME NEW P, NEW C, NEW A, NEW U, NEW R, NEW B,
         provision \in [P -> [pc : C, ask : A, user : U, row : R, taken : B]],
         NEW p \in P, NEW pc \in C, NEW row \in R, NEW taken \in B,
         Finds(p, pc, row, taken)
  PROVE  provision' \in [P -> [pc : C, ask : A, user : U, row : R, taken : B]]
  BY DEF Finds

LEMMA GoesOnFound ==
  ASSUME TokenTypeOK, NEW p \in Provisions, NEW pc \in Place,
         NEW row \in Provisions \cup {NoGrant}, NEW taken, taken \in BOOLEAN,
         Finds(p, pc, row, taken)
  PROVE  /\ provision' \in [Provisions -> Request]
         /\ \A q \in Provisions \ {p} : provision'[q] = provision[q]
         /\ provision'[p].pc = pc /\ provision'[p].ask = provision[p].ask
         /\ provision'[p].user = provision[p].user
         /\ provision'[p].row = row /\ provision'[p].taken = taken
<1>1. provision \in [Provisions -> Request] BY DEF TokenTypeOK, Request, Place
<1>2. provision' = [provision EXCEPT ![p].row = row, ![p].taken = taken, ![p].pc = pc]
  BY DEF Finds
<1>3. provision' \in [Provisions -> Request]
  <2> DEFINE A == Grants \cup {NoGrant}
             U == Provisions \cup {NoGrant}
             B == BOOLEAN
  <2>1. provision \in [Provisions -> [pc : Place, ask : A, user : U, row : U, taken : B]]
    BY <1>1 DEF Request
  <2>2. row \in U /\ taken \in B OBVIOUS
  <2> HIDE DEF A, U, B
  <2>3. provision' \in [Provisions -> [pc : Place, ask : A, user : U, row : U, taken : B]]
    BY ZenonT(60), <2>1, <2>2, FoundTyped
  <2> QED BY <2>3 DEF Request, A, U, B
<1>4. /\ provision'[p].pc = pc /\ provision'[p].ask = provision[p].ask
      /\ provision'[p].row = row
  BY <1>1, <1>2 DEF Request
<1>5. provision'[p].user = provision[p].user BY <1>1, <1>2 DEF Request
<1>6. provision'[p].taken = taken BY <1>1, <1>2 DEF Request
<1>7. \A q \in Provisions \ {p} : provision'[q] = provision[q] BY <1>1, <1>2
<1> QED BY <1>3, <1>4, <1>5, <1>6, <1>7

LEMMA FindTokenKeeps ==
  ASSUME TokenIInv, NEW p \in Provisions, FindToken(p) PROVE TokenIInv'
<1> USE GrantsAreForAgents
<1> DEFINE found == {i \in Rows : Matches(p, i)}
           taken == \E j \in Rows : /\ HashOf(j) = Asked(p).token
                                    /\ \/ NameOf(j) # Asked(p).name
                                       \/ UserOf(j) # provision[p].user
<1>0. TokenTypeOK /\ Step(p, "find token") /\ provision[p].user # NoGrant
  BY DEF TokenIInv, FindToken, ProgressInv, Orderly, Step
<1>1. PICK i \in IF found = {} THEN {NoGrant} ELSE found :
        provision' = [provision EXCEPT ![p].row = i, ![p].taken = taken,
          ![p].pc = IF i = NoGrant THEN "insert token" ELSE "update token"]
  BY DEF FindToken
<1>2. UNCHANGED <<serviceUser, disabled, tokenRow, overlap>> BY DEF FindToken
<1>3. Rows \subseteq Provisions BY DEF Rows
<1>4. i \in Provisions \cup {NoGrant} /\ (i = NoGrant <=> found = {})
  BY <1>3
<1> DEFINE place == IF i = NoGrant THEN "insert token" ELSE "update token"
<1>5. PICK t : t = taken OBVIOUS
<1>17. t \in BOOLEAN BY <1>5
<1>18. Finds(p, place, i, t) BY <1>1, <1>5 DEF Finds
<1>19. place \in Place BY DEF Place, Storing
<1> HIDE DEF taken, found, place
<1>6. /\ provision' \in [Provisions -> Request]
      /\ \A q \in Provisions \ {p} : provision'[q] = provision[q]
      /\ provision'[p].pc = place
      /\ provision'[p].ask = provision[p].ask
      /\ provision'[p].user = provision[p].user /\ provision'[p].row = i
      /\ provision'[p].taken = t
  <2> DEFINE Goal(pc, row, taking) ==
        /\ provision' \in [Provisions -> Request]
        /\ \A q \in Provisions \ {p} : provision'[q] = provision[q]
        /\ provision'[p].pc = pc /\ provision'[p].ask = provision[p].ask
        /\ provision'[p].user = provision[p].user
        /\ provision'[p].row = row /\ provision'[p].taken = taking
  <2>0. TokenTypeOK BY <1>0
  <2>1. \A pc \in Place : \A row \in Provisions \cup {NoGrant} : \A taking :
          taking \in BOOLEAN /\ Finds(p, pc, row, taking) => Goal(pc, row, taking)
    BY <2>0, GoesOnFound
  <2> HIDE DEF Goal
  <2>2. i \in Provisions \cup {NoGrant} BY <1>4
  <2>3. Goal(place, i, t) BY <1>17, <1>18, <1>19, <2>1, <2>2
  <2> QED BY <2>3 DEF Goal
<1> USE DEF place
<1>7. /\ \A q \in Provisions : Asked(q)' = Asked(q)
      /\ \A q \in Provisions : provision'[q].user = provision[q].user
  BY <1>6 DEF Asked
<1>8. TokenTypeOK' BY <1>0, <1>2, <1>6, TypesFromRequests DEF TokenTypeOK
<1>9. ProgressInv'
  <2>1. \A q \in Provisions \ {p} : Orderly(provision'[q])
    BY <1>6 DEF TokenIInv, ProgressInv
  <2>2. Asked(p) \in Grants
    BY <1>0 DEF TokenIInv, ProgressInv, Orderly, Step, Storing, Asked
  <2>3. Orderly(provision'[p])
    BY <1>0, <1>4, <1>6, <2>2 DEF Orderly, Storing, Asked
  <2> QED BY <2>1, <2>3 DEF ProgressInv
<1>10. UserInv' BY <1>0, <1>2, <1>7, UsersKept DEF TokenIInv
<1>11. OverlapInv'
  <2>1. InFlight' \subseteq InFlight
    BY <1>0, <1>6 DEF InFlight, Step, Storing
  <2> QED BY <1>2, <2>1, OverlapsStay DEF TokenIInv
<1>12. Remembers
  <2>1. ~provision[p].taken
    BY <1>0 DEF TokenIInv, ProgressInv, Orderly, Step
  <2> QED BY <1>2, <1>6, <1>7, <2>1 DEF Remembers
<1>13. /\ Rows' = Rows
       /\ \A j \in Rows : /\ tokenRow[j] \in Provisions /\ tokenRow'[j] = tokenRow[j]
                          /\ NameOf(j)' = NameOf(j) /\ UserOf(j)' = UserOf(j)
  BY <1>0, <1>2, <1>7 DEF Rows, NameOf, UserOf, Asked, TokenTypeOK
<1>14. RowInv'
  BY ZenonT(60), <1>7, <1>13 DEF RowInv, TokenIInv, Asked, UserOf
<1>15. PairsInv'
  <2> SUFFICES ASSUME NEW k \in Rows, NEW j \in Rows, k # j,
                      NameOf(k) = NameOf(j), UserOf(k) = UserOf(j)
               PROVE  Excused(tokenRow[k])'
    BY <1>13 DEF PairsInv
  <2> DEFINE r == tokenRow[k]
  <2>1. Excused(r) BY DEF TokenIInv, PairsInv
  <2>2. r \in Provisions /\ tokenRow'[k] = r BY <1>13
  <2>3. Excused(r)' BY <1>12, <2>1, <2>2, ExcusesLast
  <2> QED BY <2>2, <2>3
<1>16. AboutToStore'
  <2> SUFFICES ASSUME NEW q \in Provisions, NEW j \in Rows,
                      provision'[q].pc \in {"update token", "insert token"},
                      j # Target(q)', SameKey(j, q)'
               PROVE  Excused(q)'
    BY <1>13 DEF AboutToStore
  <2>1. SameKey(j, q) BY <1>7, <1>13 DEF SameKey
  <2>2. CASE q # p
    <3>1. provision'[q] = provision[q] BY <1>6, <2>2
    <3>2. j # Target(q) BY <3>1 DEF Target, Step
    <3>3. Excused(q) BY <2>1, <3>1, <3>2 DEF TokenIInv, AboutToStore
    <3> QED BY <1>12, <3>3, ExcusesLast
  <2>3. CASE q = p
    <3>1. j \in found BY <2>1, <2>3 DEF found, Matches, SameKey
    <3>2. i \in found /\ i # NoGrant /\ i \in Rows /\ Matches(p, i)
      BY <1>1, <1>4, <3>1 DEF found
    <3>3. j # i BY <1>6, <2>3, <3>2 DEF Target, Step
    <3>4. Asked(p) \in Grants
      BY <1>0 DEF TokenIInv, ProgressInv, Orderly, Step, Storing, Asked
    <3>5. CASE SameKey(i, p)
      <4>1. Excused(tokenRow[i])
        BY <2>1, <2>3, <3>2, <3>3, <3>5 DEF TokenIInv, PairsInv, SameKey
      <4>2. Excused(p)
        BY <1>0, <3>2, <3>4, <3>5, <4>1, KeysName, ExcuseShared
      <4> QED BY <1>12, <2>3, <4>2, ExcusesLast
    <3>6. CASE ~SameKey(i, p)
      <4>1. taken BY <3>2, <3>6 DEF taken, Matches, SameKey
      <4>2. provision'[p].taken BY <1>5, <1>6, <4>1
      <4>3. SameName(p, p)' BY <1>7, <3>4 DEF SameName
      <4> QED BY <2>3, <4>2, <4>3 DEF Excused
    <3> QED BY <3>5, <3>6
  <2> QED BY <2>2, <2>3
<1> QED BY <1>8, <1>9, <1>10, <1>11, <1>14, <1>15, <1>16 DEF TokenIInv

(* A stored row is the only one of its name, or its name is excused.       *)
LEMMA StoreKeeps ==
  ASSUME TokenIInv, NEW p \in Provisions, UpdateToken(p) \/ InsertToken(p)
  PROVE  TokenIInv'
<1> USE GrantsAreForAgents
<1>0. PICK id \in Provisions :
         /\ TokenTypeOK /\ (Step(p, "update token") \/ Step(p, "insert token"))
         /\ UNCHANGED <<serviceUser, disabled, overlap>>
         /\ id = Target(p) /\ Store(p, id)
  BY DEF UpdateToken, InsertToken, Target, Step, TokenIInv, ProgressInv, Orderly
<1>1. Asked(p) \in Grants /\ provision[p].user # NoGrant /\ p \in InFlight
  BY <1>0 DEF TokenIInv, ProgressInv, Orderly, Step, Storing, Asked, InFlight
<1>2. PICK pc \in {"ready", "error"} :
        GoesOn(p, pc, provision[p].user, provision[p].row, provision[p].taken)
  BY <1>0, GoesOnBy
<1>3. /\ provision' \in [Provisions -> Request]
      /\ \A q \in Provisions \ {p} : provision'[q] = provision[q]
      /\ provision'[p].pc = pc /\ provision'[p].ask = provision[p].ask
      /\ provision'[p].user = provision[p].user
      /\ provision'[p].taken = provision[p].taken
  <2>1. /\ provision[p].row \in Provisions \cup {NoGrant}
        /\ provision[p].user \in Provisions \cup {NoGrant}
        /\ provision[p].taken \in BOOLEAN
    BY <1>0 DEF TokenTypeOK
  <2>2. pc \in Place BY DEF Place
  <2>3. GoesOn(p, pc, provision[p].user, provision[p].row, provision[p].taken)
    BY <1>2
  <2>4. PICK user \in Provisions \cup {NoGrant}, row \in Provisions \cup {NoGrant},
             taken \in BOOLEAN :
          /\ user = provision[p].user /\ row = provision[p].row
          /\ taken = provision[p].taken
    BY <2>1
  <2>5. GoesOn(p, pc, user, row, taken) BY <2>3, <2>4
  <2>6. TokenTypeOK BY <1>0
  <2>7. /\ provision' \in [Provisions -> Request]
        /\ \A q \in Provisions \ {p} : provision'[q] = provision[q]
        /\ provision'[p].pc = pc /\ provision'[p].ask = provision[p].ask
        /\ provision'[p].user = user /\ provision'[p].row = row
        /\ provision'[p].taken = taken
    BY <2>2, <2>5, <2>6, GoesOnTyped
  <2> QED BY <2>4, <2>7
<1>4. \/ UNCHANGED tokenRow
      \/ tokenRow' = [tokenRow EXCEPT ![id] = p]
  BY <1>0 DEF Store
<1>5. \A q \in Provisions : /\ Asked(q)' = Asked(q)
                            /\ provision'[q].user = provision[q].user
  BY <1>3 DEF Asked
<1>6. TokenTypeOK'
  <2>1. tokenRow' \in [Provisions -> Provisions \cup {NoGrant}]
    BY <1>0, <1>4 DEF TokenTypeOK
  <2> QED BY <1>0, <1>3, <2>1, TypesFromRequests DEF TokenTypeOK
<1>7. ProgressInv'
  <2>1. \A q \in Provisions \ {p} : Orderly(provision'[q])
    BY <1>3 DEF TokenIInv, ProgressInv
  <2>2. Orderly(provision'[p]) BY <1>3 DEF Orderly, Storing
  <2> QED BY <2>1, <2>2 DEF ProgressInv
<1>8. UserInv' BY <1>0, <1>5, UsersKept DEF TokenIInv
<1>9. OverlapInv'
  <2>1. InFlight' \subseteq InFlight BY <1>3 DEF InFlight, Storing
  <2> QED BY <1>0, <2>1, OverlapsStay DEF TokenIInv
<1>10. Remembers BY <1>0, <1>3, <1>5 DEF Remembers
<1>11. CASE UNCHANGED tokenRow
  <2>1. \A q \in Provisions :
          /\ provision[q].user # NoGrant => provision'[q].user = provision[q].user
          /\ provision'[q].pc \in {"update token", "insert token"} =>
               provision'[q] = provision[q]
    BY <1>3
  <2>2. RowInv' /\ AboutToStore' /\ PairsInv'
    BY <1>6, <1>7, <1>10, <1>11, <2>1, RowsUntouched
  <2> QED BY <1>6, <1>7, <1>8, <1>9, <2>2 DEF TokenIInv
<1>12. CASE tokenRow' = [tokenRow EXCEPT ![id] = p]
  <2>1. /\ Rows' = Rows \cup {id} /\ tokenRow'[id] = p
        /\ NameOf(id)' = Asked(p).name /\ UserOf(id)' = provision[p].user
    BY <1>0, <1>5, <1>12 DEF Rows, NameOf, UserOf, Asked, TokenTypeOK
  <2>2. \A j \in Rows \ {id} :
          /\ tokenRow[j] \in Provisions /\ tokenRow'[j] = tokenRow[j]
          /\ NameOf(j)' = NameOf(j) /\ UserOf(j)' = UserOf(j)
          /\ Asked(tokenRow[j]) \in Grants
    BY <1>0, <1>5, <1>12
    DEF Rows, NameOf, UserOf, Asked, TokenTypeOK, RowInv, TokenIInv
  <2>3. RowInv'
    <3> SUFFICES ASSUME NEW j \in Rows'
                 PROVE  Asked(tokenRow[j])' \in Grants /\ UserOf(j)' # NoGrant
      BY DEF RowInv
    <3>1. CASE j = id
      <4>1. Asked(p)' \in Grants BY <1>1, <1>5
      <4> QED BY <1>1, <2>1, <3>1, <4>1
    <3>2. CASE j # id
      <4> DEFINE w == tokenRow[j]
      <4>1. j \in Rows \ {id} BY <2>1, <3>2
      <4>2. w \in Provisions /\ tokenRow'[j] = w /\ Asked(w) \in Grants
            /\ UserOf(j) # NoGrant
        BY <2>2, <4>1 DEF RowInv, TokenIInv
      <4>3. Asked(w)' \in Grants BY <1>5, <4>2
      <4> QED BY <2>2, <4>1, <4>2, <4>3
    <3> QED BY <3>1, <3>2
  <2>4. \A j \in Rows \ {id} : SameKey(j, p) => Excused(p)
    BY <1>0 DEF TokenIInv, AboutToStore, Step
  <2>5. PairsInv'
    <3> SUFFICES ASSUME NEW i \in Rows', NEW j \in Rows', i # j,
                        NameOf(i)' = NameOf(j)', UserOf(i)' = UserOf(j)'
                 PROVE  Excused(tokenRow[i])'
      BY DEF PairsInv
    <3>1. CASE i = id
      <4>1. j \in Rows \ {id} /\ SameKey(j, p)
        BY <2>1, <2>2, <3>1 DEF SameKey
      <4>2. Excused(p)' BY <1>10, <2>4, <4>1, ExcusesLast
      <4> QED BY <2>1, <3>1, <4>2
    <3>2. CASE i # id
      <4> DEFINE r == tokenRow[i]
      <4>1. i \in Rows \ {id} /\ r \in Provisions /\ tokenRow'[i] = r
        BY <2>1, <2>2, <3>2
      <4>2. CASE j = id
        <5>1. SameKey(i, p) BY <2>1, <2>2, <4>1, <4>2 DEF SameKey
        <5>2. Excused(p) /\ SameName(p, r) BY <1>1, <2>4, <4>1, <5>1, KeysName
        <5>3. SameName(r, p) BY <5>2 DEF SameName
        <5>4. Excused(r) BY <4>1, <5>2, <5>3, ExcuseShared
        <5>5. Excused(r)' BY <1>10, <4>1, <5>4, ExcusesLast
        <5> QED BY <4>1, <5>5
      <4>3. CASE j # id
        <5>1. j \in Rows \ {id} BY <2>1, <4>3
        <5>2. Excused(r) BY <2>2, <4>1, <5>1 DEF TokenIInv, PairsInv
        <5>3. Excused(r)' BY <1>10, <4>1, <5>2, ExcusesLast
        <5> QED BY <4>1, <5>3
      <4> QED BY <4>2, <4>3
    <3> QED BY <3>1, <3>2
  <2>6. AboutToStore'
    <3> SUFFICES ASSUME NEW q \in Provisions, NEW j \in Rows',
                        provision'[q].pc \in {"update token", "insert token"},
                        j # Target(q)', SameKey(j, q)'
                 PROVE  Excused(q)'
      BY DEF AboutToStore
    <3>1. q # p /\ provision'[q] = provision[q] BY <1>3
    <3>2. CASE j # id
      <4>1. j \in Rows /\ j # Target(q) /\ SameKey(j, q)
        BY <1>5, <2>1, <2>2, <3>1, <3>2 DEF Target, Step, SameKey
      <4>2. Excused(q) BY <3>1, <4>1 DEF TokenIInv, AboutToStore
      <4> QED BY <1>10, <4>2, ExcusesLast
    <3>3. CASE j = id
      <4>1. Asked(q) \in Grants /\ q \in InFlight
        BY <3>1 DEF TokenIInv, ProgressInv, Orderly, Storing, Asked, InFlight
      <4>2. Asked(q).name = Asked(p).name /\ provision[q].user = provision[p].user
        BY <1>5, <2>1, <3>3 DEF SameKey
      <4>3. Asked(q).agent = Asked(p).agent
        BY <1>1, <4>2 DEF TokenIInv, UserInv
      <4>4. <<p, q>> \in overlap' BY <1>0, <1>1, <3>1, <4>1 DEF TokenIInv, OverlapInv
      <4>5. SameName(p, q)' /\ SameName(q, q)'
        BY <1>1, <1>5, <4>1, <4>2, <4>3 DEF SameName
      <4> QED BY <4>4, <4>5 DEF Excused
    <3> QED BY <3>2, <3>3
  <2> QED BY <1>6, <1>7, <1>8, <1>9, <2>3, <2>5, <2>6 DEF TokenIInv
<1> QED BY <1>4, <1>11, <1>12

(* Every step keeps the invariant.                                         *)
LEMMA TokenKept == TokenIInv /\ [TokenNext]_tokenVars => TokenIInv'
<1> SUFFICES ASSUME TokenIInv, [TokenNext]_tokenVars PROVE TokenIInv' OBVIOUS
<1>1. ASSUME UNCHANGED <<serviceUser, tokenRow, provision, overlap>>, disabled' \subseteq Agents
      PROVE  TokenIInv'
  <2> USE <1>1
  <2>1. TokenTypeOK' BY DEF TokenIInv, TokenTypeOK
  <2>2. ProgressInv' BY DEF TokenIInv, ProgressInv
  <2>3. UserInv' BY UsersKept DEF TokenIInv, Asked
  <2>4. OverlapInv' BY DEF TokenIInv, OverlapInv, InFlight
  <2>5. Remembers BY DEF Remembers, Asked
  <2>6. RowInv' /\ AboutToStore' /\ PairsInv' BY <2>1, <2>2, <2>5, RowsUntouched
  <2> QED BY <2>1, <2>2, <2>3, <2>4, <2>6 DEF TokenIInv
<1>2. CASE UNCHANGED tokenVars
  BY <1>1, <1>2 DEF tokenVars, TokenIInv, TokenTypeOK
<1>3. ASSUME NEW a \in Agents, DisableAgent(a) PROVE TokenIInv'
  BY <1>1, <1>3 DEF DisableAgent, TokenIInv, TokenTypeOK
<1> QED
  BY <1>2, <1>3, UserSteps, ProvisionKeeps, FindTokenKeeps, StoreKeeps DEF TokenNext
-----------------------------------------------------------------------------
(* The desk only chooses which of the two a behaviour tells.               *)
AccountsIInv == desk \in {"editors", "agents"} /\ SsoIInv /\ TokenIInv

LEMMA AccountsInitially == AccountsInit => AccountsIInv
  BY SsoInitially, TokenInitially DEF AccountsInit, AccountsIInv

LEMMA AccountsKept == AccountsIInv /\ [AccountsNext]_accountsVars => AccountsIInv'
  BY SsoKept, TokenKept DEF AccountsIInv, AccountsNext, accountsVars

(* The invariant holds in every reachable state.                           *)
THEOREM AccountsInvariance == AccountsSpec => []AccountsIInv
  BY AccountsInitially, AccountsKept, PTL DEF AccountsSpec

(* Every variable of the sign-in and of the tokens keeps its type.         *)
THEOREM AccountsTypes == AccountsSpec => []AccountsTypeOK
<1>1. AccountsIInv => AccountsTypeOK
  BY DEF AccountsIInv, AccountsTypeOK, SsoIInv, TokenIInv
<1> QED BY <1>1, AccountsInvariance, PTL

(* createAdminSsoExchangeSession opens one session for a link at most, of  *)
(* those of this site, whatever statement commits after its timeout.       *)
THEOREM OneSessionPerLink == AccountsSpec => []LinkOpensOneSession
<1>1. AccountsIInv => LinkOpensOneSession
  BY DEF AccountsIInv, SsoIInv, LinkInv, MayHold, LinkOpensOneSession
<1> QED BY <1>1, AccountsInvariance, PTL

(* requireBuilderAccess lets a request in only by a role that its guard    *)
(* admits: over a session, by the role of the link that opened it and not  *)
(* after its revocation; else by the role that its headers name.           *)
THEOREM RevokedIsOut == AccountsSpec => []RevokedStaysOut
<1>1. AccountsIInv => RevokedStaysOut
  BY DEF AccountsIInv, SsoIInv, VisitInv, OverSession, RevokedStaysOut
<1> QED BY <1>1, AccountsInvariance, PTL

(* The two token endpoints leave one accepted token of each agent and      *)
(* name, except after provisions of that name that overlapped, or one that *)
(* was given a token of another name.                                      *)
THEOREM OldTokenRetired == AccountsSpec => []RotationRetiresTheOld
<1>1. AccountsIInv => RotationRetiresTheOld
  BY DEF AccountsIInv, TokenIInv, PairsInv, Excused, RotationRetiresTheOld
<1> QED BY <1>1, AccountsInvariance, PTL
=============================================================================
