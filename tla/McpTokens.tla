----------------------------- MODULE McpTokens ------------------------------
(***************************************************************************)
(* The access tokens of the two agents that edit a site: the builder       *)
(* (editor/provision-mcp-token.ts) and OpenHands                           *)
(* (provision/emdash-mcp-token.ts).  Each endpoint makes sure of a service *)
(* user, looks for a token row and updates or inserts it, one D1 statement *)
(* at a time.  Hashes are without collisions.                              *)
(***************************************************************************)
EXTENDS Naturals

CONSTANTS
  Provisions,   \* requests to either endpoint, numbered as they arrive
  Grants,       \* what they may ask: an agent, a token name, a token
  NoGrant       \* none yet

Agents == {"builder", "openhands"}

ASSUME GrantsAreForAgents ==
  /\ Provisions \subseteq Nat
  /\ \A g \in Grants : DOMAIN g = {"agent", "name", "token"} /\ g.agent \in Agents
  /\ NoGrant \notin Grants /\ NoGrant \notin Provisions

VARIABLES
  serviceUser,  \* users: by UNIQUE email, the id (the request that drew it)
  disabled,     \* users.disabled of the two
  tokenRow,     \* _emdash_api_tokens: by id, the request that wrote it last
  provision,    \* where each request is, what it asks and has found
  overlap       \* requests that ran at the same time (history)

tokenVars == <<serviceUser, disabled, tokenRow, provision, overlap>>

Storing == {"find user", "refresh user", "insert user", "find token",
            "update token", "insert token"}
Fresh == [pc |-> "idle", ask |-> NoGrant, user |-> NoGrant, row |-> NoGrant,
          taken |-> FALSE]

TokenTypeOK ==
  /\ serviceUser \in [Agents -> Provisions \cup {NoGrant}]
  /\ disabled \subseteq Agents
  /\ tokenRow \in [Provisions -> Provisions \cup {NoGrant}]
  /\ provision \in [Provisions ->
       [pc : Storing \cup {"idle", "refused", "dry", "error", "ready"},
        ask : Grants \cup {NoGrant}, user : Provisions \cup {NoGrant},
        row : Provisions \cup {NoGrant}, taken : BOOLEAN]]
  /\ overlap \subseteq Provisions \X Provisions

TokenInit ==
  /\ serviceUser = [a \in Agents |-> NoGrant]
  /\ disabled = {}
  /\ tokenRow = [i \in Provisions |-> NoGrant]
  /\ provision = [p \in Provisions |-> Fresh]
  /\ overlap = {}

Step(p, pc) == provision[p].pc = pc
Asked(p) == provision[p].ask
Arrives(p) == Step(p, "idle") /\ \A q \in Provisions : q < p => ~Step(q, "idle")
InFlight == {p \in Provisions : provision[p].pc \in Storing}

Rows == {i \in Provisions : tokenRow[i] # NoGrant}
HashOf(i) == Asked(tokenRow[i]).token
NameOf(i) == Asked(tokenRow[i]).name
UserOf(i) == provision[tokenRow[i]].user

-----------------------------------------------------------------------------
(* A token of the wrong form, a wrong secret or bearer, an editor without  *)
(* the right to publish, or a deployment without its secrets               *)
Refuse(p) ==
  /\ Arrives(p)
  /\ provision' = [provision EXCEPT ![p].pc = "refused"]
  /\ UNCHANGED <<serviceUser, disabled, tokenRow, overlap>>

(* OpenHands only: two reads and no write                                  *)
DryRun(p) ==
  /\ Arrives(p)
  /\ provision' = [provision EXCEPT ![p].pc = "dry"]
  /\ UNCHANGED <<serviceUser, disabled, tokenRow, overlap>>

Provision(p) ==
  /\ Arrives(p)
  /\ \E g \in Grants :
       provision' = [provision EXCEPT ![p] =
                       [Fresh EXCEPT !.pc = "find user", !.ask = g]]
  /\ overlap' = overlap \cup (InFlight \X {p}) \cup ({p} \X InFlight)
  /\ UNCHANGED <<serviceUser, disabled, tokenRow>>

FindUser(p) ==
  /\ Step(p, "find user")
  /\ LET id == serviceUser[Asked(p).agent]
     IN provision' = [provision EXCEPT
          ![p].user = id,
          ![p].pc = IF id = NoGrant THEN "insert user" ELSE "refresh user"]
  /\ UNCHANGED <<serviceUser, disabled, tokenRow, overlap>>

(* The name and the role are those of every provision; a user that was     *)
(* disabled comes back.                                                    *)
RefreshUser(p) ==
  /\ Step(p, "refresh user")
  /\ disabled' = disabled \ {Asked(p).agent}
  /\ provision' = [provision EXCEPT ![p].pc = "find token"]
  /\ UNCHANGED <<serviceUser, tokenRow, overlap>>

(* UNIQUE (email)                                                          *)
InsertUser(p) ==
  /\ Step(p, "insert user")
  /\ IF serviceUser[Asked(p).agent] = NoGrant
     THEN /\ serviceUser' = [serviceUser EXCEPT ![Asked(p).agent] = p]
          /\ provision' = [provision EXCEPT ![p].pc = "find token", ![p].user = p]
     ELSE /\ provision' = [provision EXCEPT ![p].pc = "error"]
          /\ UNCHANGED serviceUser
  /\ UNCHANGED <<disabled, tokenRow, overlap>>

(* Mutant: a row is looked for by its hash alone.                          *)
MatchesHash(p, i) == HashOf(i) = Asked(p).token

(* WHERE token_hash = ? OR (name = ? AND user_id = ?)                      *)
Matches(p, i) ==
  \/ HashOf(i) = Asked(p).token
  \/ NameOf(i) = Asked(p).name /\ UserOf(i) = provision[p].user

(* LIMIT 1 without an order: any row that matches                          *)
FindToken(p) ==
  /\ Step(p, "find token")
  /\ LET found == {i \in Rows : Matches(p, i)}
     IN \E i \in IF found = {} THEN {NoGrant} ELSE found :
          provision' = [provision EXCEPT
            ![p].row = i,
            ![p].taken = \E j \in Rows : /\ HashOf(j) = Asked(p).token
                                         /\ \/ NameOf(j) # Asked(p).name
                                            \/ UserOf(j) # provision[p].user,
            ![p].pc = IF i = NoGrant THEN "insert token" ELSE "update token"]
  /\ UNCHANGED <<serviceUser, disabled, tokenRow, overlap>>

(* UNIQUE (token_hash); the answer may be lost.                            *)
Store(p, id) ==
  IF \E j \in Rows \ {id} : HashOf(j) = Asked(p).token
  THEN /\ provision' = [provision EXCEPT ![p].pc = "error"]
       /\ UNCHANGED tokenRow
  ELSE /\ tokenRow' = [tokenRow EXCEPT ![id] = p]
       /\ \E pc \in {"ready", "error"} : provision' = [provision EXCEPT ![p].pc = pc]

UpdateToken(p) ==
  /\ Step(p, "update token")
  /\ Store(p, provision[p].row)
  /\ UNCHANGED <<serviceUser, disabled, overlap>>

InsertToken(p) ==
  /\ Step(p, "insert token")
  /\ Store(p, p)
  /\ UNCHANGED <<serviceUser, disabled, overlap>>

(* An error of D1, or the end of the worker                                *)
ProvisionFails(p) ==
  /\ p \in InFlight
  /\ provision' = [provision EXCEPT ![p].pc = "error"]
  /\ UNCHANGED <<serviceUser, disabled, tokenRow, overlap>>

(* An administrator, in EmDash                                             *)
DisableAgent(a) ==
  /\ serviceUser[a] # NoGrant
  /\ disabled' = disabled \cup {a}
  /\ UNCHANGED <<serviceUser, tokenRow, provision, overlap>>

TokenNext ==
  \/ \E p \in Provisions :
       \/ Refuse(p) \/ DryRun(p) \/ Provision(p) \/ FindUser(p) \/ RefreshUser(p)
       \/ InsertUser(p) \/ FindToken(p) \/ UpdateToken(p) \/ InsertToken(p)
       \/ ProvisionFails(p)
  \/ \E a \in Agents : DisableAgent(a)

TokenSpec == TokenInit /\ [][TokenNext]_tokenVars

-----------------------------------------------------------------------------
(* A provision retires the token that its agent and name had before: two   *)
(* tokens of one name are accepted only after two provisions of that name  *)
(* ran at the same time, or after one was given a token that another name  *)
(* already had.                                                            *)
SameName(p, q) ==
  /\ NoGrant \notin {Asked(p), Asked(q)}
  /\ Asked(p).agent = Asked(q).agent /\ Asked(p).name = Asked(q).name

RotationRetiresTheOld ==
  \A i, j \in Rows :
    i # j /\ NameOf(i) = NameOf(j) /\ UserOf(i) = UserOf(j) =>
      \E p, q \in Provisions :
        /\ SameName(p, tokenRow[i]) /\ SameName(q, tokenRow[i])
        /\ <<p, q>> \in overlap \/ provision[p].taken
=============================================================================
