------------------------------ MODULE Accounts ------------------------------
(***************************************************************************)
(* Who may edit the site: people with a session, agents with a token.  The *)
(* two share no table, so a behaviour is one of either: the first state    *)
(* chooses which, the other stays as it is.                                *)
(***************************************************************************)
EXTENDS AdminSso, McpTokens

VARIABLE desk

accountsVars == <<ssoVars, tokenVars, desk>>

AccountsTypeOK ==
  desk \in {"editors", "agents"} /\ SsoTypeOK /\ TokenTypeOK

AccountsInit ==
  /\ desk \in {"editors", "agents"}
  /\ SsoInit /\ TokenInit

AccountsNext ==
  /\ UNCHANGED desk
  /\ \/ desk = "editors" /\ SsoNext /\ UNCHANGED tokenVars
     \/ desk = "agents" /\ TokenNext /\ UNCHANGED ssoVars

AccountsSpec ==
  /\ AccountsInit /\ [][AccountsNext]_accountsVars
  /\ desk = "editors" => SsoFairness
=============================================================================
