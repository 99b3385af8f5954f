----------------------------- MODULE MCAccounts -----------------------------
EXTENDS Accounts, TLC

CONSTANTS l1, l2, l3

Roles == l1 :> "editor" @@ l2 :> "viewer" @@ l3 :> "owner"

Ask(agent, name, token) == [agent |-> agent, name |-> name, token |-> token]
MCGrants == {Ask("builder", "builder", "t1"), Ask("builder", "builder", "t2"),
             Ask("openhands", "openhands", "t2")}
=============================================================================
