----------------------------- MODULE MC_Stores -----------------------------
(***************************************************************************)
(* The server's persistent state for TLC: the terminal registry and the    *)
(* accounts.  They share no state, so one behaviour runs one of the two    *)
(* and leaves the other as it began.                                       *)
(***************************************************************************)
EXTENDS Registry, Accounts, TLC

VARIABLE store   \* the one of the two that runs

StoresInit == RegInit /\ AccInit /\ store \in {"registry", "accounts"}

StoresNext ==
    /\ UNCHANGED store
    /\ \/ store = "registry" /\ RegNext /\ UNCHANGED accVars
       \/ store = "accounts" /\ AccNext /\ UNCHANGED regVars

StoresSpec == StoresInit /\ [][StoresNext]_<<store, regVars, accVars>>

\* The values of both components stay of their types: a listed endpoint has its
\* owner and time, a row of users a name, a password and a role.
StoresTypeOK == RegTypeOK /\ AccTypeOK

\* What an administrator asks for: names that are free or taken, sets of
\* permissions that are valid, invalid or empty, accounts enabled or not.
MCCreations ==
    {[name |-> "amy", grant |-> {"view_audit"}, enabled |-> "keep"],
     [name |-> "admin", grant |-> {"manage_assets"}, enabled |-> "keep"],
     [name |-> "admin", grant |-> {}, enabled |-> "off"]}
MCPatches ==
    {[granting |-> TRUE, grant |-> {"view_audit"}, name |-> "amy", enabled |-> "off"],
     [granting |-> TRUE, grant |-> {"manage_users"}, name |-> NoName, enabled |-> "keep"],
     [granting |-> FALSE, grant |-> {}, name |-> "bob", enabled |-> "on"],
     [granting |-> FALSE, grant |-> {}, name |-> NoName, enabled |-> "off"]}

Symmetry == Permutations(Requests) \cup Permutations(Handlers) \cup Permutations(Jobs)
=============================================================================
