------------------------------ MODULE Accounts ------------------------------
(***************************************************************************)
(* Accounts and API keys: server/routes/auth.py over UserRepository, and   *)
(* the credentials require_auth of chaosmesh_arena/auth/middleware.py      *)
(* accepts.                                                                *)
(*                                                                         *)
(* A handler's code between two awaits is an action; the database commits  *)
(* one transaction at a time.  A key is the number of its row: what is     *)
(* hashed, compared and shown of it is left out, and so are the lists and  *)
(* profiles, which change nothing, the plans and the monthly counts, which *)
(* Sessions reads.  No code deactivates a user.                            *)
(***************************************************************************)
EXTENDS Naturals, Sequences

CONSTANTS
    Emails,
    MaxRegistrations,      \* bound on the registrations of an email at a time
    MaxKeys                \* bound on the keys ever made

ASSUME AccountsAssumption == MaxRegistrations \in Nat /\ MaxKeys \in Nat \ {0}

VARIABLES
    users,         \* the users table: the email of each row
    keys,          \* the api_keys table
    registering,   \* email -> the register requests that have passed the check
    dead           \* history: the keys whose revocation has been answered

accountVars == <<users, keys, registering, dead>>

APIKey == [owner : Nat, revoked : BOOLEAN]
NewKey(u) == [owner |-> u, revoked |-> FALSE]

AccountsInit ==
    /\ users = <<>>
    /\ keys = <<>>
    /\ registering = [e \in Emails |-> 0]
    /\ dead = {}

Taken(e) == \E u \in DOMAIN users : users[u] = e

\* register up to the await of create_user.  A 409 for an email that has an account
\* changes nothing.
Register(e) ==
    /\ ~Taken(e) /\ registering[e] < MaxRegistrations
    /\ registering' = [registering EXCEPT ![e] = @ + 1]
    /\ UNCHANGED <<users, keys, dead>>

\* Seeded fault: the table has no unique index on the email.
CreateUser_NoUniqueIndex(e) ==
    /\ registering[e] > 0 /\ Len(keys) < MaxKeys
    /\ registering' = [registering EXCEPT ![e] = @ - 1]
    /\ users' = Append(users, e)
    /\ keys' = Append(keys, NewKey(Len(users')))
    /\ UNCHANGED dead

\* create_user: the user and its first key in one transaction.  The unique index of the
\* table refuses a second user with the email: a 500.
CreateUser(e) ==
    /\ registering[e] > 0 /\ (Taken(e) \/ Len(keys) < MaxKeys)
    /\ registering' = [registering EXCEPT ![e] = @ - 1]
    /\ IF Taken(e)
       THEN UNCHANGED <<users, keys>>
       ELSE users' = Append(users, e) /\ keys' = Append(keys, NewKey(Len(users')))
    /\ UNCHANGED dead

\* POST /auth/keys, its user authenticated elsewhere.
CreateKey(u) ==
    /\ u \in DOMAIN users /\ Len(keys) < MaxKeys
    /\ keys' = Append(keys, NewKey(u))
    /\ UNCHANGED <<users, registering, dead>>

\* DELETE /auth/keys/{id} by the owner of the key.
RevokeKey(k) ==
    /\ k \in DOMAIN keys /\ k \notin dead
    /\ keys' = [keys EXCEPT ![k].revoked = TRUE]
    /\ dead' = dead \union {k}
    /\ UNCHANGED <<users, registering>>

AccountsNext ==
    \/ \E e \in Emails : Register(e) \/ CreateUser(e)
    \/ \E u \in DOMAIN users : CreateKey(u)
    \/ \E k \in DOMAIN keys : RevokeKey(k)

-----------------------------------------------------------------------------
(* Credentials                                                               *)

\* The query of get_by_api_key.
Finds(k) == k \in DOMAIN keys /\ ~keys[k].revoked

\* Seeded fault: the row that was read is written back.
Touch_WritesBack(k) == keys' = [keys EXCEPT ![k].revoked = FALSE]

\* _touch_key writes last_used and nothing else.
Touch(k) == UNCHANGED keys

-----------------------------------------------------------------------------
AccountsTypeOK ==
    /\ users \in Seq(Emails)
    /\ keys \in Seq(APIKey) /\ Len(keys) <= MaxKeys
    /\ \A k \in DOMAIN keys : keys[k].owner \in DOMAIN users
    /\ registering \in [Emails -> 0 .. MaxRegistrations]
    /\ dead \subseteq DOMAIN keys

\* Of the registrations of one email that overlap, one makes an account, however many
\* passed the check.
OneAccountPerEmail == \A u, w \in DOMAIN users : users[u] = users[w] => u = w
=============================================================================
