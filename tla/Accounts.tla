-------------------------------- MODULE Accounts --------------------------------
(***************************************************************************)
(* Accounts of users of this server: registration with invite codes, users *)
(* created on the command line, movie accounts created by a webfinger      *)
(* query or a mention once TMDB knows the movie, deletion, and the OAuth   *)
(* codes and tokens that users are given.                                  *)
(*                                                                         *)
(* A request is a process: what it has read may be stale when it writes.   *)
(* create_user is taken statement by statement: LOCK TABLE, the check of   *)
(* the name, the use of the invite, the insertion with COMMIT.  Statements *)
(* of an open transaction are seen by nobody else.  Passwords, keys, roles *)
(* and the wallet address are left out.                                    *)
(***************************************************************************)
EXTENDS Integers, FiniteSets

CONSTANTS
    Name,                \* usernames
    Lower,               \* lower(username)
    Like,                \* <<username, pattern>> such that username ILIKE pattern
    Title,               \* movie_username of what TMDB finds for a name, or None
    InviteCode,          \* codes that may be generated
    RegistrationType,    \* "open" or "invite", of the configuration
    Request,             \* requests that may be open at a time
    MaxUsers,            \* bound on the accounts ever created
    Slot,                \* tokens that a user may hold at a time
    None                 \* SQL NULL

\* A name is its own pattern, in any case; an underscore in the pattern stands
\* for any character, so that other names may match, too.
ASSUME AccountsAssumption ==
    /\ Lower \in [Name -> Name] /\ Title \in [Name -> Name \cup {None}]
    /\ \A m, n \in Name : Lower[m] = Lower[n] => <<m, n>> \in Like
    /\ RegistrationType \in {"open", "invite"}
    /\ MaxUsers \in Nat
    /\ None \notin Name \cup InviteCode \cup Request

UserId == 1..MaxUsers

VARIABLES
    users,         \* user_account JOIN actor_profile: by id
    made,          \* number of ids used
    invites,       \* user_invite_code: code -> used
    codes,         \* oauth_authorization: the users of codes that have not expired
    tokens,        \* oauth_token: <<owner_id, slot>>, not expired
    req,           \* requests
    lock,          \* holder of the lock on actor_profile
    spent          \* history: <<code, id>> of each user ever created with a code

rows == <<users, made, invites, codes, tokens, spent>>
vars == <<rows, req, lock>>

Ids == DOMAIN users

Free == [step |-> "free"]

\* A request that goes on to create_user.
Creating(kind, name, invite) ==
    [step |-> "begin", kind |-> kind, name |-> name, invite |-> invite]

Init ==
    /\ users = [i \in {} |-> None]
    /\ made = 0
    /\ invites = [c \in {} |-> FALSE]
    /\ codes = {}
    /\ tokens = {}
    /\ req = [r \in Request |-> Free]
    /\ lock = None
    /\ spent = {}

Goes(r, step) == req' = [req EXCEPT ![r].step = step]
Ends(r)       == req' = [req EXCEPT ![r] = Free]

-----------------------------------------------------------------------------
(* Looking up users *)

IsRegisteredUser(n) == \E i \in Ids : users[i].name = n
ByName(n)           == {i \in Ids : Lower[users[i].name] = Lower[n]}

\* get_current_user
CurrentUsers == {t[1] : t \in tokens}

-----------------------------------------------------------------------------
(* What leads to create_user *)

GenerateInviteCode(c) ==
    /\ c \notin DOMAIN invites
    /\ invites' = [d \in DOMAIN invites \cup {c} |-> d # c /\ invites[d]]
    /\ UNCHANGED <<users, made, codes, tokens, spent, req, lock>>

IsValidInviteCode(c) == c \in DOMAIN invites /\ ~invites[c]

\* create_account: the code is checked first and used after the generation of
\* the key.  A code is taken along also when none is required.
CreateAccount(r, n, c) ==
    /\ req[r] = Free
    /\ RegistrationType = "invite" => IsValidInviteCode(c)
    /\ req' = [req EXCEPT ![r] = Creating("account", n, c)]
    /\ UNCHANGED <<rows, lock>>

CliCreateUser(r, n) ==
    /\ req[r] = Free
    /\ req' = [req EXCEPT ![r] = Creating("cli", n, None)]
    /\ UNCHANGED <<rows, lock>>

\* lookup_and_create_movie_user, up to the answer of TMDB: the account gets the
\* name of the movie found, which only begins with the name looked up.
LookupMovie(r, n) ==
    /\ Title[n] # None
    /\ req' = [req EXCEPT ![r] = Creating("movie", Title[n], None)]

\* webfinger_view: get_jrd knows no such user, or the host is another one.
WebfingerView(r, n, here) ==
    /\ req[r] = Free
    /\ here => ~IsRegisteredUser(n)
    /\ LookupMovie(r, n)
    /\ UNCHANGED <<rows, lock>>

\* get_object_tags, with a mention of a local actor id.
MentionLookup(r, n) ==
    /\ req[r] = Free
    /\ ByName(n) = {}
    /\ LookupMovie(r, n)
    /\ UNCHANGED <<rows, lock>>

-----------------------------------------------------------------------------
(* create_user *)

\* (Mutant of LockTable) Other transactions may change actor_profile.
LockNothing(r) ==
    /\ req[r].step = "begin"
    /\ Goes(r, "locked")
    /\ UNCHANGED <<rows, lock>>

LockTable(r) ==
    /\ req[r].step = "begin" /\ lock = None
    /\ lock' = r
    /\ Goes(r, "locked")
    /\ UNCHANGED rows

Unlock(r) == lock' = IF lock = r THEN None ELSE lock

\* AlreadyExists, or the name is free.
CheckName(r) ==
    /\ req[r].step = "locked"
    /\ IF \E i \in Ids : <<users[i].name, req[r].name>> \in Like
         THEN Ends(r) /\ Unlock(r)
         ELSE Goes(r, "unique") /\ UNCHANGED lock
    /\ UNCHANGED rows

\* UPDATE ... WHERE used = FALSE, in the transaction.
UseInvite(r) ==
    /\ req[r].step = "unique"
    /\ IF req[r].invite # None /\ ~IsValidInviteCode(req[r].invite)
         THEN Ends(r) /\ Unlock(r)
         ELSE Goes(r, "invited") /\ UNCHANGED lock
    /\ UNCHANGED rows

\* UNIQUE (acct) and UNIQUE (invite_code); names in another case may coexist.
UniqueWith(i, q) ==
    /\ users[i].name # q.name
    /\ q.invite = None \/ users[i].invite # q.invite

\* The rows of the new user; a movie account gets its profile afterwards.
InsertUserRow(r) ==
    LET id == made + 1
    IN  /\ req[r].step = "invited"
        /\ \A i \in Ids : UniqueWith(i, req[r])
        /\ made < MaxUsers
        /\ made' = id
        /\ users' = [i \in Ids \cup {id} |->
              IF i = id THEN [name |-> req[r].name, kind |-> req[r].kind,
                              invite |-> req[r].invite, profiled |-> req[r].kind # "movie"]
                        ELSE users[i]]
        /\ spent' = spent \cup ({<<req[r].invite, id>>} \ {<<None, id>>})
        /\ req' = [req EXCEPT ![r] = IF @.kind = "movie"
                                       THEN [step |-> "profile", user |-> id] ELSE Free]
        /\ UNCHANGED <<codes, tokens>>

\* (Mutant of CommitUser) The code is not marked as used.
CommitUserOnly(r) ==
    /\ InsertUserRow(r)
    /\ Unlock(r)
    /\ UNCHANGED invites

\* INSERT and COMMIT, with the code used.
CommitUser(r) ==
    /\ InsertUserRow(r)
    /\ Unlock(r)
    /\ invites' = [c \in DOMAIN invites |-> invites[c] \/ c = req[r].invite]

\* create_movie_user goes on, after fetching the images, with update_profile.
UpdateMovieProfile(r) ==
    /\ req[r].step = "profile"
    /\ users' = IF req[r].user \in Ids THEN [users EXCEPT ![req[r].user].profiled = TRUE]
                                        ELSE users
    /\ Ends(r)
    /\ UNCHANGED <<made, invites, codes, tokens, spent, lock>>

\* An error of any statement, a crash or a client that goes away: ROLLBACK.
RequestFails(r) ==
    /\ req[r] # Free
    /\ Ends(r)
    /\ Unlock(r)
    /\ UNCHANGED rows

\* delete_profile, of the command line: ON DELETE CASCADE takes codes and tokens
\* along; the invite code stays used.
DeleteUser(i) ==
    /\ lock = None
    /\ users' = [k \in Ids \ {i} |-> users[k]]
    /\ codes' = codes \ {i}
    /\ tokens' = {t \in tokens : t[1] # i}
    /\ UNCHANGED <<made, invites, spent, req, lock>>

-----------------------------------------------------------------------------
(* OAuth: the user is read and the password verified first *)

AuthorizeView(r, i) ==
    /\ req[r] = Free
    /\ req' = [req EXCEPT ![r] = [step |-> "authorize", user |-> i]]
    /\ UNCHANGED <<rows, lock>>

\* By a password or by a code, which stays valid.
TokenView(r, i, grant) ==
    /\ req[r] = Free
    /\ grant = "authorization_code" => i \in codes
    /\ req' = [req EXCEPT ![r] = [step |-> "token", user |-> i]]
    /\ UNCHANGED <<rows, lock>>

\* The foreign key refuses a user who has been deleted since.
CreateOauthAuthorization(r) ==
    /\ req[r].step = "authorize"
    /\ codes' = codes \cup ({req[r].user} \cap Ids)
    /\ Ends(r)
    /\ UNCHANGED <<users, made, invites, tokens, spent, lock>>

SaveOauthToken(r, s) ==
    /\ req[r].step = "token"
    /\ <<req[r].user, s>> \notin tokens
    /\ tokens' = tokens \cup ({<<req[r].user, s>>} \cap (Ids \X Slot))
    /\ Ends(r)
    /\ UNCHANGED <<users, made, invites, codes, spent, lock>>

\* Nothing is deleted, and the request refused, if the token is another's.
DeleteOauthToken(i, t) == tokens \ {u \in {t} : u[1] = i}

DeleteOauthTokens(i) == {t \in tokens : t[1] # i}

\* revoke_token_view: with a token of the user who asks.
RevokeToken(i, t) ==
    /\ i \in CurrentUsers
    /\ tokens' = DeleteOauthToken(i, t)
    /\ UNCHANGED <<users, made, invites, codes, spent, req, lock>>

\* set-password of the command line revokes all sessions.
CliSetPassword(i) ==
    /\ tokens' = DeleteOauthTokens(i)
    /\ UNCHANGED <<users, made, invites, codes, spent, req, lock>>

\* expires_at passes.
Expire(i) ==
    /\ codes' = codes \ {i}
    /\ tokens' \in {tokens, tokens \ {<<i, s>> : s \in Slot}}
    /\ UNCHANGED <<users, made, invites, spent, req, lock>>

-----------------------------------------------------------------------------
Next ==
    \/ \E c \in InviteCode : GenerateInviteCode(c)
    \/ \E r \in Request :
        \/ \E n \in Name :
            \/ \E c \in InviteCode \cup {None} : CreateAccount(r, n, c)
            \/ CliCreateUser(r, n)
            \/ \E here \in BOOLEAN : WebfingerView(r, n, here)
            \/ MentionLookup(r, n)
        \/ LockTable(r)
        \/ CheckName(r)
        \/ UseInvite(r)
        \/ CommitUser(r)
        \/ UpdateMovieProfile(r)
        \/ RequestFails(r)
        \/ \E i \in Ids :
            \/ AuthorizeView(r, i)
            \/ \E grant \in {"password", "authorization_code"} : TokenView(r, i, grant)
        \/ CreateOauthAuthorization(r)
        \/ \E s \in Slot : SaveOauthToken(r, s)
    \/ \E i \in Ids : DeleteUser(i) \/ CliSetPassword(i) \/ Expire(i)
    \/ \E t \in tokens : \E i \in CurrentUsers : RevokeToken(i, t)

Spec == Init /\ [][Next]_vars

-----------------------------------------------------------------------------
(* Properties *)

\* Rows refer to rows that exist, and a code or token to a user who does.
TypeOK ==
    /\ made \in 0..MaxUsers /\ Ids \subseteq 1..made
    /\ users \in [Ids -> [name : Name, kind : {"account", "cli", "movie"},
                          invite : InviteCode \cup {None}, profiled : BOOLEAN]]
    /\ invites \in [DOMAIN invites -> BOOLEAN] /\ DOMAIN invites \subseteq InviteCode
    /\ codes \subseteq Ids
    /\ tokens \subseteq Ids \X Slot
    /\ spent \subseteq InviteCode \X (1..made)
    /\ lock \in Request \cup {None}
    /\ DOMAIN req = Request

\* Names of users differ, whatever their case: get_user_by_name, which login and
\* mentions use, fails when it finds two.
OneAccountPerName == \A n \in Name : Cardinality(ByName(n)) <= 1

\* A code is used up with the creation of exactly one user, also when requests
\* race or fail half-way, and nobody registers without one when it is required.
InvitesSpentOnce ==
    /\ \A c \in DOMAIN invites :
        Cardinality({i \in UserId : <<c, i>> \in spent}) = IF invites[c] THEN 1 ELSE 0
    /\ \A i \in Ids :
        users[i].kind = "account" /\ RegistrationType = "invite" => <<users[i].invite, i>> \in spent
=============================================================================
