----------------------------- MODULE Accounts_proofs ----------------------------
(***************************************************************************)
(* Accounts, for any set of names, invite codes and concurrent requests:   *)
(* proofs that names stay distinct and that a code is used up by the       *)
(* creation of one user.                                                   *)
(***************************************************************************)
EXTENDS Accounts, FiniteSetTheorems, TLAPS

Kinds   == {"account", "cli", "movie"}
Invites == InviteCode \cup {None}
UserRow == [name : Name, kind : Kinds, invite : Invites, profiled : BOOLEAN]

\* The steps of create_user, and of a request that has read a user.
CreateSteps == {"begin", "locked", "unique", "invited"}
UserSteps   == {"profile", "authorize", "token"}

Creation == [step : CreateSteps, kind : Kinds, name : Name, invite : Invites]
OfUser   == [step : UserSteps, user : Nat]

ReqTyped == req \in [Request -> {Free} \cup Creation \cup OfUser]

\* The request that has locked actor_profile has not ended its transaction, and
\* it is the only one.
LockHeld ==
    \A r \in Request : req[r].step \in {"locked", "unique", "invited"} <=> lock = r

\* What has been checked stays true until the transaction ends.
NameFree ==
    \A r \in Request : req[r].step \in {"unique", "invited"} =>
        \A i \in Ids : <<users[i].name, req[r].name>> \notin Like

CodeUnused ==
    \A r \in Request : req[r].step = "invited" /\ req[r].invite # None =>
        IsValidInviteCode(req[r].invite)

\* create_account has seen a code, if one is required.
CodeAsked ==
    \A r \in Request :
        req[r].step \in CreateSteps /\ req[r].kind = "account" /\ RegistrationType = "invite" =>
            req[r].invite # None

NamesDiffer == \A i, k \in Ids : Lower[users[i].name] = Lower[users[k].name] => i = k

\* A code is used if and only if a user has been created with it, and only one.
CodesSpent ==
    /\ \A c \in DOMAIN invites : invites[c] <=> \E i \in UserId : <<c, i>> \in spent
    /\ \A c \in InviteCode, i \in UserId : <<c, i>> \in spent => c \in DOMAIN invites
    /\ \A c \in InviteCode, i, k \in UserId : <<c, i>> \in spent /\ <<c, k>> \in spent => i = k

UsersInvited ==
    \A i \in Ids :
        users[i].kind = "account" /\ RegistrationType = "invite" => <<users[i].invite, i>> \in spent

TInv == TypeOK /\ ReqTyped

LInv == LockHeld /\ NameFree /\ CodeUnused /\ CodeAsked

IInv == TInv /\ LInv /\ NamesDiffer /\ CodesSpent /\ UsersInvited

-----------------------------------------------------------------------------
(* Requests *)

LEMMA StepDisjoint ==
    /\ CreateSteps \cap UserSteps = {} /\ "free" \notin CreateSteps \cup UserSteps
    /\ {"locked", "unique", "invited"} \subseteq CreateSteps /\ "begin" \in CreateSteps
BY DEF CreateSteps, UserSteps

LEMMA NoneIsNoCode == None \notin InviteCode /\ (\A r \in Request : r # None)
BY AccountsAssumption

\* A request is told by its step.
LEMMA RequestKinds ==
    ASSUME ReqTyped, NEW r \in Request
    PROVE  /\ req[r].step \in CreateSteps => req[r] \in Creation
           /\ req[r].step \in UserSteps => req[r] \in OfUser
           /\ req[r].step \notin CreateSteps \cup UserSteps => req[r] = Free
BY StepDisjoint DEF ReqTyped, Creation, OfUser, Free

\* The request r now is q, and the others are as they were.
Becomes(r, q) ==
    /\ req'[r] = q
    /\ \A s \in Request \ {r} : req'[s] = req[s]

LEMMA SetRequest ==
    ASSUME ReqTyped, NEW r \in Request, NEW q \in {Free} \cup Creation \cup OfUser,
           req' = [req EXCEPT ![r] = q]
    PROVE  ReqTyped' /\ DOMAIN req' = Request /\ Becomes(r, q)
BY DEF ReqTyped, Becomes

LEMMA EndRequest ==
    ASSUME ReqTyped, NEW r \in Request, Ends(r)
    PROVE  ReqTyped' /\ DOMAIN req' = Request /\ Becomes(r, Free)
BY SetRequest DEF Ends

\* A creation that goes on keeps what it creates.
LEMMA GoRequest ==
    ASSUME ReqTyped, NEW r \in Request, req[r].step \in CreateSteps, NEW step \in CreateSteps,
           Goes(r, step)
    PROVE  /\ ReqTyped' /\ DOMAIN req' = Request
           /\ req'[r] \in Creation
           /\ req'[r].step = step /\ req'[r].kind = req[r].kind
           /\ req'[r].name = req[r].name /\ req'[r].invite = req[r].invite
           /\ \A s \in Request \ {r} : req'[s] = req[s]
<1>1. req[r] \in Creation
  BY RequestKinds
<1> DEFINE q == [req[r] EXCEPT !.step = step]
<1>2. /\ q \in Creation /\ q.step = step /\ q.kind = req[r].kind
      /\ q.name = req[r].name /\ q.invite = req[r].invite
  BY <1>1 DEF Creation
<1>3. req' = [req EXCEPT ![r] = q]
  BY DEF Goes
<1> HIDE DEF q
<1>4. ReqTyped' /\ DOMAIN req' = Request /\ Becomes(r, q)
  BY <1>2, <1>3, SetRequest
<1> QED
  BY <1>2, <1>4 DEF Becomes

-----------------------------------------------------------------------------
(* The parts of the type invariant *)

UsersTyped ==
    /\ made \in 0..MaxUsers /\ Ids \subseteq 1..made
    /\ users \in [Ids -> UserRow]

InvitesTyped ==
    /\ invites \in [DOMAIN invites -> BOOLEAN] /\ DOMAIN invites \subseteq InviteCode
    /\ spent \subseteq InviteCode \X (1..made)

TokensTyped == codes \subseteq Ids /\ tokens \subseteq Ids \X Slot

RequestsTyped == lock \in Request \cup {None} /\ DOMAIN req = Request

LEMMA TypeParts == TypeOK <=> UsersTyped /\ InvitesTyped /\ TokensTyped /\ RequestsTyped
BY DEF TypeOK, UsersTyped, InvitesTyped, TokensTyped, RequestsTyped, UserRow, Kinds, Invites

LEMMA InitIInv == Init => IInv
<1> SUFFICES ASSUME Init PROVE IInv
  OBVIOUS
<1>1. Ids = {} /\ DOMAIN invites = {} /\ (\A r \in Request : req[r] = Free) /\ lock = None
  BY DEF Init, Ids
<1>2. UsersTyped /\ InvitesTyped /\ TokensTyped /\ RequestsTyped
  BY <1>1, AccountsAssumption DEF Init, UsersTyped, InvitesTyped, TokensTyped, RequestsTyped, Ids
<1>3. ReqTyped
  BY DEF Init, ReqTyped
<1>4. \A r \in Request : req[r].step \notin CreateSteps
  BY <1>1, StepDisjoint DEF Free
<1>5. LockHeld
  BY <1>1, <1>4, StepDisjoint, NoneIsNoCode DEF LockHeld
<1>6. NameFree /\ CodeUnused /\ CodeAsked
  BY <1>4, StepDisjoint DEF NameFree, CodeUnused, CodeAsked
<1>7. NamesDiffer /\ CodesSpent /\ UsersInvited
  BY <1>1 DEF Init, NamesDiffer, CodesSpent, UsersInvited, Ids
<1> QED
  BY <1>2, <1>3, <1>5, <1>6, <1>7, TypeParts DEF IInv, TInv, LInv

-----------------------------------------------------------------------------
(* Steps outside of a transaction of create_user *)

Locked == {"locked", "unique", "invited"}

\* Requests that begin or end without the lock.
Outside ==
    /\ ReqTyped' /\ DOMAIN req' = Request /\ lock' = lock
    /\ \A s \in Request :
        \/ req'[s] = req[s]
        \/ /\ req[s].step \notin Locked /\ req'[s].step \notin Locked
           /\ req'[s].step \in CreateSteps /\ req'[s].kind = "account" /\ RegistrationType = "invite"
                => req'[s].invite # None

\* No user appears, and none is renamed.
FewerUsers ==
    /\ Ids' \subseteq Ids /\ users' \in [Ids' -> UserRow]
    /\ \A i \in Ids' :
        /\ users'[i].name = users[i].name /\ users'[i].kind = users[i].kind
        /\ users'[i].invite = users[i].invite
    /\ made' = made /\ invites' = invites /\ spent' = spent
    /\ codes' \subseteq Ids' /\ tokens' \subseteq Ids' \X Slot

LEMMA OutsideIInv ==
    ASSUME IInv, Outside, FewerUsers
    PROVE  IInv'
<1>1. UsersTyped /\ InvitesTyped /\ TokensTyped /\ RequestsTyped
  BY TypeParts DEF IInv, TInv
<1>2. UsersTyped' /\ InvitesTyped' /\ TokensTyped' /\ RequestsTyped'
  <2>1. UsersTyped'
    BY <1>1 DEF FewerUsers, UsersTyped, Ids
  <2>2. InvitesTyped'
    BY <1>1 DEF FewerUsers, InvitesTyped
  <2>3. TokensTyped'
    BY DEF FewerUsers, TokensTyped, Ids
  <2>4. RequestsTyped'
    BY <1>1 DEF Outside, RequestsTyped
  <2> QED
    BY <2>1, <2>2, <2>3, <2>4
<1>3. TypeOK'
  BY <1>2 DEF TypeOK, UsersTyped, InvitesTyped, TokensTyped, RequestsTyped, UserRow, Kinds, Invites, Ids
<1>4. \A s \in Request : req'[s].step \in Locked => req'[s] = req[s]
  BY DEF Outside
<1>5. LockHeld'
  BY DEF IInv, LInv, LockHeld, Outside, Locked
<1>6. NameFree'
  BY <1>4 DEF IInv, LInv, NameFree, FewerUsers, Locked, Ids
<1>7. CodeUnused'
  BY <1>4 DEF IInv, LInv, CodeUnused, FewerUsers, Locked, IsValidInviteCode
<1>8. CodeAsked'
  BY DEF IInv, LInv, CodeAsked, Outside
<1>9. NamesDiffer' /\ CodesSpent' /\ UsersInvited'
  <2>1. NamesDiffer'
    BY DEF IInv, NamesDiffer, FewerUsers, Ids
  <2>2. CodesSpent'
    BY DEF IInv, CodesSpent, FewerUsers
  <2>3. UsersInvited'
    BY DEF IInv, UsersInvited, FewerUsers, Ids
  <2> QED
    BY <2>1, <2>2, <2>3
<1> QED
  BY <1>3, <1>5, <1>6, <1>7, <1>8, <1>9 DEF IInv, TInv, LInv, Outside

LEMMA SameUsers ==
    ASSUME TypeOK, UNCHANGED <<users, made, invites, spent>>,
           codes' \subseteq Ids, tokens' \subseteq Ids \X Slot
    PROVE  FewerUsers
<1>1. Ids' = Ids /\ users' \in [Ids' -> UserRow]
  BY TypeParts DEF UsersTyped, Ids
<1>2. \A i \in Ids' : users'[i] = users[i]
  OBVIOUS
<1> QED
  BY <1>1, <1>2 DEF FewerUsers

LEMMA SameRequests ==
    ASSUME TInv, UNCHANGED <<req, lock>>
    PROVE  Outside
BY TypeParts DEF TInv, Outside, ReqTyped, RequestsTyped

\* A request begins to create a user, or to do something for one.
LEMMA BeginOutside ==
    ASSUME IInv, NEW r \in Request, req[r] = Free, UNCHANGED lock,
           NEW q \in Creation \cup OfUser,
           q.step \notin Locked,
           q.step \in CreateSteps /\ q.kind = "account" /\ RegistrationType = "invite"
              => q.invite # None,
           req' = [req EXCEPT ![r] = q]
    PROVE  Outside
<1>1. req[r].step \notin Locked
  BY DEF Free, Locked
<1>2. ReqTyped' /\ DOMAIN req' = Request /\ Becomes(r, q)
  BY SetRequest DEF IInv, TInv
<1> QED
  BY <1>1, <1>2 DEF Outside, Becomes

LEMMA EndOutside ==
    ASSUME IInv, NEW r \in Request, req[r].step \in UserSteps, UNCHANGED lock, Ends(r)
    PROVE  Outside
<1>1. req[r].step \notin Locked
  BY StepDisjoint DEF Locked
<1>2. ReqTyped' /\ DOMAIN req' = Request /\ Becomes(r, Free)
  BY EndRequest DEF IInv, TInv
<1>3. Free.step \notin Locked \cup CreateSteps
  BY StepDisjoint DEF Free, Locked
<1> QED
  BY <1>1, <1>2, <1>3 DEF Outside, Becomes

LEMMA CreatingTyped ==
    ASSUME NEW kind \in Kinds, NEW n \in Name, NEW c \in Invites
    PROVE  /\ Creating(kind, n, c) \in Creation
           /\ Creating(kind, n, c).step = "begin"
           /\ Creating(kind, n, c).kind = kind
           /\ Creating(kind, n, c).invite = c
BY StepDisjoint DEF Creating, Creation

LEMMA BeginCreating ==
    ASSUME IInv, NEW r \in Request, req[r] = Free, UNCHANGED <<rows, lock>>,
           NEW kind \in Kinds, NEW n \in Name, NEW c \in Invites,
           kind = "account" /\ RegistrationType = "invite" => c # None,
           req' = [req EXCEPT ![r] = Creating(kind, n, c)]
    PROVE  IInv'
<1>1. Outside
  <2>1. "begin" \notin Locked
    BY DEF Locked
  <2>2. /\ Creating(kind, n, c) \in Creation
        /\ Creating(kind, n, c).step = "begin"
        /\ Creating(kind, n, c).kind = kind
        /\ Creating(kind, n, c).invite = c
    BY CreatingTyped
  <2> DEFINE q == Creating(kind, n, c)
  <2>3. q \in Creation \cup OfUser /\ q.step \notin Locked
        /\ (q.step \in CreateSteps /\ q.kind = "account" /\ RegistrationType = "invite"
              => q.invite # None)
        /\ req' = [req EXCEPT ![r] = q]
    BY <2>1, <2>2
  <2> HIDE DEF q
  <2> QED
    BY <2>3, BeginOutside
<1>2. FewerUsers
  BY SameUsers, TypeParts DEF IInv, TInv, rows, TokensTyped
<1> QED
  BY <1>1, <1>2, OutsideIInv

LEMMA CreateAccountIInv ==
    ASSUME IInv, NEW r \in Request, NEW n \in Name, NEW c \in InviteCode \cup {None},
           CreateAccount(r, n, c)
    PROVE  IInv'
<1>1. RegistrationType = "invite" => c # None
  BY NoneIsNoCode, TypeParts DEF CreateAccount, IsValidInviteCode, IInv, TInv, InvitesTyped
<1>2. "account" \in Kinds
  BY DEF Kinds
<1> QED
  BY <1>1, <1>2, BeginCreating DEF CreateAccount, Invites

LEMMA CliCreateIInv ==
    ASSUME IInv, NEW r \in Request, NEW n \in Name, CliCreateUser(r, n)
    PROVE  IInv'
<1>1. "cli" \in Kinds /\ "cli" # "account" /\ None \in Invites
  BY DEF Kinds, Invites
<1> QED
  BY <1>1, BeginCreating DEF CliCreateUser

LEMMA LookupIInv ==
    ASSUME IInv, NEW r \in Request, NEW n \in Name, req[r] = Free, LookupMovie(r, n),
           UNCHANGED <<rows, lock>>
    PROVE  IInv'
<1>1. "movie" \in Kinds /\ "movie" # "account" /\ None \in Invites
  BY DEF Kinds, Invites
<1>2. Title[n] \in Name
  BY AccountsAssumption DEF LookupMovie
<1> QED
  BY <1>1, <1>2, BeginCreating DEF LookupMovie

LEMMA ReadUserIInv ==
    ASSUME IInv, NEW r \in Request, NEW i \in Ids, req[r] = Free, UNCHANGED <<rows, lock>>,
           NEW step \in UserSteps, req' = [req EXCEPT ![r] = [step |-> step, user |-> i]]
    PROVE  IInv'
<1>1. [step |-> step, user |-> i] \in OfUser
  BY TypeParts DEF OfUser, IInv, TInv, UsersTyped
<1>2. Outside
  <2>1. step \notin Locked /\ step \notin CreateSteps
    BY StepDisjoint DEF Locked
  <2> DEFINE q == [step |-> step, user |-> i]
  <2>2. q \in Creation \cup OfUser /\ q.step \notin Locked /\ q.step \notin CreateSteps
        /\ req' = [req EXCEPT ![r] = q]
    BY <1>1, <2>1
  <2> HIDE DEF q
  <2> QED
    BY <2>2, BeginOutside
<1>3. FewerUsers
  BY SameUsers, TypeParts DEF IInv, TInv, rows, TokensTyped
<1> QED
  BY <1>2, <1>3, OutsideIInv

LEMMA UpdateMovieIInv ==
    ASSUME IInv, NEW r \in Request, UpdateMovieProfile(r)
    PROVE  IInv'
<1>1. Outside
  BY EndOutside DEF UpdateMovieProfile, UserSteps
<1>2. UsersTyped /\ TokensTyped
  BY TypeParts DEF IInv, TInv
<1>3. FewerUsers
  <2>1. CASE req[r].user \notin Ids
    <3>1. users' = users
      BY <2>1 DEF UpdateMovieProfile
    <3> QED
      BY <3>1, SameUsers, <1>2 DEF UpdateMovieProfile, TokensTyped, IInv, TInv
  <2>2. CASE req[r].user \in Ids
    <3> DEFINE row == [users[req[r].user] EXCEPT !.profiled = TRUE]
    <3>1. users[req[r].user] \in UserRow
      BY <1>2, <2>2 DEF UsersTyped
    <3>2. /\ row \in UserRow
          /\ row.name = users[req[r].user].name /\ row.kind = users[req[r].user].kind
          /\ row.invite = users[req[r].user].invite
      BY <3>1 DEF UserRow
    <3>3. users' = [users EXCEPT ![req[r].user] = row]
      BY <2>2 DEF UpdateMovieProfile
    <3> HIDE DEF row
    <3>4. Ids' = Ids /\ users' \in [Ids -> UserRow]
          /\ \A i \in Ids : users'[i] = IF i = req[r].user THEN row ELSE users[i]
      BY <1>2, <3>2, <3>3 DEF UsersTyped, Ids
    <3>5. \A i \in Ids : /\ users'[i].name = users[i].name /\ users'[i].kind = users[i].kind
                        /\ users'[i].invite = users[i].invite
      BY <3>2, <3>4
    <3>6. codes' \subseteq Ids /\ tokens' \subseteq Ids \X Slot
          /\ made' = made /\ invites' = invites /\ spent' = spent
      BY <1>2 DEF UpdateMovieProfile, TokensTyped
    <3>7. Ids \subseteq Ids
      OBVIOUS
    <3> QED
      BY <3>4, <3>5, <3>6, <3>7 DEF FewerUsers
  <2> QED
    BY <2>1, <2>2
<1> QED
  BY <1>1, <1>3, OutsideIInv

LEMMA AuthorizationIInv ==
    ASSUME IInv, NEW r \in Request, CreateOauthAuthorization(r)
    PROVE  IInv'
<1>1. Outside
  BY EndOutside DEF CreateOauthAuthorization, UserSteps
<1>2. FewerUsers
  BY SameUsers, TypeParts DEF CreateOauthAuthorization, IInv, TInv, TokensTyped
<1> QED
  BY <1>1, <1>2, OutsideIInv

LEMMA SaveTokenIInv ==
    ASSUME IInv, NEW r \in Request, NEW s \in Slot, SaveOauthToken(r, s)
    PROVE  IInv'
<1>1. Outside
  BY EndOutside DEF SaveOauthToken, UserSteps
<1>2. FewerUsers
  BY SameUsers, TypeParts DEF SaveOauthToken, IInv, TInv, TokensTyped
<1> QED
  BY <1>1, <1>2, OutsideIInv

\* Codes and tokens only disappear.
LEMMA FewerTokensIInv ==
    ASSUME IInv, UNCHANGED <<users, made, invites, spent, req, lock>>,
           codes' \subseteq codes, tokens' \subseteq tokens
    PROVE  IInv'
<1>1. FewerUsers
  BY SameUsers, TypeParts DEF IInv, TInv, TokensTyped
<1> QED
  BY <1>1, SameRequests, OutsideIInv DEF IInv

LEMMA DeleteUserIInv ==
    ASSUME IInv, NEW i \in Ids, DeleteUser(i)
    PROVE  IInv'
<1>1. UsersTyped /\ TokensTyped
  BY TypeParts DEF IInv, TInv
<1>2. Ids' = Ids \ {i} /\ \A k \in Ids \ {i} : users'[k] = users[k]
  BY DEF DeleteUser, Ids
<1>3. users' \in [Ids \ {i} -> UserRow]
  BY <1>1 DEF DeleteUser, UsersTyped
<1>4. codes' \subseteq Ids \ {i} /\ tokens' \subseteq (Ids \ {i}) \X Slot
  BY <1>1 DEF DeleteUser, TokensTyped
<1>5. made' = made /\ invites' = invites /\ spent' = spent /\ Ids \ {i} \subseteq Ids
  BY DEF DeleteUser
<1>6. FewerUsers
  <2>1. users' \in [Ids' -> UserRow]
    BY <1>2, <1>3
  <2>2. \A k \in Ids' :
        /\ users'[k].name = users[k].name /\ users'[k].kind = users[k].kind
        /\ users'[k].invite = users[k].invite
    BY <1>2
  <2> QED
    BY <1>2, <1>4, <1>5, <2>1, <2>2 DEF FewerUsers
<1> QED
  BY <1>6, SameRequests, OutsideIInv DEF IInv, DeleteUser

\* A new code has not been used.
LEMMA GenerateIInv ==
    ASSUME IInv, NEW c \in InviteCode, GenerateInviteCode(c)
    PROVE  IInv'
<1>1. UsersTyped /\ InvitesTyped /\ TokensTyped /\ RequestsTyped
  BY TypeParts DEF IInv, TInv
<1>2. DOMAIN invites' = DOMAIN invites \cup {c}
      /\ invites' \in [DOMAIN invites \cup {c} -> BOOLEAN]
  BY <1>1 DEF GenerateInviteCode, InvitesTyped
<1>3. (\A d \in DOMAIN invites : invites'[d] = invites[d]) /\ ~invites'[c]
  BY <1>1 DEF GenerateInviteCode, InvitesTyped
<1>4. UNCHANGED <<users, made, codes, tokens, spent, req, lock>> /\ c \notin DOMAIN invites
  BY DEF GenerateInviteCode
<1>5. UsersTyped' /\ TokensTyped' /\ RequestsTyped'
  BY <1>1, <1>4 DEF UsersTyped, TokensTyped, RequestsTyped, Ids
<1>6. InvitesTyped'
  BY <1>1, <1>2, <1>4 DEF InvitesTyped
<1>7. TypeOK'
  BY <1>5, <1>6 DEF TypeOK, UsersTyped, InvitesTyped, TokensTyped, RequestsTyped, UserRow, Kinds, Invites, Ids
<1>8. ReqTyped' /\ LockHeld' /\ NameFree' /\ CodeAsked'
  BY <1>4 DEF IInv, TInv, LInv, ReqTyped, LockHeld, NameFree, CodeAsked, Ids
<1>9. CodeUnused'
  BY <1>2, <1>3, <1>4 DEF IInv, LInv, CodeUnused, IsValidInviteCode
<1>10. NamesDiffer' /\ UsersInvited'
  BY <1>4 DEF IInv, NamesDiffer, UsersInvited, Ids
<1>11. CodesSpent'
  BY <1>2, <1>3, <1>4 DEF IInv, CodesSpent
<1> QED
  BY <1>7, <1>8, <1>9, <1>10, <1>11 DEF IInv, TInv, LInv

\* What a transaction that changes no row leaves to show.
LEMMA RowsIInv ==
    ASSUME IInv, UNCHANGED rows, lock' \in Request \cup {None}, DOMAIN req' = Request,
           ReqTyped', LInv'
    PROVE  IInv'
<1>1. UsersTyped /\ InvitesTyped /\ TokensTyped
  BY TypeParts DEF IInv, TInv
<1>2. TypeOK'
  BY <1>1 DEF TypeOK, UsersTyped, InvitesTyped, TokensTyped, UserRow, Kinds, Invites, Ids, rows
<1>3. NamesDiffer' /\ CodesSpent' /\ UsersInvited'
  BY DEF IInv, NamesDiffer, CodesSpent, UsersInvited, Ids, rows
<1> QED
  BY <1>2, <1>3 DEF IInv, TInv

LEMMA LockIInv ==
    ASSUME IInv, NEW r \in Request, LockTable(r)
    PROVE  IInv'
<1>1. req[r].step \in CreateSteps /\ "locked" \in CreateSteps
  BY StepDisjoint DEF LockTable
<1>2. /\ ReqTyped' /\ DOMAIN req' = Request
      /\ req'[r].step = "locked" /\ req'[r].kind = req[r].kind
      /\ req'[r].invite = req[r].invite
      /\ \A s \in Request \ {r} : req'[s] = req[s]
  BY <1>1, GoRequest DEF LockTable, IInv, TInv
<1>3. \A s \in Request : req[s].step \notin {"locked", "unique", "invited"}
  BY NoneIsNoCode DEF LockTable, IInv, LInv, LockHeld
<1>4. LockHeld'
  BY <1>2, <1>3 DEF LockTable, LockHeld
<1>5. NameFree' /\ CodeUnused'
  BY <1>2, <1>3 DEF NameFree, CodeUnused
<1>6. CodeAsked'
  BY <1>1, <1>2 DEF IInv, LInv, CodeAsked
<1>7. lock' \in Request \cup {None} /\ UNCHANGED rows
  BY DEF LockTable
<1> QED
  BY <1>2, <1>4, <1>5, <1>6, <1>7, RowsIInv DEF LInv

\* The transaction ends, or its request does before it begins.
LEMMA RollBackIInv ==
    ASSUME IInv, NEW r \in Request, Ends(r), Unlock(r), UNCHANGED rows
    PROVE  IInv'
<1>1. ReqTyped' /\ DOMAIN req' = Request /\ Becomes(r, Free)
  BY EndRequest DEF IInv, TInv
<1>2. Free.step \notin CreateSteps /\ Free.step \notin {"locked", "unique", "invited"}
  BY StepDisjoint DEF Free
<1>3. lock' \in Request \cup {None} /\ lock' # r /\ \A s \in Request \ {r} : lock' = s <=> lock = s
  BY TypeParts, NoneIsNoCode DEF Unlock, IInv, TInv, RequestsTyped
<1>4. LockHeld'
  BY <1>1, <1>2, <1>3 DEF IInv, LInv, LockHeld, Becomes
<1>5. NameFree'
  BY <1>1, <1>2 DEF IInv, LInv, NameFree, Becomes, rows, Ids
<1>6. CodeUnused'
  BY <1>1, <1>2 DEF IInv, LInv, CodeUnused, Becomes, rows, IsValidInviteCode
<1>7. CodeAsked'
  BY <1>1, <1>2 DEF IInv, LInv, CodeAsked, Becomes
<1> QED
  BY <1>1, <1>3, <1>4, <1>5, <1>6, <1>7, RowsIInv DEF LInv

LEMMA CheckNameIInv ==
    ASSUME IInv, NEW r \in Request, CheckName(r)
    PROVE  IInv'
<1>1. CASE Ends(r) /\ Unlock(r)
  BY <1>1, RollBackIInv DEF CheckName
<1>2. CASE /\ \A i \in Ids : <<users[i].name, req[r].name>> \notin Like
           /\ Goes(r, "unique") /\ UNCHANGED lock
  <2>1. req[r].step \in CreateSteps /\ "unique" \in CreateSteps
    BY StepDisjoint DEF CheckName
  <2>2. /\ ReqTyped' /\ DOMAIN req' = Request
        /\ req'[r].step = "unique" /\ req'[r].kind = req[r].kind
        /\ req'[r].name = req[r].name /\ req'[r].invite = req[r].invite
        /\ \A s \in Request \ {r} : req'[s] = req[s]
    BY <1>2, <2>1, GoRequest DEF IInv, TInv
  <2>3. LockHeld'
    BY <1>2, <2>2 DEF CheckName, IInv, LInv, LockHeld
  <2>4. NameFree'
    BY <1>2, <2>2 DEF CheckName, IInv, LInv, NameFree, rows, Ids
  <2>5. CodeUnused'
    BY <2>2 DEF CheckName, IInv, LInv, CodeUnused, rows, IsValidInviteCode
  <2>6. CodeAsked'
    BY <2>1, <2>2 DEF IInv, LInv, CodeAsked
  <2>7. lock' \in Request \cup {None} /\ UNCHANGED rows
    BY <1>2, TypeParts DEF CheckName, IInv, TInv, RequestsTyped
  <2> QED
    BY <2>2, <2>3, <2>4, <2>5, <2>6, <2>7, RowsIInv DEF LInv
<1> QED
  BY <1>1, <1>2 DEF CheckName

LEMMA UseInviteIInv ==
    ASSUME IInv, NEW r \in Request, UseInvite(r)
    PROVE  IInv'
<1>1. CASE Ends(r) /\ Unlock(r)
  BY <1>1, RollBackIInv DEF UseInvite
<1>2. CASE /\ req[r].invite # None => IsValidInviteCode(req[r].invite)
           /\ Goes(r, "invited") /\ UNCHANGED lock
  <2>1. req[r].step \in CreateSteps /\ "invited" \in CreateSteps
    BY StepDisjoint DEF UseInvite
  <2>2. /\ ReqTyped' /\ DOMAIN req' = Request
        /\ req'[r].step = "invited" /\ req'[r].kind = req[r].kind
        /\ req'[r].name = req[r].name /\ req'[r].invite = req[r].invite
        /\ \A s \in Request \ {r} : req'[s] = req[s]
    BY <1>2, <2>1, GoRequest DEF IInv, TInv
  <2>3. LockHeld'
    BY <1>2, <2>2 DEF UseInvite, IInv, LInv, LockHeld
  <2>4. NameFree'
    BY <1>2, <2>2 DEF UseInvite, IInv, LInv, NameFree, rows, Ids
  <2>5. CodeUnused'
    BY <1>2, <2>2 DEF UseInvite, IInv, LInv, CodeUnused, rows, IsValidInviteCode
  <2>6. CodeAsked'
    BY <2>1, <2>2 DEF IInv, LInv, CodeAsked
  <2>7. lock' \in Request \cup {None} /\ UNCHANGED rows
    BY <1>2, TypeParts DEF UseInvite, IInv, TInv, RequestsTyped
  <2> QED
    BY <2>2, <2>3, <2>4, <2>5, <2>6, <2>7, RowsIInv DEF LInv
<1> QED
  BY <1>1, <1>2 DEF UseInvite

\* The row of a user whose name and code have been checked under the lock.
LEMMA CommitIInv ==
    ASSUME IInv, NEW r \in Request, CommitUser(r)
    PROVE  IInv'
<1> DEFINE id  == made + 1
           inv == req[r].invite
           row == [name |-> req[r].name, kind |-> req[r].kind,
                   invite |-> req[r].invite, profiled |-> req[r].kind # "movie"]
<1>1. UsersTyped /\ InvitesTyped /\ TokensTyped /\ RequestsTyped
  BY TypeParts DEF IInv, TInv
<1>2. req[r].step = "invited" /\ lock = r /\ req[r] \in Creation
  BY StepDisjoint, RequestKinds DEF CommitUser, InsertUserRow, IInv, TInv, LInv, LockHeld
<1>3. id \in UserId /\ id \notin Ids /\ made' = id /\ id \in 0..MaxUsers /\ 1..made \cup {id} = 1..id
  BY <1>1, AccountsAssumption DEF CommitUser, InsertUserRow, UsersTyped, UserId
<1>4. inv \in Invites /\ req[r].name \in Name /\ row \in UserRow
  BY <1>2 DEF Creation, UserRow
<1>5. Ids' = Ids \cup {id} /\ users'[id] = row /\ \A i \in Ids : users'[i] = users[i]
  BY <1>3 DEF CommitUser, InsertUserRow, Ids
<1>6. users' \in [Ids \cup {id} -> UserRow]
  <2>1. \A i \in Ids \cup {id} : (IF i = id THEN row ELSE users[i]) \in UserRow
    BY <1>1, <1>4 DEF UsersTyped
  <2>2. users' = [i \in Ids \cup {id} |-> IF i = id THEN row ELSE users[i]]
    BY DEF CommitUser, InsertUserRow
  <2> HIDE DEF row, id
  <2> QED
    BY <2>1, <2>2
<1>7. /\ row.name = req[r].name /\ row.kind = req[r].kind /\ row.invite = inv
  OBVIOUS
<1>8. /\ lock' = None
      /\ ReqTyped' /\ DOMAIN req' = Request
      /\ req'[r].step \notin CreateSteps
      /\ \A s \in Request \ {r} : req'[s] = req[s]
  <2> DEFINE q == IF req[r].kind = "movie" THEN [step |-> "profile", user |-> id] ELSE Free
  <2>1. req' = [req EXCEPT ![r] = q] /\ lock' = None
    BY <1>2 DEF CommitUser, InsertUserRow, Unlock
  <2>2. id \in Nat
    BY <1>3 DEF UserId
  <2>3. q \in {Free} \cup Creation \cup OfUser /\ q.step \notin CreateSteps
    BY <2>2, StepDisjoint DEF OfUser, UserSteps, Free
  <2> HIDE DEF q
  <2> QED
    BY <2>1, <2>3, SetRequest DEF IInv, TInv, Becomes
<1>9. \A s \in Request : req'[s].step \notin {"locked", "unique", "invited"}
  BY <1>2, <1>8, StepDisjoint DEF IInv, LInv, LockHeld
<1>10. LInv'
  <2>1. LockHeld'
    BY <1>8, <1>9, NoneIsNoCode DEF LockHeld
  <2>2. NameFree' /\ CodeUnused'
    BY <1>9 DEF NameFree, CodeUnused
  <2>3. CodeAsked'
    BY <1>8 DEF IInv, LInv, CodeAsked
  <2> QED
    BY <2>1, <2>2, <2>3 DEF LInv
<1>11. /\ \A c \in InviteCode, i \in UserId : <<c, i>> \in spent' <=>
              <<c, i>> \in spent \/ (c = inv /\ i = id)
       /\ spent' \subseteq InviteCode \X (1..id)
       /\ inv # None => <<inv, id>> \in spent'
  <2>1. spent' = spent \cup ({<<inv, id>>} \ {<<None, id>>})
    BY DEF CommitUser, InsertUserRow
  <2>2. inv # None => inv \in InviteCode
    BY <1>4 DEF Invites
  <2>3. spent \subseteq InviteCode \X (1..id) /\ id \in 1..id
    BY <1>1, <1>3 DEF InvitesTyped
  <2> HIDE DEF inv, id
  <2>4. \A c \in InviteCode, i \in UserId : <<c, i>> \in spent' <=>
              <<c, i>> \in spent \/ (c = inv /\ i = id)
    BY <2>1, NoneIsNoCode
  <2>5. {<<inv, id>>} \ {<<None, id>>} \subseteq InviteCode \X (1..id)
    BY <2>2, <2>3
  <2>6. inv # None => <<inv, id>> \in spent'
    BY <2>1
  <2> QED
    BY <2>1, <2>3, <2>4, <2>5, <2>6
<1>12. invites' = [c \in DOMAIN invites |-> invites[c] \/ c = inv]
  BY DEF CommitUser
<1>13. inv # None => inv \in DOMAIN invites /\ ~invites[inv]
  BY <1>2 DEF IInv, LInv, CodeUnused, IsValidInviteCode
<1>14. UNCHANGED <<codes, tokens>>
  BY DEF CommitUser, InsertUserRow
<1> HIDE DEF id, inv, row
<1>15. TypeOK'
  <2>1. UsersTyped'
    BY <1>1, <1>3, <1>5, <1>6 DEF UsersTyped
  <2>2. InvitesTyped'
    <3>1. invites' \in [DOMAIN invites' -> BOOLEAN] /\ DOMAIN invites' \subseteq InviteCode
      BY <1>1, <1>12 DEF InvitesTyped
    <3> QED
      BY <1>3, <1>11, <3>1 DEF InvitesTyped
  <2>3. TokensTyped'
    BY <1>1, <1>5, <1>14 DEF TokensTyped
  <2>4. RequestsTyped'
    BY <1>8 DEF RequestsTyped
  <2> QED
    BY <2>1, <2>2, <2>3, <2>4
    DEF TypeOK, UsersTyped, InvitesTyped, TokensTyped, RequestsTyped, UserRow, Kinds, Invites, Ids
<1>16. NamesDiffer'
  <2>1. \A i \in Ids : <<users[i].name, req[r].name>> \notin Like
    BY <1>2 DEF IInv, LInv, NameFree
  <2>2. \A i \in Ids : users[i].name \in Name
    BY <1>1 DEF UsersTyped, UserRow
  <2>3. \A i \in Ids : Lower[users[i].name] # Lower[req[r].name]
    BY <1>4, <2>1, <2>2, AccountsAssumption
  <2>4. \A i, k \in Ids \cup {id} : Lower[users'[i].name] = Lower[users'[k].name] => i = k
    BY <1>3, <1>5, <1>7, <2>3 DEF IInv, NamesDiffer
  <2> QED
    BY <1>5, <2>4 DEF NamesDiffer
<1>17. CodesSpent'
  <2>1. DOMAIN invites' = DOMAIN invites /\ \A c \in DOMAIN invites : invites'[c] <=> invites[c] \/ c = inv
    BY <1>12
  <2>2. \A c \in DOMAIN invites : c \in InviteCode
    BY <1>1 DEF InvitesTyped
  <2>3. \A c \in DOMAIN invites : invites'[c] <=> \E i \in UserId : <<c, i>> \in spent'
    BY <1>3, <1>11, <2>1, <2>2 DEF IInv, CodesSpent
  <2>4. \A c \in InviteCode, i \in UserId : <<c, i>> \in spent' => c \in DOMAIN invites'
    BY <1>11, <1>13, <2>1, NoneIsNoCode DEF IInv, CodesSpent
  <2>5. \A c \in InviteCode, i, k \in UserId : <<c, i>> \in spent' /\ <<c, k>> \in spent' => i = k
    <3>1. \A i \in UserId : inv \in InviteCode => <<inv, i>> \notin spent
      BY <1>13, NoneIsNoCode DEF IInv, CodesSpent
    <3> QED
      BY <1>11, <3>1 DEF IInv, CodesSpent
  <2> QED
    BY <2>1, <2>3, <2>4, <2>5 DEF CodesSpent
<1>18. UsersInvited'
  <2>1. req[r].kind = "account" /\ RegistrationType = "invite" => inv # None
    BY <1>2, StepDisjoint DEF IInv, LInv, CodeAsked, inv
  <2>2. \A i \in Ids : users[i].kind = "account" /\ RegistrationType = "invite"
                         => <<users[i].invite, i>> \in spent
    BY DEF IInv, UsersInvited
  <2>3. spent \subseteq spent'
    BY DEF CommitUser, InsertUserRow
  <2> QED
    BY <1>5, <1>7, <1>11, <2>1, <2>2, <2>3 DEF UsersInvited
<1> QED
  BY <1>8, <1>10, <1>15, <1>16, <1>17, <1>18 DEF IInv, TInv

-----------------------------------------------------------------------------
(* The invariant *)

LEMMA RequestIInv ==
    ASSUME IInv, NEW r \in Request,
           \/ \E n \in Name :
                \/ \E c \in InviteCode \cup {None} : CreateAccount(r, n, c)
                \/ CliCreateUser(r, n)
                \/ \E here \in BOOLEAN : WebfingerView(r, n, here)
                \/ MentionLookup(r, n)
           \/ UpdateMovieProfile(r)
           \/ RequestFails(r)
           \/ \E i \in Ids :
                \/ AuthorizeView(r, i)
                \/ \E grant \in {"password", "authorization_code"} : TokenView(r, i, grant)
           \/ CreateOauthAuthorization(r)
           \/ \E s \in Slot : SaveOauthToken(r, s)
    PROVE  IInv'
<1>1. ASSUME NEW n \in Name, \E c \in InviteCode \cup {None} : CreateAccount(r, n, c) PROVE IInv'
  BY <1>1, CreateAccountIInv
<1>2. ASSUME NEW n \in Name, CliCreateUser(r, n) PROVE IInv'
  BY <1>2, CliCreateIInv
<1>3. ASSUME NEW n \in Name, NEW here \in BOOLEAN, WebfingerView(r, n, here) PROVE IInv'
  BY <1>3, LookupIInv DEF WebfingerView
<1>4. ASSUME NEW n \in Name, MentionLookup(r, n) PROVE IInv'
  BY <1>4, LookupIInv DEF MentionLookup
<1>5. CASE UpdateMovieProfile(r)
  BY <1>5, UpdateMovieIInv
<1>6. CASE RequestFails(r)
  BY <1>6, RollBackIInv DEF RequestFails
<1>7. ASSUME NEW i \in Ids, AuthorizeView(r, i) PROVE IInv'
  BY <1>7, ReadUserIInv DEF AuthorizeView, UserSteps
<1>8. ASSUME NEW i \in Ids, NEW grant, TokenView(r, i, grant) PROVE IInv'
  BY <1>8, ReadUserIInv DEF TokenView, UserSteps
<1>9. CASE CreateOauthAuthorization(r)
  BY <1>9, AuthorizationIInv
<1>10. ASSUME NEW s \in Slot, SaveOauthToken(r, s) PROVE IInv'
  BY <1>10, SaveTokenIInv
<1> QED
  BY <1>1, <1>2, <1>3, <1>4, <1>5, <1>6, <1>7, <1>8, <1>9, <1>10

LEMMA NextIInv == IInv /\ [Next]_vars => IInv'
<1> SUFFICES ASSUME IInv, [Next]_vars PROVE IInv'
  OBVIOUS
<1>1. ASSUME NEW c \in InviteCode, GenerateInviteCode(c) PROVE IInv'
  BY <1>1, GenerateIInv
<1>2. ASSUME NEW r \in Request, LockTable(r) \/ CheckName(r) \/ UseInvite(r) \/ CommitUser(r)
      PROVE IInv'
  BY <1>2, LockIInv, CheckNameIInv, UseInviteIInv, CommitIInv
<1>3. ASSUME NEW i \in Ids, DeleteUser(i) PROVE IInv'
  BY <1>3, DeleteUserIInv
<1>4. ASSUME NEW i \in Ids, CliSetPassword(i) PROVE IInv'
  <2>1. UNCHANGED <<users, made, invites, spent, req, lock>> /\ codes' = codes /\ tokens' \subseteq tokens
    BY <1>4 DEF CliSetPassword, DeleteOauthTokens
  <2> QED
    BY <2>1, FewerTokensIInv
<1>5. ASSUME NEW i \in Ids, Expire(i) PROVE IInv'
  <2>1. UNCHANGED <<users, made, invites, spent, req, lock>>
        /\ codes' \subseteq codes /\ tokens' \subseteq tokens
    BY <1>5 DEF Expire
  <2> QED
    BY <2>1, FewerTokensIInv
<1>6. ASSUME NEW t \in tokens, NEW i \in CurrentUsers, RevokeToken(i, t) PROVE IInv'
  <2>1. UNCHANGED <<users, made, invites, spent, req, lock>> /\ codes' = codes /\ tokens' \subseteq tokens
    BY <1>6 DEF RevokeToken, DeleteOauthToken
  <2> QED
    BY <2>1, FewerTokensIInv
<1>7. CASE UNCHANGED vars
  <2>1. UNCHANGED <<users, made, invites, spent, req, lock>> /\ codes' = codes /\ tokens' = tokens
    BY <1>7 DEF vars, rows
  <2> QED
    BY <2>1, FewerTokensIInv
<1> QED
  BY <1>1, <1>2, <1>3, <1>4, <1>5, <1>6, <1>7, RequestIInv DEF Next

LEMMA AlwaysIInv == Spec => []IInv
BY InitIInv, NextIInv, PTL DEF Spec

-----------------------------------------------------------------------------
(* The theorems *)

LEMMA AtMostOne ==
    ASSUME NEW S, \A x, y \in S : x = y
    PROVE  \/ S = {} /\ Cardinality(S) = 0
           \/ S # {} /\ Cardinality(S) = 1
<1>1. CASE S = {}
  <2>1. Cardinality({}) = 0
    BY FS_EmptySet
  <2> QED
    BY <1>1, <2>1
<1>2. CASE S # {}
  <2>1. PICK x \in S : TRUE
    BY <1>2
  <2>2. S = {x}
    BY <2>1
  <2> QED
    BY <1>2, <2>2, FS_Singleton
<1> QED
  BY <1>1, <1>2

\* Codes and tokens belong to users who exist: an authorization or a token that
\* is written after the user has been deleted is refused.
THEOREM AccountsTypeCorrect == Spec => []TypeOK
<1>1. IInv => TypeOK
  BY DEF IInv, TInv
<1> QED
  BY <1>1, AlwaysIInv, PTL

\* No two users have names that differ in the case only, although UNIQUE (acct)
\* allows it: create_user checks the name while it holds the lock on the table.
THEOREM AccountsOnePerName == Spec => []OneAccountPerName
<1>1. IInv => OneAccountPerName
  <2> SUFFICES ASSUME IInv, NEW n \in Name PROVE Cardinality(ByName(n)) <= 1
    BY DEF OneAccountPerName
  <2>1. \A i, k \in ByName(n) : i = k
    BY DEF ByName, IInv, NamesDiffer
  <2> QED
    BY <2>1, AtMostOne
<1> QED
  BY <1>1, AlwaysIInv, PTL

\* Each used code has created one user, each unused code none, and when codes
\* are required no account exists without one, whichever registrations race for
\* a code or fail after it was used.
THEOREM AccountsInvitesSpentOnce == Spec => []InvitesSpentOnce
<1>1. IInv => InvitesSpentOnce
  <2> SUFFICES ASSUME IInv PROVE InvitesSpentOnce
    OBVIOUS
  <2>1. ASSUME NEW c \in DOMAIN invites
        PROVE  Cardinality({i \in UserId : <<c, i>> \in spent}) = IF invites[c] THEN 1 ELSE 0
    <3> DEFINE S == {i \in UserId : <<c, i>> \in spent}
    <3>1. c \in InviteCode
      BY TypeParts DEF IInv, TInv, InvitesTyped
    <3>2. \A i, k \in S : i = k
      BY <3>1 DEF IInv, CodesSpent
    <3>3. invites[c] <=> S # {}
      BY DEF IInv, CodesSpent
    <3> HIDE DEF S
    <3>4. (S = {} /\ Cardinality(S) = 0) \/ (S # {} /\ Cardinality(S) = 1)
      BY <3>2, AtMostOne
    <3>5. Cardinality(S) = IF invites[c] THEN 1 ELSE 0
      BY <3>3, <3>4
    <3> QED
      BY <3>5 DEF S
  <2> QED
    BY <2>1 DEF InvitesSpentOnce, IInv, UsersInvited
<1> QED
  BY <1>1, AlwaysIInv, PTL
=============================================================================
