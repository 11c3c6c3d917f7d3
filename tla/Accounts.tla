------------------------------ MODULE Accounts ------------------------------
(***************************************************************************)
(* Accounts, refresh tokens, logged-in devices, memberships and temporary  *)
(* grants: auth_views.py, user_management_views.py, permissions.py and the *)
(* models behind them.  One worker serves requests one at a time, so a     *)
(* request is one action; what interleaves is the order of the requests,   *)
(* the clock and the sweep of expired grants.  No view opens a transaction *)
(* and ATOMIC_REQUESTS is off: each write of a revocation is committed by  *)
(* itself, and a database error, the worker's timeout or a restart can end *)
(* the request after any of them.                                          *)
(*                                                                         *)
(* Abstractions: a password, a name and a device description are left out; *)
(* a refresh token is its number, and one that is blacklisted or past its  *)
(* lifetime is "invalid", as RefreshToken() refuses both alike.            *)
(***************************************************************************)
EXTENDS Naturals

CONSTANTS
    Users,        \* accounts the API manages
    Staff,        \* requesters with is_staff
    Owners,       \* requesters with a BuildingMembership
    Buildings,
    OwnedBy,      \* BuildingMembership: owner -> the buildings it holds
    Apartments,
    Roles,        \* basic and custom roles
    CodesOf,      \* role -> its permission codes
    ExtraCodes,   \* codes that can be granted on top of a role
    None,
    MaxTokens,    \* bound: refresh tokens minted in a behaviour
    MaxTime       \* bound: the clock

ASSUME OwnersAssumption == OwnedBy \in [Owners -> SUBSET Buildings]
ASSUME RequestersAssumption == Staff \cap Owners = {}
ASSUME TokensAssumption == MaxTokens \in Nat
ASSUME NoneAssumption ==
    /\ None \notin Users /\ None \notin Buildings
    /\ None \notin Apartments /\ None \notin Roles

VARIABLES
    account,      \* User row: "none", "active", "disabled" or "deleted"
    holder,       \* OutstandingToken: the user a refresh token was minted for
    invalid,      \* tokens RefreshToken() refuses: BlacklistedToken or expired
    session,      \* SessionInfo by jti: "none", "live" or "revoked"
    member,       \* ApartmentMembership by user and apartment
    building,     \* Apartment rows: the building each was created in
    grant,        \* TemporaryAccess: the latest grant of each user
    now,
    root,         \* history: the login a token descends from
    unrecorded,   \* history: users for whom _record_session once failed
    cut,          \* history: accepted tokens of logins whose revocation ended between its writes
    spared        \* history: disabled users with no forced logout finished since

tokenVars == <<holder, invalid, session, root, unrecorded, cut, spared>>
placeVars == <<member, building, grant, now>>
vars == <<account, tokenVars, placeVars>>

Tokens == 1 .. MaxTokens
Requesters == Staff \cup Owners
Membership == [role : Roles, extra : SUBSET ExtraCodes, default : BOOLEAN]
TemporaryAccess ==
    [apartment : Apartments, until : Nat, revoked : BOOLEAN]
NoMembership == [role |-> None, extra |-> {}, default |-> FALSE]
NoGrant == [apartment |-> None, until |-> 0, revoked |-> TRUE]

Init ==
    /\ account = [u \in Users |-> "none"]
    /\ holder = [t \in Tokens |-> None]
    /\ invalid = {}
    /\ session = [t \in Tokens |-> "none"]
    /\ member = [u \in Users |-> [a \in Apartments |-> NoMembership]]
    /\ building = [a \in Apartments |-> None]
    /\ grant = [u \in Users |-> NoGrant]
    /\ now = 0
    /\ root = [t \in Tokens |-> 0]
    /\ unrecorded = {}
    /\ cut = {}
    /\ spared = {}

Exists(u) == account[u] \in {"active", "disabled"}
Usable(t) == holder[t] # None /\ t \notin invalid

owned_buildings(r) == OwnedBy[r]

apartments_in_scope(r) ==
    IF r \in Staff
    THEN {a \in Apartments : building[a] # None}
    ELSE {a \in Apartments : building[a] \in owned_buildings(r)}

users_in_scope(r) ==
    {u \in Users :
        /\ Exists(u)
        /\ r \in Staff \/ \E a \in apartments_in_scope(r) : member[u][a] # NoMembership}

GrantIsActive(u) == ~grant[u].revoked /\ now <= grant[u].until

(* The codes of the role, custom or basic, and the extra ones. *)
permission_codes(m) == CodesOf[m.role] \cup m.extra

(* What u may do in a: the codes of its membership and of an open grant. *)
resolve_permissions(u, a) ==
    (IF member[u][a] # NoMembership
     THEN permission_codes(member[u][a]) ELSE {})
      \cup (IF GrantIsActive(u) /\ grant[u].apartment = a THEN {"granted"} ELSE {})

(* The apartments the registry of u's next /plc/ request can be: the       *)
(* default membership first, any membership failing that, then a grant.    *)
_registry_or_error(u) ==
    LET rows == {a \in Apartments : member[u][a] # NoMembership}
        defaults == {a \in rows : member[u][a].default}
    IN  IF defaults # {} THEN defaults
        ELSE IF rows # {} THEN rows
        ELSE {a \in Apartments : GrantIsActive(u) /\ grant[u].apartment = a}
-----------------------------------------------------------------------------
(* RefreshToken.for_user and _record_session: the row is best effort, a    *)
(* database error there is swallowed and the token is handed out anyway.   *)
Mint(t, u, from, recorded) ==
    /\ holder[t] = None
    /\ \A s \in Tokens : s < t => holder[s] # None
    /\ holder' = [holder EXCEPT ![t] = u]
    /\ session' = [session EXCEPT ![t] = IF recorded THEN "live" ELSE "none"]
    /\ root' = [root EXCEPT ![t] = from]
    /\ unrecorded' = IF recorded THEN unrecorded ELSE unrecorded \cup {u}

register(u, t, recorded) ==
    /\ Staff # {}
    /\ account[u] = "none"
    /\ account' = [account EXCEPT ![u] = "active"]
    /\ Mint(t, u, t, recorded)
    /\ UNCHANGED <<invalid, cut, spared, placeVars>>

login(u, t, recorded) ==
    /\ account[u] = "active"
    /\ Mint(t, u, t, recorded)
    /\ UNCHANGED <<account, invalid, cut, spared, placeVars>>

\* Mutant: the rotated token is not blacklisted.
RefreshWithoutBlacklist(old, t, recorded) ==
    /\ Usable(old)
    /\ Exists(holder[old])
    /\ Mint(t, holder[old], root[old], recorded)
    /\ UNCHANGED <<account, invalid, cut, spared, placeVars>>

(* The old row stays "live"; is_active is not looked at. *)
refresh_token(old, t, recorded) ==
    /\ Usable(old)
    /\ Exists(holder[old])
    /\ Mint(t, holder[old], root[old], recorded)
    /\ invalid' = invalid \cup {old}
    /\ cut' = IF old \in cut THEN (cut \ {old}) \cup {t} ELSE cut
    /\ UNCHANGED <<account, spared, placeVars>>

(* How far a revocation of ts got: the rows in done are flagged and their  *)
(* tokens blacklisted, and the one in last, if any, is only flagged.       *)
Progress(ts, done, last) ==
    /\ done \subseteq ts
    /\ last \subseteq ts \ done
    /\ \A s, t \in last : s = t

\* Mutant: "just a local flag flip", as the docstring of session_revoke puts it.
RevokeFlagOnly(ts, done, last) ==
    /\ Progress(ts, done, last)
    /\ session' = [t \in Tokens |-> IF t \in done \cup last /\ session[t] = "live"
                                    THEN "revoked" ELSE session[t]]
    /\ cut' = cut \cup (last \ invalid)
    /\ UNCHANGED <<holder, invalid, root, unrecorded>>

(* Row by row, revoked=True is saved and then the token is blacklisted. *)
Revoke(ts, done, last) ==
    /\ Progress(ts, done, last)
    /\ session' = [t \in Tokens |-> IF t \in done \cup last /\ session[t] = "live"
                                    THEN "revoked" ELSE session[t]]
    /\ invalid' = invalid \cup done
    /\ cut' = (cut \cup last) \ invalid'
    /\ UNCHANGED <<holder, root, unrecorded>>

logout(t, done, last) ==
    /\ \E u \in Users : account[u] = "active"
    /\ Usable(t)
    /\ Revoke({t}, done, last)
    /\ UNCHANGED <<account, spared, placeVars>>

(* Of an already revoked row too, which is how a revocation is repeated. *)
session_revoke(u, t, done, last) ==
    /\ account[u] = "active"
    /\ holder[t] = u
    /\ session[t] # "none"
    /\ Revoke({t}, done, last)
    /\ UNCHANGED <<account, spared, placeVars>>

(* SessionInfo.objects.filter(user=user, revoked=False) *)
LiveRows(u) == {t \in Tokens : holder[t] = u /\ session[t] = "live"}

_force_logout(u, done, last) ==
    /\ Revoke(LiveRows(u), done, last)
    /\ spared' = IF done = LiveRows(u) THEN spared \ {u} ELSE spared

session_revoke_all(u, done, last) ==
    /\ account[u] = "active"
    /\ _force_logout(u, done, last)
    /\ UNCHANGED <<account, placeVars>>

\* Mutant: the account is disabled without the forced logout.
DisableKeepsSessions(r, u, done, last) ==
    /\ u \in users_in_scope(r)
    /\ Progress(LiveRows(u), done, last)
    /\ account' = [account EXCEPT ![u] = "disabled"]
    /\ spared' = IF done = LiveRows(u) THEN spared \ {u} ELSE spared \cup {u}
    /\ UNCHANGED <<holder, invalid, session, root, unrecorded, cut, placeVars>>

(* REFRESH_TOKEN_LIFETIME passes; a refresh that fails after blacklist()   *)
(* and before the new token leaves the same.                               *)
TokenExpires(t) ==
    /\ Usable(t)
    /\ invalid' = invalid \cup {t}
    /\ cut' = cut \ {t}
    /\ UNCHANGED <<account, holder, session, root, unrecorded, spared, placeVars>>
-----------------------------------------------------------------------------
(* is_active is committed first: what ends the forced logout early leaves  *)
(* a disabled account that was not, or not wholly, logged out.             *)
user_disable(r, u, done, last) ==
    /\ u \in users_in_scope(r)
    /\ account' = [account EXCEPT ![u] = "disabled"]
    /\ Revoke(LiveRows(u), done, last)
    /\ spared' = IF done = LiveRows(u) THEN spared \ {u} ELSE spared \cup {u}
    /\ UNCHANGED placeVars

(* is_active is cleared in the Django admin, which logs nobody out. *)
AdminDisable(u) ==
    /\ account[u] = "active"
    /\ account' = [account EXCEPT ![u] = "disabled"]
    /\ spared' = spared \cup {u}
    /\ UNCHANGED <<holder, invalid, session, root, unrecorded, cut, placeVars>>

user_enable(r, u) ==
    /\ u \in users_in_scope(r)
    /\ account' = [account EXCEPT ![u] = "active"]
    /\ spared' = spared \ {u}
    /\ UNCHANGED <<holder, invalid, session, root, unrecorded, cut, placeVars>>

user_reset_password(r, u, done, last) ==
    /\ u \in users_in_scope(r)
    /\ _force_logout(u, done, last)
    /\ UNCHANGED <<account, placeVars>>

user_force_logout(r, u, done, last) ==
    /\ u \in users_in_scope(r)
    /\ _force_logout(u, done, last)
    /\ UNCHANGED <<account, placeVars>>

(* DELETE cascades to memberships, grants and SessionInfo rows; the minted *)
(* tokens stay outstanding, but User.objects.get then fails in refresh.    *)
user_detail(r, u) ==
    /\ u \in users_in_scope(r)
    /\ account' = [account EXCEPT ![u] = "deleted"]
    /\ session' = [t \in Tokens |-> IF holder[t] = u THEN "none" ELSE session[t]]
    /\ member' = [member EXCEPT ![u] = [a \in Apartments |-> NoMembership]]
    /\ grant' = [grant EXCEPT ![u] = NoGrant]
    /\ spared' = spared \ {u}
    /\ UNCHANGED <<holder, invalid, root, unrecorded, cut, building, now>>

\* Mutant: save() does not demote the other defaults.
SaveWithoutDemotion(u, a, row) ==
    member' = [member EXCEPT ![u][a] = row]

(* ApartmentMembership.save: a row saved as default demotes the others. *)
SaveMembership(u, a, row) ==
    member' = [member EXCEPT ![u] = [b \in Apartments |->
        IF b = a THEN row
        ELSE IF row.default THEN [member[u][b] EXCEPT !.default = FALSE]
        ELSE member[u][b]]]

\* Mutant: the apartment is not looked up in the requester's scope.
RemoveAnywhere(r, u, a) ==
    /\ Exists(u)
    /\ member[u][a] # NoMembership
    /\ member' = [member EXCEPT ![u][a] = NoMembership]
    /\ UNCHANGED <<account, tokenVars, building, grant, now>>

user_assign_apartment(r, u, a, role, default) ==
    /\ Exists(u)
    /\ a \in apartments_in_scope(r)
    /\ SaveMembership(u, a, [role |-> role, extra |-> member[u][a].extra,
                              default |-> default])
    /\ UNCHANGED <<account, tokenVars, building, grant, now>>

(* POST overwrites the extra codes; the row itself is not saved. *)
user_apartment_permissions(r, u, a, codes) ==
    /\ a \in apartments_in_scope(r)
    /\ member[u][a] # NoMembership
    /\ member' = [member EXCEPT ![u][a].extra = codes]
    /\ UNCHANGED <<account, tokenVars, building, grant, now>>

\* Mutant: the missing membership is not answered with a 404.
SelectAnyApartment(u, a) ==
    /\ account[u] = "active"
    /\ SaveMembership(u, a, [member[u][a] EXCEPT !.default = TRUE])
    /\ UNCHANGED <<account, tokenVars, building, grant, now>>

user_remove_apartment(r, u, a) ==
    /\ Exists(u)
    /\ a \in apartments_in_scope(r)
    /\ member[u][a] # NoMembership
    /\ member' = [member EXCEPT ![u][a] = NoMembership]
    /\ UNCHANGED <<account, tokenVars, building, grant, now>>

apartment_select(u, a) ==
    /\ account[u] = "active"
    /\ member[u][a] # NoMembership
    /\ SaveMembership(u, a, [member[u][a] EXCEPT !.default = TRUE])
    /\ UNCHANGED <<account, tokenVars, building, grant, now>>

_create_apartment(r, a, b) ==
    /\ building[a] = None
    /\ r \in Owners => b \in owned_buildings(r)
    /\ building' = [building EXCEPT ![a] = b]
    /\ UNCHANGED <<account, tokenVars, member, grant, now>>

(* A TemporaryAccess row is created in the Django admin. *)
GrantAccess(u, a, until) ==
    /\ Exists(u)
    /\ building[a] # None
    /\ until >= now
    /\ grant' = [grant EXCEPT ![u] = [apartment |-> a, until |-> until, revoked |-> FALSE]]
    /\ UNCHANGED <<account, tokenVars, member, building, now>>

expire_temporary_access ==
    /\ \E u \in Users : ~grant[u].revoked /\ grant[u].until <= now
    /\ grant' = [u \in Users |-> IF grant[u].until <= now
                                 THEN [grant[u] EXCEPT !.revoked = TRUE]
                                 ELSE grant[u]]
    /\ UNCHANGED <<account, tokenVars, member, building, now>>

Tick ==
    /\ now < MaxTime
    /\ now' = now + 1
    /\ UNCHANGED <<account, tokenVars, member, building, grant>>
-----------------------------------------------------------------------------
TokenStep ==
    \/ \E u \in Users, t \in Tokens, recorded \in BOOLEAN :
          register(u, t, recorded) \/ login(u, t, recorded)
    \/ \E old, t \in Tokens, recorded \in BOOLEAN : refresh_token(old, t, recorded)
    \/ \E t \in Tokens : TokenExpires(t)
    \/ \E t \in Tokens : \E done, last \in SUBSET {t} :
          logout(t, done, last) \/ \E u \in Users : session_revoke(u, t, done, last)
    \/ \E u \in Users : \E done, last \in SUBSET LiveRows(u) :
          session_revoke_all(u, done, last)

(* What requester r may do to accounts and memberships. *)
ManagementStep(r) ==
    \/ \E u \in Users : user_enable(r, u) \/ user_detail(r, u)
    \/ \E u \in Users : \E done, last \in SUBSET LiveRows(u) :
          \/ user_disable(r, u, done, last) \/ user_reset_password(r, u, done, last)
          \/ user_force_logout(r, u, done, last)
    \/ \E u \in Users, a \in Apartments :
          \/ user_remove_apartment(r, u, a)
          \/ \E codes \in SUBSET ExtraCodes :
                user_apartment_permissions(r, u, a, codes)
          \/ \E role \in Roles, default \in BOOLEAN :
                user_assign_apartment(r, u, a, role, default)
    \/ \E a \in Apartments, b \in Buildings : _create_apartment(r, a, b)

Next ==
    \/ TokenStep
    \/ \E r \in Requesters : ManagementStep(r)
    \/ \E u \in Users, a \in Apartments : apartment_select(u, a)
    \/ \E u \in Users, a \in Apartments, until \in 0 .. MaxTime : GrantAccess(u, a, until)
    \/ \E u \in Users : AdminDisable(u)
    \/ expire_temporary_access
    \/ Tick

Spec == Init /\ [][Next]_vars
-----------------------------------------------------------------------------
(* Every row has the type its model declares, a missing one its null form. *)
TypeOK ==
    /\ account \in [Users -> {"none", "active", "disabled", "deleted"}]
    /\ holder \in [Tokens -> Users \cup {None}]
    /\ invalid \subseteq Tokens
    /\ session \in [Tokens -> {"none", "live", "revoked"}]
    /\ member \in [Users -> [Apartments -> Membership \cup {NoMembership}]]
    /\ building \in [Apartments -> Buildings \cup {None}]
    /\ grant \in [Users -> TemporaryAccess \cup {NoGrant}]
    /\ now \in Nat
    /\ root \in [Tokens -> 0 .. MaxTokens]
    /\ unrecorded \subseteq Users
    /\ cut \subseteq Tokens
    /\ spared \subseteq Users

(* A device shown as revoked cannot come back: whatever the order of       *)
(* logout, revocation, forced logout and rotation, the refresh token of a  *)
(* revoked SessionInfo row is refused for good.  The one way out is a      *)
(* request that ended between its two writes, until session_revoke is      *)
(* repeated on that row: no forced logout looks at it again.               *)
RevokedNeverUsable ==
    \A t \in Tokens : session[t] = "revoked" => t \in invalid \/ t \in cut

(* Rotation never forks a login: of all the refresh tokens that descend    *)
(* from one login at most one is still accepted by refresh_token.          *)
OneTokenPerLogin ==
    \A s, t \in Tokens :
        Usable(s) /\ Usable(t) /\ root[s] = root[t] => s = t

(* The tokens of login l that refresh_token would exchange. *)
AcceptedOf(l) ==
    {t \in Tokens : Usable(t) /\ root[t] = l /\ Exists(holder[t])}

Logins == INSTANCE LoginSessions WITH
    handed <- {t \in Tokens : holder[t] # None},
    accepted <- [l \in Tokens |-> AcceptedOf(l)]

(* The token endpoints implement LoginSessions: a login has one accepted   *)
(* token until it ends, whether by logout, revocation, a forced logout, a  *)
(* deleted account or the clock; it never comes back; and no request about *)
(* one login touches the token of another that goes on.                    *)
LoginSpec == Logins!Spec

(* A disabled account is logged out everywhere once a forced logout of it  *)
(* has finished, its own or a later one: no refresh token of it is         *)
(* accepted, although refresh_token never looks at is_active and           *)
(* _force_logout sees only unflagged SessionInfo rows.  What those two     *)
(* leave open is excepted: a user whose rows were not all recorded, and a  *)
(* login whose revocation once ended between its two writes.               *)
DisabledIsLoggedOut ==
    \A u \in Users, t \in Tokens :
        /\ account[u] = "disabled" /\ holder[t] = u
        /\ u \notin unrecorded \cup spared /\ t \notin cut
      => t \in invalid

(* The apartment a user's commands go to is unambiguous as soon as the     *)
(* user has a default: save() leaves one default per user, whoever set it. *)
DefaultIsUnique ==
    \A u \in Users :
        (\E a \in Apartments : member[u][a].default)
          => \E a \in Apartments : _registry_or_error(u) = {a}

(* A step that changes what a user may do in an apartment outside a        *)
(* building owner's buildings is not a request of that owner, unless it    *)
(* deletes the account: assigning a user to the owner's own apartment may  *)
(* move the user's default away from another building's, no more.          *)
OwnerStaysInScope ==
    [][\A r \in Owners, u \in Users, a \in Apartments :
         /\ a \notin apartments_in_scope(r)
         /\ account'[u] # "deleted"
         /\ resolve_permissions(u, a)' # resolve_permissions(u, a)
       => ~ManagementStep(r)]_vars

=============================================================================
