--------------------------- MODULE AccountsProofs ---------------------------
(***************************************************************************)
(* Proofs about Accounts, for any set of users, requesters, buildings and  *)
(* apartments and any number of tokens.                                    *)
(***************************************************************************)
EXTENDS Accounts, TLAPS

(* A request that touches no token row, and one that touches no place row. *)
PlaceStep ==
    \/ \E r \in Requesters, u \in Users, a \in Apartments :
          \/ user_remove_apartment(r, u, a)
          \/ \E codes \in SUBSET ExtraCodes :
                user_apartment_permissions(r, u, a, codes)
          \/ \E role \in Roles, default \in BOOLEAN :
                user_assign_apartment(r, u, a, role, default)
    \/ \E r \in Requesters, a \in Apartments, b \in Buildings : _create_apartment(r, a, b)
    \/ \E u \in Users, a \in Apartments : apartment_select(u, a)
    \/ \E u \in Users, a \in Apartments, until \in 0 .. MaxTime : GrantAccess(u, a, until)
    \/ expire_temporary_access
    \/ Tick

(* A forced logout by requester r, cut short or not. *)
ForcedLogout(r, u, done, last) ==
    \/ user_disable(r, u, done, last) \/ user_reset_password(r, u, done, last)
    \/ user_force_logout(r, u, done, last)

AccountStep ==
    \/ \E r \in Requesters, u \in Users : user_enable(r, u)
    \/ \E u \in Users : AdminDisable(u)
    \/ \E r \in Requesters, u \in Users : \E done, last \in SUBSET LiveRows(u) :
          ForcedLogout(r, u, done, last)

DeleteStep == \E r \in Requesters, u \in Users : user_detail(r, u)

(* The next-state relation is one of the four kinds of step. *)
LEMMA NextCases == Next => TokenStep \/ AccountStep \/ DeleteStep \/ PlaceStep
BY DEF Next, ManagementStep, PlaceStep, AccountStep, ForcedLogout, DeleteStep

(* The parts of the type invariant. *)
TokenTypes ==
    /\ holder \in [Tokens -> Users \cup {None}]
    /\ invalid \subseteq Tokens
    /\ session \in [Tokens -> {"none", "live", "revoked"}]
    /\ root \in [Tokens -> 0 .. MaxTokens]
    /\ unrecorded \subseteq Users
    /\ cut \subseteq Tokens
    /\ spared \subseteq Users

MemberTypes ==
    /\ member \in [Users -> [Apartments -> Membership \cup {NoMembership}]]
    /\ building \in [Apartments -> Buildings \cup {None}]

GrantTypes ==
    /\ grant \in [Users -> TemporaryAccess \cup {NoGrant}]
    /\ now \in Nat

AccountTypes == account \in [Users -> {"none", "active", "disabled", "deleted"}]

LEMMA TypeParts == TypeOK <=> TokenTypes /\ MemberTypes /\ GrantTypes /\ AccountTypes
BY DEF TypeOK, TokenTypes, MemberTypes, GrantTypes, AccountTypes

(* A missing row is left as it is by an update of its flag to the value it has. *)
LEMMA NullRows ==
    /\ [NoMembership EXCEPT !.default = FALSE] = NoMembership
    /\ [NoGrant EXCEPT !.revoked = TRUE] = NoGrant
<1>1. ASSUME NEW R, NEW E, NEW m \in [role : R, extra : E, default : BOOLEAN],
             m.default = FALSE
      PROVE  [m EXCEPT !.default = FALSE] = m
  BY <1>1
<1>2. ASSUME NEW A, NEW g \in [apartment : A, until : Nat, revoked : BOOLEAN],
             g.revoked = TRUE
      PROVE  [g EXCEPT !.revoked = TRUE] = g
  BY <1>2
<1>3. NoMembership \in [role : {None}, extra : {{}}, default : BOOLEAN]
  BY DEF NoMembership
<1>4. NoGrant \in [apartment : {None}, until : Nat, revoked : BOOLEAN]
  BY DEF NoGrant
<1>5. NoMembership.default = FALSE /\ NoGrant.revoked = TRUE
  BY DEF NoMembership, NoGrant
<1>6. QED
  BY <1>1, <1>2, <1>3, <1>4, <1>5

(* A mint keeps the token tables well typed. *)
LEMMA MintTypes ==
    ASSUME NEW t \in Tokens, NEW u \in Users, NEW from \in Tokens,
           NEW recorded \in BOOLEAN, TokenTypes, Mint(t, u, from, recorded)
    PROVE  /\ holder' \in [Tokens -> Users \cup {None}]
           /\ session' \in [Tokens -> {"none", "live", "revoked"}]
           /\ root' \in [Tokens -> 0 .. MaxTokens]
           /\ unrecorded' \subseteq Users
BY TokensAssumption DEF Mint, TokenTypes, Tokens

LEMMA RevokeTypes ==
    ASSUME NEW ts \in SUBSET Tokens, NEW done, NEW last, TokenTypes, Revoke(ts, done, last),
           spared' \subseteq Users
    PROVE  TokenTypes'
BY DEF Revoke, Progress, TokenTypes

(* Membership.save keeps the table well typed. *)
LEMMA SaveTypes ==
    ASSUME MemberTypes, NEW u \in Users, NEW a \in Apartments,
           NEW row \in Membership, SaveMembership(u, a, row)
    PROVE  member' \in [Users -> [Apartments -> Membership \cup {NoMembership}]]
<1> DEFINE Row(b) == IF b = a THEN row
                     ELSE IF row.default THEN [member[u][b] EXCEPT !.default = FALSE]
                     ELSE member[u][b]
<1>1. ASSUME NEW b \in Apartments
      PROVE  Row(b) \in Membership \cup {NoMembership}
  <2>1. member[u][b] \in Membership \cup {NoMembership}
    BY DEF MemberTypes
  <2>2. [member[u][b] EXCEPT !.default = FALSE] \in Membership \cup {NoMembership}
    <3>1. CASE member[u][b] \in Membership
      BY <3>1 DEF Membership
    <3>2. CASE member[u][b] = NoMembership
      BY <3>2, NullRows
    <3>3. QED
      BY <2>1, <3>1, <3>2
  <2>3. QED
    BY <2>1, <2>2
<1>2. [b \in Apartments |-> Row(b)] \in [Apartments -> Membership \cup {NoMembership}]
  BY <1>1
<1>3. member' = [member EXCEPT ![u] = [b \in Apartments |-> Row(b)]]
  BY DEF SaveMembership
<1>4. QED
  BY <1>2, <1>3 DEF MemberTypes

LEMMA PlaceTypes == ASSUME TypeOK, PlaceStep PROVE TypeOK'
<1>1. ASSUME NEW r \in Requesters, NEW u \in Users, NEW a \in Apartments,
             user_remove_apartment(r, u, a)
      PROVE  TypeOK'
  BY <1>1 DEF user_remove_apartment, tokenVars, TypeOK
<1>2. ASSUME NEW r \in Requesters, NEW u \in Users, NEW a \in Apartments,
             NEW codes \in SUBSET ExtraCodes, user_apartment_permissions(r, u, a, codes)
      PROVE  TypeOK'
  <2>1. member[u][a] \in Membership
    BY <1>2 DEF TypeOK, user_apartment_permissions
  <2>2. [member[u][a] EXCEPT !.extra = codes] \in Membership
    BY <2>1 DEF Membership
  <2>3. member' \in [Users -> [Apartments -> Membership \cup {NoMembership}]]
    BY <1>2, <2>2 DEF TypeOK, user_apartment_permissions
  <2>4. QED
    BY <1>2, <2>3 DEF user_apartment_permissions, tokenVars, TypeOK
<1>3. ASSUME NEW r \in Requesters, NEW u \in Users, NEW a \in Apartments,
             NEW role \in Roles, NEW default \in BOOLEAN,
             user_assign_apartment(r, u, a, role, default)
      PROVE  TypeOK'
  <2>1. member[u][a].extra \in SUBSET ExtraCodes
    BY DEF TypeOK, Membership, NoMembership
  <2>2. [role |-> role, extra |-> member[u][a].extra, default |-> default] \in Membership
    BY <2>1 DEF Membership
  <2>3. member' \in [Users -> [Apartments -> Membership \cup {NoMembership}]]
    BY <1>3, <2>2, SaveTypes, TypeParts DEF user_assign_apartment
  <2>4. QED
    BY <1>3, <2>3 DEF user_assign_apartment, tokenVars, TypeOK
<1>4. ASSUME NEW r \in Requesters, NEW a \in Apartments, NEW b \in Buildings,
             _create_apartment(r, a, b)
      PROVE  TypeOK'
  BY <1>4 DEF _create_apartment, tokenVars, TypeOK
<1>5. ASSUME NEW u \in Users, NEW a \in Apartments, apartment_select(u, a)
      PROVE  TypeOK'
  <2>1. member[u][a] \in Membership
    BY <1>5 DEF TypeOK, apartment_select
  <2>2. [member[u][a] EXCEPT !.default = TRUE] \in Membership
    BY <2>1 DEF Membership
  <2>3. member' \in [Users -> [Apartments -> Membership \cup {NoMembership}]]
    BY <1>5, <2>2, SaveTypes, TypeParts DEF apartment_select
  <2>4. QED
    BY <1>5, <2>3 DEF apartment_select, tokenVars, TypeOK
<1>6. ASSUME NEW u \in Users, NEW a \in Apartments, NEW until \in 0 .. MaxTime,
             GrantAccess(u, a, until)
      PROVE  TypeOK'
  <2>1. [apartment |-> a, until |-> until, revoked |-> FALSE] \in TemporaryAccess
    BY DEF TemporaryAccess
  <2>2. QED
    BY <1>6, <2>1 DEF GrantAccess, tokenVars, TypeOK
<1>7. CASE expire_temporary_access
  <2>1. ASSUME NEW u \in Users
        PROVE  [grant[u] EXCEPT !.revoked = TRUE] \in TemporaryAccess \cup {NoGrant}
    <3>1. CASE grant[u] \in TemporaryAccess
      BY <3>1 DEF TemporaryAccess
    <3>2. CASE grant[u] = NoGrant
      BY <3>2, NullRows
    <3>3. QED
      BY <3>1, <3>2 DEF TypeOK
  <2>2. grant' \in [Users -> TemporaryAccess \cup {NoGrant}]
    BY <1>7, <2>1 DEF expire_temporary_access, TypeOK
  <2>3. QED
    BY <1>7, <2>2 DEF expire_temporary_access, tokenVars, TypeOK
<1>8. CASE Tick
  BY <1>8 DEF Tick, tokenVars, TypeOK
<1>9. QED
  BY <1>1, <1>2, <1>3, <1>4, <1>5, <1>6, <1>7, <1>8 DEF PlaceStep

LEMMA AccountTypesStep == ASSUME TypeOK, AccountStep PROVE TypeOK'
<1>0. TokenTypes /\ MemberTypes /\ GrantTypes /\ AccountTypes
  BY TypeParts
<1>1. AccountTypes' /\ TokenTypes'
  <2>1. ASSUME NEW r \in Requesters, NEW u \in Users, user_enable(r, u)
        PROVE  AccountTypes' /\ TokenTypes'
    BY <1>0, <2>1 DEF AccountTypes, TokenTypes, user_enable
  <2>2. ASSUME NEW u \in Users, AdminDisable(u)
        PROVE  AccountTypes' /\ TokenTypes'
    BY <1>0, <2>2 DEF AccountTypes, TokenTypes, AdminDisable
  <2>3. ASSUME NEW r \in Requesters, NEW u \in Users, NEW done, NEW last,
               ForcedLogout(r, u, done, last)
        PROVE  AccountTypes' /\ TokenTypes'
    <3>1. Revoke(LiveRows(u), done, last) /\ LiveRows(u) \in SUBSET Tokens
      BY <2>3 DEF ForcedLogout, user_disable, user_reset_password, user_force_logout,
         _force_logout, LiveRows
    <3>2. spared' \subseteq Users /\ AccountTypes'
      BY <1>0, <2>3 DEF ForcedLogout, user_disable, user_reset_password, user_force_logout,
         _force_logout, TokenTypes, AccountTypes
    <3>3. QED
      BY <1>0, <3>1, <3>2, RevokeTypes
  <2>4. QED
    BY <2>1, <2>2, <2>3 DEF AccountStep
<1>2. MemberTypes' /\ GrantTypes'
  BY <1>0 DEF MemberTypes, GrantTypes, AccountStep, ForcedLogout, user_disable, user_enable,
     AdminDisable, user_reset_password, user_force_logout, placeVars
<1>3. QED
  BY <1>1, <1>2 DEF TypeOK, AccountTypes, TokenTypes, MemberTypes, GrantTypes

LEMMA TokenTypesStep == ASSUME TypeOK, TokenStep PROVE TypeOK'
<1>0. TokenTypes /\ MemberTypes /\ GrantTypes /\ AccountTypes
  BY TypeParts
<1>1. ASSUME NEW u \in Users, NEW t \in Tokens, NEW recorded \in BOOLEAN,
             register(u, t, recorded) \/ login(u, t, recorded)
      PROVE  TypeOK'
  <2>1. Mint(t, u, t, recorded)
    BY <1>1 DEF register, login
  <2>2. TokenTypes' /\ AccountTypes'
    BY <1>0, <1>1, <2>1, MintTypes DEF register, login, TokenTypes, AccountTypes
  <2>3. MemberTypes' /\ GrantTypes'
    BY <1>0, <1>1 DEF register, login, placeVars, MemberTypes, GrantTypes
  <2>4. QED
    BY <2>2, <2>3 DEF TypeOK, AccountTypes, TokenTypes, MemberTypes, GrantTypes
<1>2. ASSUME NEW old \in Tokens, NEW t \in Tokens, NEW recorded \in BOOLEAN,
             refresh_token(old, t, recorded)
      PROVE  TypeOK'
  <2>1. holder[old] \in Users
    BY <1>2 DEF refresh_token, Usable, TypeOK
  <2>2. /\ holder' = [holder EXCEPT ![t] = holder[old]]
        /\ session' \in [Tokens -> {"none", "live", "revoked"}]
        /\ unrecorded' \subseteq Users
        /\ cut' \subseteq Tokens
        /\ root' = [root EXCEPT ![t] = root[old]]
    BY <1>2, <2>1 DEF refresh_token, Mint, TypeOK
  <2>3. QED
    BY <1>2, <2>1, <2>2 DEF refresh_token, placeVars, TypeOK
<1>3. ASSUME NEW t \in Tokens, TokenExpires(t) PROVE TypeOK'
  BY <1>3 DEF TokenExpires, placeVars, TypeOK
<1>4. ASSUME NEW t \in Tokens, NEW done, NEW last,
             logout(t, done, last) \/ \E u \in Users : session_revoke(u, t, done, last)
      PROVE  TypeOK'
  <2>1. Revoke({t}, done, last) /\ UNCHANGED <<account, spared, placeVars>>
    BY <1>4 DEF logout, session_revoke
  <2>2. TokenTypes'
    BY <1>0, <2>1, RevokeTypes DEF TokenTypes
  <2>3. QED
    BY <1>0, <2>1, <2>2 DEF placeVars, TypeOK, TokenTypes
<1>5. ASSUME NEW u \in Users, NEW done, NEW last, session_revoke_all(u, done, last) PROVE TypeOK'
  <2>1. Revoke(LiveRows(u), done, last) /\ LiveRows(u) \in SUBSET Tokens /\ spared' \subseteq Users
    BY <1>5, <1>0 DEF session_revoke_all, _force_logout, LiveRows, TokenTypes
  <2>2. TokenTypes'
    BY <1>0, <2>1, RevokeTypes
  <2>3. QED
    BY <1>0, <1>5, <2>2 DEF session_revoke_all, placeVars, TypeOK, TokenTypes
<1>6. QED
  BY <1>1, <1>2, <1>3, <1>4, <1>5 DEF TokenStep

LEMMA DeleteTypes == ASSUME TypeOK, DeleteStep PROVE TypeOK'
BY DEF TypeOK, DeleteStep, user_detail

LEMMA TypeStep == TypeOK /\ [Next]_vars => TypeOK'
<1> SUFFICES ASSUME TypeOK, [Next]_vars PROVE TypeOK'
  OBVIOUS
<1>1. CASE Next
  BY <1>1, NextCases, PlaceTypes, AccountTypesStep, TokenTypesStep, DeleteTypes
<1>2. CASE UNCHANGED vars
  BY <1>2 DEF vars, tokenVars, placeVars, TypeOK
<1>3. QED
  BY <1>1, <1>2

LEMMA TypeInit == Init => TypeOK
BY TokensAssumption DEF Init, TypeOK, Tokens

(* Every account, token, membership and grant row keeps the shape its      *)
(* model declares, whatever the order of the requests.                     *)
THEOREM TypeCorrect == Spec => []TypeOK
BY TypeInit, TypeStep, PTL DEF Spec
-----------------------------------------------------------------------------
(* What makes OneTokenPerLogin and DisabledIsLoggedOut inductive: tokens   *)
(* are minted in order, descend from a token minted before, and have a     *)
(* SessionInfo row unless _record_session failed or the account is gone.   *)
MintedInOrder ==
    \A s, t \in Tokens : holder[t] # None /\ s < t => holder[s] # None
RootsBefore == \A t \in Tokens : holder[t] # None => root[t] \in 1 .. t
HoldersExist == \A t \in Tokens : holder[t] \in Users => account[holder[t]] # "none"
RowsRecorded ==
    \A t \in Tokens :
        holder[t] \in Users /\ Exists(holder[t]) /\ holder[t] \notin unrecorded
          => session[t] # "none"

SessionInv ==
    /\ RevokedNeverUsable
    /\ OneTokenPerLogin
    /\ MintedInOrder
    /\ RootsBefore
    /\ HoldersExist
    /\ RowsRecorded
    /\ DisabledIsLoggedOut

LEMMA SessionInit == Init => SessionInv
BY NoneAssumption DEF Init, SessionInv, RevokedNeverUsable, OneTokenPerLogin,
   MintedInOrder, RootsBefore, HoldersExist, RowsRecorded, DisabledIsLoggedOut, Usable

(* A step that leaves the token tables and the accounts alone. *)
LEMMA SessionFrame ==
    ASSUME SessionInv, UNCHANGED <<account, tokenVars>> PROVE SessionInv'
BY DEF SessionInv, tokenVars, RevokedNeverUsable, OneTokenPerLogin, MintedInOrder,
   RootsBefore, HoldersExist, RowsRecorded, DisabledIsLoggedOut, Usable, Exists

(* A revocation, as far as it got.  An account it leaves disabled and not  *)
(* spared was so before, or all its live rows have been dealt with now.    *)
LEMMA SessionRevoke ==
    ASSUME TypeOK, SessionInv, NEW ts \in SUBSET Tokens, NEW done, NEW last,
           Revoke(ts, done, last),
           \A v \in Users : account'[v] = account[v] \/ (Exists(v) /\ account'[v] = "disabled"),
           \A v \in Users : account'[v] = "disabled" /\ v \notin spared'
                            => (account[v] = "disabled" /\ v \notin spared) \/ done = LiveRows(v)
    PROVE  SessionInv'
<1>0. /\ done \subseteq ts /\ last \subseteq ts
      /\ invalid' = invalid \cup done /\ cut' = (cut \cup last) \ invalid'
      /\ UNCHANGED <<holder, root, unrecorded>>
      /\ \A t \in Tokens : session'[t] = IF t \in done \cup last /\ session[t] = "live"
                                         THEN "revoked" ELSE session[t]
  BY DEF Revoke, Progress
<1>1. RevokedNeverUsable'
  BY <1>0 DEF SessionInv, RevokedNeverUsable
<1>2. OneTokenPerLogin'
  BY <1>0 DEF SessionInv, OneTokenPerLogin, Usable
<1>3. MintedInOrder' /\ RootsBefore'
  BY <1>0 DEF SessionInv, MintedInOrder, RootsBefore
<1>4. HoldersExist'
  BY <1>0 DEF SessionInv, HoldersExist, Exists
<1>5. RowsRecorded'
  <2> SUFFICES ASSUME NEW t \in Tokens, holder'[t] \in Users, Exists(holder[t])',
                      holder'[t] \notin unrecorded'
               PROVE  session'[t] # "none"
    BY DEF RowsRecorded
  <2>1. Exists(holder[t])
    BY <1>0 DEF Exists
  <2>2. QED
    BY <1>0, <2>1 DEF SessionInv, RowsRecorded
<1>6. DisabledIsLoggedOut'
  <2> SUFFICES ASSUME NEW v \in Users, NEW x \in Tokens, account'[v] = "disabled",
                      holder'[x] = v, v \notin unrecorded', v \notin spared', x \notin cut'
               PROVE  x \in invalid'
    BY DEF DisabledIsLoggedOut
  <2>1. holder[x] = v /\ v \notin unrecorded /\ (x \in cut => x \in invalid')
    BY <1>0
  <2>2. CASE account[v] = "disabled" /\ v \notin spared
    BY <1>0, <2>1, <2>2 DEF SessionInv, DisabledIsLoggedOut
  <2>3. CASE done = LiveRows(v)
    <3>1. Exists(v)
      BY DEF Exists
    <3>2. session[x] # "none"
      BY <2>1, <3>1 DEF SessionInv, RowsRecorded
    <3>3. session[x] = "live" => x \in done
      BY <2>1, <2>3 DEF LiveRows
    <3>4. session[x] = "revoked" => x \in invalid \/ x \in cut
      BY DEF SessionInv, RevokedNeverUsable
    <3>5. QED
      BY <1>0, <2>1, <3>2, <3>3, <3>4 DEF TypeOK
  <2>4. QED
    BY <2>2, <2>3
<1>7. QED
  BY <1>1, <1>2, <1>3, <1>4, <1>5, <1>6 DEF SessionInv

(* A login: the fresh token is the root of its own line. *)
LEMMA SessionLogin ==
    ASSUME TypeOK, SessionInv, NEW u \in Users, NEW t \in Tokens,
           NEW recorded \in BOOLEAN, register(u, t, recorded) \/ login(u, t, recorded)
    PROVE  SessionInv'
<1>1. Mint(t, u, t, recorded) /\ UNCHANGED <<invalid, cut, spared>>
  BY DEF register, login
<1>2. \A s \in Tokens : holder[s] # None => s < t
  BY <1>1 DEF SessionInv, MintedInOrder, Mint, Tokens
<1>3. account'[u] = "active" /\ \A v \in Users : v # u => account'[v] = account[v]
  BY DEF register, login, TypeOK
<1>4. RevokedNeverUsable'
  BY <1>1 DEF SessionInv, RevokedNeverUsable, Mint, TypeOK
<1>5. MintedInOrder' /\ RootsBefore'
  BY <1>1, <1>2, NoneAssumption DEF SessionInv, MintedInOrder, RootsBefore, Mint, TypeOK, Tokens
<1>6. OneTokenPerLogin'
  <2> SUFFICES ASSUME NEW x \in Tokens, NEW y \in Tokens, Usable(x)', Usable(y)',
                      root'[x] = root'[y]
               PROVE  x = y
    BY DEF OneTokenPerLogin
  <2>1. CASE x # t /\ y # t
    BY <1>1, <2>1 DEF SessionInv, OneTokenPerLogin, Mint, TypeOK, Usable
  <2>2. ASSUME NEW z \in Tokens, z # t, Usable(z)' PROVE root'[z] # t
    BY <1>1, <1>2, <2>2 DEF SessionInv, RootsBefore, Mint, TypeOK, Usable, Tokens
  <2>3. root'[t] = t
    BY <1>1 DEF Mint, TypeOK
  <2>4. QED
    BY <2>1, <2>2, <2>3
<1>7. HoldersExist'
  BY <1>1, <1>3 DEF SessionInv, HoldersExist, Mint, TypeOK
<1>8. RowsRecorded'
  <2> SUFFICES ASSUME NEW x \in Tokens, holder'[x] \in Users, Exists(holder[x])',
                      holder'[x] \notin unrecorded'
               PROVE  session'[x] # "none"
    BY DEF RowsRecorded
  <2>1. CASE x = t
    BY <1>1, <2>1 DEF Mint, TypeOK
  <2>2. CASE x # t
    <3>1. holder'[x] = holder[x] /\ session'[x] = session[x] /\ holder[x] \notin unrecorded
      BY <1>1, <2>2 DEF Mint, TypeOK
    <3>2. Exists(holder[x])
      BY <1>3, <3>1 DEF register, login, Exists, SessionInv, HoldersExist, TypeOK
    <3>3. QED
      BY <3>1, <3>2 DEF SessionInv, RowsRecorded
  <2>3. QED
    BY <2>1, <2>2
<1>9. DisabledIsLoggedOut'
  BY <1>1, <1>3 DEF SessionInv, DisabledIsLoggedOut, Mint, TypeOK
<1>10. QED
  BY <1>4, <1>5, <1>6, <1>7, <1>8, <1>9 DEF SessionInv

(* A rotation: the fresh token takes the place of the old one. *)
LEMMA SessionRefresh ==
    ASSUME TypeOK, SessionInv, NEW old \in Tokens, NEW t \in Tokens,
           NEW recorded \in BOOLEAN, refresh_token(old, t, recorded)
    PROVE  SessionInv'
<1>1. /\ Mint(t, holder[old], root[old], recorded)
      /\ invalid' = invalid \cup {old} /\ account' = account
      /\ holder[old] \in Users /\ old # t /\ Usable(old)
      /\ cut' = (IF old \in cut THEN (cut \ {old}) \cup {t} ELSE cut) /\ spared' = spared
  BY DEF refresh_token, Mint, Usable, TypeOK
<1>2. \A s \in Tokens : holder[s] # None => s < t
  BY <1>1 DEF SessionInv, MintedInOrder, Mint, Tokens
<1>3. RevokedNeverUsable'
  BY <1>1 DEF SessionInv, RevokedNeverUsable, Mint, TypeOK
<1>4. MintedInOrder'
  BY <1>1, <1>2, NoneAssumption DEF SessionInv, MintedInOrder, Mint, TypeOK, Tokens
<1>5. RootsBefore'
  BY <1>1, <1>2 DEF SessionInv, RootsBefore, Mint, TypeOK, Tokens, Usable
<1>6. OneTokenPerLogin'
  <2> SUFFICES ASSUME NEW x \in Tokens, NEW y \in Tokens, Usable(x)', Usable(y)',
                      root'[x] = root'[y]
               PROVE  x = y
    BY DEF OneTokenPerLogin
  <2>1. CASE x # t /\ y # t
    BY <1>1, <2>1 DEF SessionInv, OneTokenPerLogin, Mint, TypeOK, Usable
  <2>2. ASSUME NEW z \in Tokens, z # t, Usable(z)' PROVE root'[z] # root[old]
    BY <1>1, <2>2 DEF SessionInv, OneTokenPerLogin, Mint, TypeOK, Usable
  <2>3. root'[t] = root[old]
    BY <1>1 DEF Mint, TypeOK
  <2>4. QED
    BY <2>1, <2>2, <2>3
<1>7. HoldersExist'
  BY <1>1 DEF SessionInv, HoldersExist, Mint, TypeOK
<1>8. RowsRecorded'
  BY <1>1 DEF SessionInv, RowsRecorded, Mint, TypeOK, Exists
<1>9. DisabledIsLoggedOut'
  BY <1>1 DEF SessionInv, DisabledIsLoggedOut, Mint, TypeOK, Usable
<1>10. QED
  BY <1>3, <1>4, <1>5, <1>6, <1>7, <1>8, <1>9 DEF SessionInv

LEMMA SessionToken == ASSUME TypeOK, SessionInv, TokenStep PROVE SessionInv'
<1>1. ASSUME NEW t \in Tokens, TokenExpires(t) PROVE SessionInv'
  BY <1>1 DEF TokenExpires, SessionInv, RevokedNeverUsable, OneTokenPerLogin, Usable,
     MintedInOrder, RootsBefore, HoldersExist, RowsRecorded, DisabledIsLoggedOut, Exists
<1>2. ASSUME NEW t \in Tokens, NEW done, NEW last,
             logout(t, done, last) \/ \E u \in Users : session_revoke(u, t, done, last)
      PROVE  SessionInv'
  <2>1. Revoke({t}, done, last) /\ UNCHANGED <<account, spared>>
    BY <1>2 DEF logout, session_revoke
  <2>2. QED
    BY <2>1, SessionRevoke
<1>3. ASSUME NEW u \in Users, NEW done, NEW last, session_revoke_all(u, done, last)
      PROVE  SessionInv'
  <2>1. /\ Revoke(LiveRows(u), done, last) /\ LiveRows(u) \in SUBSET Tokens
        /\ UNCHANGED account /\ account[u] = "active"
        /\ spared' = IF done = LiveRows(u) THEN spared \ {u} ELSE spared
    BY <1>3 DEF session_revoke_all, _force_logout, LiveRows
  <2>2. QED
    BY <2>1, SessionRevoke
<1>4. QED
  BY <1>1, <1>2, <1>3, SessionLogin, SessionRefresh DEF TokenStep

LEMMA SessionAccount == ASSUME TypeOK, SessionInv, AccountStep PROVE SessionInv'
<1>1. ASSUME NEW u \in Users, Exists(u), NEW word \in {"active", "disabled"},
             account' = [account EXCEPT ![u] = word],
             UNCHANGED <<holder, invalid, session, root, unrecorded, cut>>,
             \A v \in Users : v # u => (v \in spared' <=> v \in spared),
             word = "disabled" => u \in spared'
      PROVE  SessionInv'
  <2>1. RevokedNeverUsable' /\ OneTokenPerLogin' /\ MintedInOrder' /\ RootsBefore'
    BY <1>1 DEF SessionInv, RevokedNeverUsable, OneTokenPerLogin, Usable, MintedInOrder, RootsBefore
  <2>2. HoldersExist' /\ RowsRecorded' /\ DisabledIsLoggedOut'
    BY <1>1 DEF SessionInv, TypeOK, HoldersExist, RowsRecorded, DisabledIsLoggedOut, Exists
  <2>3. QED
    BY <2>1, <2>2 DEF SessionInv
<1>2. ASSUME NEW r \in Requesters, NEW u \in Users, user_enable(r, u) PROVE SessionInv'
  BY <1>1, <1>2 DEF user_enable, users_in_scope
<1>3. ASSUME NEW u \in Users, AdminDisable(u) PROVE SessionInv'
  BY <1>1, <1>3 DEF AdminDisable, Exists
<1>4. ASSUME NEW r \in Requesters, NEW u \in Users, NEW done, NEW last,
             ForcedLogout(r, u, done, last)
      PROVE  SessionInv'
  <2>1. Revoke(LiveRows(u), done, last) /\ LiveRows(u) \in SUBSET Tokens /\ Exists(u)
    BY <1>4 DEF ForcedLogout, user_disable, user_reset_password, user_force_logout,
       _force_logout, LiveRows, users_in_scope
  <2>2. \A v \in Users : account'[v] = account[v] \/ (Exists(v) /\ account'[v] = "disabled")
    BY <1>4, <2>1 DEF ForcedLogout, user_disable, user_reset_password, user_force_logout, TypeOK
  <2>3. \A v \in Users : account'[v] = "disabled" /\ v \notin spared'
                         => (account[v] = "disabled" /\ v \notin spared) \/ done = LiveRows(v)
    BY <1>4 DEF ForcedLogout, user_disable, user_reset_password, user_force_logout,
       _force_logout, TypeOK
  <2>4. QED
    BY <2>1, <2>2, <2>3, SessionRevoke
<1>5. QED
  BY <1>2, <1>3, <1>4 DEF AccountStep

LEMMA SessionDelete == ASSUME TypeOK, SessionInv, DeleteStep PROVE SessionInv'
<1>1. PICK r \in Requesters, u \in Users : user_detail(r, u)
  BY DEF DeleteStep
<1>2. RevokedNeverUsable' /\ OneTokenPerLogin' /\ MintedInOrder' /\ RootsBefore'
  BY <1>1 DEF user_detail, SessionInv, TypeOK, RevokedNeverUsable, OneTokenPerLogin,
     Usable, MintedInOrder, RootsBefore
<1>3. HoldersExist' /\ RowsRecorded' /\ DisabledIsLoggedOut'
  BY <1>1 DEF user_detail, SessionInv, TypeOK, HoldersExist, RowsRecorded,
     DisabledIsLoggedOut, Exists
<1>4. QED
  BY <1>2, <1>3 DEF SessionInv

LEMMA SessionStep == TypeOK /\ SessionInv /\ [Next]_vars => SessionInv'
<1> SUFFICES ASSUME TypeOK, SessionInv, [Next]_vars PROVE SessionInv'
  OBVIOUS
<1>1. ASSUME PlaceStep PROVE UNCHANGED <<account, tokenVars>>
  BY <1>1 DEF PlaceStep, user_remove_apartment, user_apartment_permissions,
     user_assign_apartment, _create_apartment, apartment_select, GrantAccess,
     expire_temporary_access, Tick
<1>2. CASE Next
  BY <1>1, <1>2, NextCases, SessionToken, SessionAccount, SessionDelete, SessionFrame
<1>3. CASE UNCHANGED vars
  BY <1>3, SessionFrame DEF vars
<1>4. QED
  BY <1>2, <1>3

LEMMA SessionsHold == Spec => [](TypeOK /\ SessionInv)
<1>1. TypeOK /\ SessionInv /\ [Next]_vars => (TypeOK /\ SessionInv)'
  BY TypeStep, SessionStep
<1>2. QED
  BY <1>1, TypeInit, SessionInit, PTL DEF Spec

(* A refresh token of a session shown as revoked is refused for good, or   *)
(* its revocation ended between its two writes and was not repeated, for   *)
(* any number of users, tokens and interrupted requests.                   *)
THEOREM RevokedStaysOut == Spec => []RevokedNeverUsable
<1>1. SessionInv => RevokedNeverUsable
  BY DEF SessionInv
<1>2. QED
  BY <1>1, SessionsHold, PTL

(* Rotation never leaves two accepted tokens of one login. *)
THEOREM RotationNeverForks == Spec => []OneTokenPerLogin
<1>1. SessionInv => OneTokenPerLogin
  BY DEF SessionInv
<1>2. QED
  BY <1>1, SessionsHold, PTL

(* Once a forced logout of a disabled account has finished, no refresh     *)
(* token of it is accepted but one of an unrecorded session or of a        *)
(* revocation interrupted before, however the requests were cut short.     *)
THEOREM DisablingLogsOut == Spec => []DisabledIsLoggedOut
<1>1. SessionInv => DisabledIsLoggedOut
  BY DEF SessionInv
<1>2. QED
  BY <1>1, SessionsHold, PTL
-----------------------------------------------------------------------------
(* Accounts implements LoginSessions.  Every request hands out one token   *)
(* or leaves a subset of the accepted ones; by OneTokenPerLogin the subset *)
(* is what ending some logins leaves.                                      *)

(* Only a token that was handed out is ever blacklisted. *)
InvalidMinted == \A t \in invalid : holder[t] # None

LEMMA InvalidStep == TypeOK /\ InvalidMinted /\ [Next]_vars => InvalidMinted'
<1> SUFFICES ASSUME TypeOK, InvalidMinted, [Next]_vars PROVE InvalidMinted'
  OBVIOUS
<1>1. ASSUME UNCHANGED <<holder, invalid>> PROVE InvalidMinted'
  BY <1>1 DEF InvalidMinted
<1>2. ASSUME NEW ts, NEW done, NEW last, Revoke(ts, done, last), \A t \in ts : holder[t] # None
      PROVE  InvalidMinted'
  BY <1>2 DEF Revoke, Progress, InvalidMinted
<1>3. ASSUME NEW u \in Users, NEW done, NEW last, Revoke(LiveRows(u), done, last)
      PROVE  InvalidMinted'
  <2>1. \A t \in LiveRows(u) : holder[t] # None
    BY NoneAssumption DEF LiveRows
  <2>2. QED
    BY <1>2, <1>3, <2>1
<1>4. ASSUME NEW t \in Tokens, NEW u \in Users, NEW from, NEW recorded, Mint(t, u, from, recorded),
             \A s \in invalid' : s \in invalid \/ Usable(s)
      PROVE  InvalidMinted'
  BY <1>4, NoneAssumption DEF Mint, InvalidMinted, TypeOK, Usable
<1>5. CASE TokenStep
  <2>1. ASSUME NEW u \in Users, NEW t \in Tokens, NEW recorded \in BOOLEAN,
               register(u, t, recorded) \/ login(u, t, recorded)
        PROVE  InvalidMinted'
    BY <1>4, <2>1 DEF register, login
  <2>2. ASSUME NEW old \in Tokens, NEW t \in Tokens, NEW recorded \in BOOLEAN,
               refresh_token(old, t, recorded)
        PROVE  InvalidMinted'
    <3>1. holder[old] \in Users
      BY <2>2 DEF refresh_token, Usable, TypeOK
    <3>2. QED
      BY <1>4, <2>2, <3>1 DEF refresh_token
  <2>3. ASSUME NEW t \in Tokens, TokenExpires(t) PROVE InvalidMinted'
    BY <2>3 DEF TokenExpires, Usable, InvalidMinted
  <2>4. ASSUME NEW t \in Tokens, NEW done, NEW last,
               logout(t, done, last) \/ \E u \in Users : session_revoke(u, t, done, last)
        PROVE  InvalidMinted'
    <3>1. Revoke({t}, done, last) /\ holder[t] # None
      BY <2>4, NoneAssumption DEF logout, session_revoke, Usable
    <3>2. QED
      BY <1>2, <3>1
  <2>5. ASSUME NEW u \in Users, NEW done, NEW last, session_revoke_all(u, done, last)
        PROVE  InvalidMinted'
    BY <1>3, <2>5 DEF session_revoke_all, _force_logout
  <2>6. QED
    BY <1>5, <2>1, <2>2, <2>3, <2>4, <2>5 DEF TokenStep
<1>6. CASE AccountStep
  BY <1>1, <1>3, <1>6 DEF AccountStep, ForcedLogout, user_disable, user_enable, AdminDisable,
     user_reset_password, user_force_logout, _force_logout
<1>7. CASE DeleteStep
  BY <1>1, <1>7 DEF DeleteStep, user_detail
<1>8. CASE PlaceStep
  BY <1>1, <1>8 DEF PlaceStep, user_remove_apartment, user_apartment_permissions,
     user_assign_apartment, _create_apartment, apartment_select, GrantAccess,
     expire_temporary_access, Tick, tokenVars
<1>9. CASE UNCHANGED vars
  BY <1>1, <1>9 DEF vars, tokenVars
<1>10. QED
  BY <1>5, <1>6, <1>7, <1>8, <1>9, NextCases

LoginInv == TypeOK /\ SessionInv /\ InvalidMinted

(* refresh_token would exchange t. *)
Accepts(t) == Usable(t) /\ Exists(holder[t])

LEMMA AcceptedIs == \A l : AcceptedOf(l) = {t \in Tokens : Accepts(t) /\ root[t] = l}
BY DEF AcceptedOf, Accepts

LEMMA AtMostOne ==
    ASSUME LoginInv, NEW l, NEW s \in AcceptedOf(l), NEW t \in AcceptedOf(l)
    PROVE  s = t
BY DEF LoginInv, SessionInv, OneTokenPerLogin, AcceptedOf

(* A request that hands out no token and accepts no more than before. *)
LEMMA FewerIsEnd ==
    ASSUME LoginInv, UNCHANGED <<holder, root>>, \A t \in Tokens : Accepts(t)' => Accepts(t)
    PROVE  \E ls \in SUBSET Tokens : Logins!End(ls)
<1> DEFINE ls == {l \in Tokens : AcceptedOf(l)' = {}}
<1>1. ASSUME NEW l \in Tokens
      PROVE  AcceptedOf(l)' = IF l \in ls THEN {} ELSE AcceptedOf(l)
  <2>1. AcceptedOf(l)' \subseteq AcceptedOf(l)
    BY AcceptedIs DEF AcceptedOf, Accepts
  <2>2. \A s, t \in AcceptedOf(l) : s = t
    BY AtMostOne
  <2>3. QED
    BY <2>1, <2>2
<1>2. {t \in Tokens : holder'[t] # None} = {t \in Tokens : holder[t] # None}
  OBVIOUS
<1>3. [l \in Tokens |-> AcceptedOf(l)']
        = [l \in Tokens |-> IF l \in ls THEN {} ELSE [k \in Tokens |-> AcceptedOf(k)][l]]
  BY <1>1
<1>4. Logins!End(ls)
  BY <1>2, <1>3 DEF Logins!End
<1>5. QED
  BY <1>4

(* A request that mints t for login l, whose other tokens are invalid then. *)
LEMMA MintIsHandOut ==
    ASSUME LoginInv, NEW t \in Tokens, NEW u \in Users, NEW l \in Tokens, NEW recorded,
           Mint(t, u, l, recorded), Exists(u)',
           \A v \in Users : account[v] # "none" => (Exists(v)' <=> Exists(v)),
           invalid \subseteq invalid',
           \A s \in invalid' \ invalid : holder[s] # None /\ root[s] = l,
           \A s \in Tokens : holder[s] # None /\ root[s] = l => s \in invalid'
    PROVE  Logins!HandOut(l, t)
<1>1. /\ holder[t] = None /\ holder'[t] = u /\ root'[t] = l /\ u # None
      /\ \A s \in Tokens : s # t => holder'[s] = holder[s] /\ root'[s] = root[s]
  BY NoneAssumption DEF Mint, LoginInv, TypeOK
<1>2. t \notin invalid'
  BY <1>1 DEF LoginInv, InvalidMinted
<1>3. {s \in Tokens : holder'[s] # None} = {s \in Tokens : holder[s] # None} \cup {t}
  BY <1>1
<1>4. Accepts(t)'
  BY <1>1, <1>2 DEF Accepts, Usable, Exists
<1>5. ASSUME NEW s \in Tokens, s # t, root[s] # l PROVE Accepts(s)' <=> Accepts(s)
  <2>1. s \in invalid' <=> s \in invalid
    BY <1>5
  <2>2. holder[s] # None => (Exists(holder[s])' <=> Exists(holder[s]))
    BY <1>1, <1>5 DEF LoginInv, SessionInv, HoldersExist, TypeOK, Exists
  <2>3. QED
    BY <1>1, <1>5, <2>1, <2>2 DEF Accepts, Usable, Exists
<1>6. ASSUME NEW s \in Tokens, s # t, root[s] = l PROVE ~Accepts(s)'
  BY <1>1, <1>6 DEF Accepts, Usable
<1>7. ~Accepts(t)
  BY <1>1 DEF Accepts, Usable
<1>8. ASSUME NEW k \in Tokens
      PROVE  AcceptedOf(k)' = IF k = l THEN {t} ELSE AcceptedOf(k)
  <2>1. AcceptedOf(k)' = {s \in Tokens : Accepts(s)' /\ root'[s] = k}
    BY DEF AcceptedOf, Accepts
  <2>2. AcceptedOf(k) = {s \in Tokens : Accepts(s) /\ root[s] = k}
    BY AcceptedIs
  <2>3. CASE k = l
    BY <1>1, <1>4, <1>6, <2>1, <2>3
  <2>4. CASE k # l
    BY <1>1, <1>5, <1>7, <2>1, <2>2, <2>4
  <2>5. QED
    BY <2>3, <2>4
<1>9. [k \in Tokens |-> AcceptedOf(k)'] = [[k \in Tokens |-> AcceptedOf(k)] EXCEPT ![l] = {t}]
  BY <1>8
<1>10. QED
  BY <1>1, <1>3, <1>9 DEF Logins!HandOut

LEMMA LoginBegins ==
    ASSUME LoginInv, NEW u \in Users, NEW t \in Tokens, NEW recorded \in BOOLEAN,
           register(u, t, recorded) \/ login(u, t, recorded)
    PROVE  Logins!Begin(t)
<1>1. Mint(t, u, t, recorded) /\ invalid' = invalid
  BY DEF register, login
<1>2. Exists(u)' /\ \A v \in Users : account[v] # "none" => (Exists(v)' <=> Exists(v))
  BY DEF register, login, Exists, LoginInv, TypeOK
<1>3. \A s \in Tokens : holder[s] # None => root[s] # t
  <2> SUFFICES ASSUME NEW s \in Tokens, holder[s] # None, root[s] = t PROVE FALSE
    OBVIOUS
  <2>1. holder[t] = None
    BY <1>1 DEF Mint
  <2>2. t \in 1 .. s
    BY DEF LoginInv, SessionInv, RootsBefore
  <2>3. s = t \/ t < s
    BY <2>2, TokensAssumption DEF Tokens
  <2>4. QED
    BY <2>1, <2>3 DEF LoginInv, SessionInv, MintedInOrder
<1>4. Logins!HandOut(t, t)
  BY <1>1, <1>2, <1>3, MintIsHandOut
<1>5. QED
  BY <1>4 DEF Logins!Begin

LEMMA RefreshRotates ==
    ASSUME LoginInv, NEW old \in Tokens, NEW t \in Tokens, NEW recorded \in BOOLEAN,
           refresh_token(old, t, recorded)
    PROVE  \E l \in Tokens : Logins!Rotate(l, t)
<1>1. PICK l \in Tokens : l = root[old]
  BY TokensAssumption DEF refresh_token, Usable, LoginInv, SessionInv, RootsBefore, Tokens
<1>2. PICK u \in Users : u = holder[old]
  BY DEF refresh_token, Usable, LoginInv, TypeOK
<1>3. Mint(t, u, l, recorded) /\ invalid' = invalid \cup {old} /\ UNCHANGED account
  BY <1>1, <1>2 DEF refresh_token
<1>4. Exists(u)' /\ \A v \in Users : account[v] # "none" => (Exists(v)' <=> Exists(v))
  BY <1>2, <1>3 DEF refresh_token, Exists
<1>5. \A s \in Tokens : holder[s] # None /\ root[s] = l => s \in invalid'
  BY <1>1, <1>3 DEF refresh_token, Usable, LoginInv, SessionInv, OneTokenPerLogin
<1>6. \A s \in invalid' \ invalid : holder[s] # None /\ root[s] = l
  BY <1>1, <1>3 DEF refresh_token, Usable
<1>7. Logins!HandOut(l, t)
  BY <1>3, <1>4, <1>5, <1>6, MintIsHandOut
<1>8. old \in AcceptedOf(l)
  BY <1>1 DEF refresh_token, AcceptedOf
<1>9. QED
  BY <1>7, <1>8 DEF Logins!Rotate

LEMMA LoginStep == LoginInv /\ [Next]_vars => [Logins!Next]_(Logins!vars)
<1> SUFFICES ASSUME LoginInv, [Next]_vars PROVE [Logins!Next]_(Logins!vars)
  OBVIOUS
<1> DEFINE Ends == \E ls \in SUBSET Tokens : Logins!End(ls)
<1>0. ASSUME Ends PROVE Logins!Next
  BY <1>0 DEF Logins!Next
<1>1. ASSUME UNCHANGED <<holder, root>>, invalid \subseteq invalid',
             \A u \in Users : Exists(u)' => Exists(u)
      PROVE  Ends
  <2>1. \A t \in Tokens : Accepts(t)' => Accepts(t)
    BY <1>1 DEF Accepts, Usable, Exists, LoginInv, TypeOK
  <2>2. QED
    BY <1>1, <2>1, FewerIsEnd
<1>2. ASSUME NEW ts, NEW done, NEW last, Revoke(ts, done, last),
             \A u \in Users : Exists(u)' => Exists(u)
      PROVE  Ends
  BY <1>1, <1>2 DEF Revoke
<1>3. ASSUME UNCHANGED account PROVE \A u \in Users : Exists(u)' => Exists(u)
  BY <1>3 DEF Exists
<1>4. CASE TokenStep
  <2>1. ASSUME NEW u \in Users, NEW t \in Tokens, NEW recorded \in BOOLEAN,
               register(u, t, recorded) \/ login(u, t, recorded)
        PROVE  Logins!Next
    BY <2>1, LoginBegins DEF Logins!Next
  <2>2. ASSUME NEW old \in Tokens, NEW t \in Tokens, NEW recorded \in BOOLEAN,
               refresh_token(old, t, recorded)
        PROVE  Logins!Next
    BY <2>2, RefreshRotates DEF Logins!Next
  <2>3. ASSUME NEW t \in Tokens, TokenExpires(t) PROVE Ends
    BY <1>1, <1>3, <2>3 DEF TokenExpires
  <2>4. ASSUME NEW t \in Tokens, NEW done, NEW last,
               logout(t, done, last) \/ \E u \in Users : session_revoke(u, t, done, last)
        PROVE  Ends
    BY <1>2, <1>3, <2>4 DEF logout, session_revoke
  <2>5. ASSUME NEW u \in Users, NEW done, NEW last, session_revoke_all(u, done, last) PROVE Ends
    BY <1>2, <1>3, <2>5 DEF session_revoke_all, _force_logout
  <2>6. QED
    BY <1>0, <1>4, <2>1, <2>2, <2>3, <2>4, <2>5 DEF TokenStep
<1>5. CASE AccountStep \/ DeleteStep
  <2>1. PICK u \in Users :
           /\ Exists(u)
           /\ \A v \in Users : v # u => account'[v] = account[v]
    BY <1>5 DEF AccountStep, DeleteStep, ForcedLogout, user_disable, user_enable, AdminDisable,
       user_reset_password, user_force_logout, user_detail, users_in_scope, LoginInv, TypeOK, Exists
  <2>2. \A v \in Users : Exists(v)' => Exists(v)
    BY <2>1 DEF Exists
  <2>3. UNCHANGED <<holder, root>> /\ invalid \subseteq invalid'
    BY <1>5 DEF AccountStep, DeleteStep, ForcedLogout, user_disable, user_enable, AdminDisable,
       user_reset_password, user_force_logout, user_detail, _force_logout, Revoke
  <2>4. QED
    BY <1>0, <1>1, <2>2, <2>3
<1>6. CASE PlaceStep \/ UNCHANGED vars
  <2>1. UNCHANGED <<account, tokenVars>>
    BY <1>6 DEF PlaceStep, user_remove_apartment, user_apartment_permissions,
       user_assign_apartment, _create_apartment, apartment_select, GrantAccess,
       expire_temporary_access, Tick, vars
  <2>2. QED
    BY <1>0, <1>1, <1>3, <2>1 DEF tokenVars
<1>7. QED
  BY <1>0, <1>4, <1>5, <1>6, NextCases

(* The token endpoints implement LoginSessions, for any number of users    *)
(* and tokens: no order of refreshes, logouts, revocations, disabled and   *)
(* deleted accounts gives a login a second accepted token or brings an     *)
(* ended login back, and a refresh changes the token of no other login.    *)
THEOREM LoginsRefined == Spec => LoginSpec
<1>1. Init => Logins!Init /\ InvalidMinted
  BY DEF Init, Logins!Init, InvalidMinted, AcceptedOf, Usable
<1>2. Spec => []LoginInv
  BY <1>1, SessionsHold, InvalidStep, PTL DEF Spec, LoginInv
<1>3. QED
  BY <1>1, <1>2, LoginStep, PTL DEF Spec, LoginSpec, Logins!Spec
-----------------------------------------------------------------------------
(* At most one membership of a user is the default one. *)
OneDefault ==
    \A u \in Users, a, b \in Apartments :
        member[u][a].default /\ member[u][b].default => a = b

LEMMA SaveOneDefault ==
    ASSUME TypeOK, OneDefault, NEW u \in Users, NEW a \in Apartments,
           NEW row \in Membership, SaveMembership(u, a, row)
    PROVE  OneDefault'
<1> DEFINE Row(b) == IF b = a THEN row
                     ELSE IF row.default THEN [member[u][b] EXCEPT !.default = FALSE]
                     ELSE member[u][b]
<1>1. /\ \A b \in Apartments : member'[u][b] = Row(b)
      /\ \A v \in Users : v # u => member'[v] = member[v]
  BY DEF SaveMembership, TypeOK
<1>2. ASSUME NEW b \in Apartments, b # a, row.default PROVE ~member'[u][b].default
  <2>1. member[u][b] \in Membership \/ member[u][b] = NoMembership
    BY DEF TypeOK
  <2>2. [member[u][b] EXCEPT !.default = FALSE].default = FALSE
    BY <2>1 DEF Membership, NoMembership
  <2>3. QED
    BY <1>1, <1>2, <2>2
<1>3. ASSUME NEW x \in Apartments, NEW y \in Apartments,
             member'[u][x].default, member'[u][y].default
      PROVE  x = y
  <2>1. CASE row.default
    BY <1>2, <1>3, <2>1
  <2>2. CASE ~row.default
    <3>1. x # a /\ y # a
      BY <1>1, <1>3, <2>2
    <3>2. member'[u][x] = member[u][x] /\ member'[u][y] = member[u][y]
      BY <1>1, <2>2, <3>1
    <3>3. QED
      BY <1>3, <3>2 DEF OneDefault
  <2>3. QED
    BY <2>1, <2>2
<1>4. QED
  BY <1>1, <1>3 DEF OneDefault

LEMMA DefaultStep == TypeOK /\ OneDefault /\ [Next]_vars => OneDefault'
<1> SUFFICES ASSUME TypeOK, OneDefault, [Next]_vars PROVE OneDefault'
  OBVIOUS
<1>1. ASSUME UNCHANGED member PROVE OneDefault'
  BY <1>1 DEF OneDefault
<1>2. ASSUME NEW u \in Users, NEW a \in Apartments, NEW r \in Requesters,
             user_remove_apartment(r, u, a)
      PROVE  OneDefault'
  BY <1>2 DEF user_remove_apartment, OneDefault, TypeOK, NoMembership
<1>3. ASSUME NEW u \in Users, NEW a \in Apartments, NEW r \in Requesters,
             NEW codes \in SUBSET ExtraCodes, user_apartment_permissions(r, u, a, codes)
      PROVE  OneDefault'
  <2>1. member[u][a] \in Membership
    BY <1>3 DEF TypeOK, user_apartment_permissions
  <2>2. [member[u][a] EXCEPT !.extra = codes].default = member[u][a].default
    BY <2>1 DEF Membership
  <2>3. \A v \in Users, b \in Apartments : member'[v][b].default = member[v][b].default
    BY <1>3, <2>2 DEF user_apartment_permissions, TypeOK
  <2>4. QED
    BY <2>3 DEF OneDefault
<1>4. ASSUME NEW r \in Requesters, NEW u \in Users, NEW a \in Apartments,
             NEW role \in Roles, NEW default \in BOOLEAN,
             user_assign_apartment(r, u, a, role, default)
      PROVE  OneDefault'
  <2>1. member[u][a].extra \in SUBSET ExtraCodes
    BY DEF TypeOK, Membership, NoMembership
  <2>2. [role |-> role, extra |-> member[u][a].extra, default |-> default] \in Membership
    BY <2>1 DEF Membership
  <2>3. QED
    BY <1>4, <2>2, SaveOneDefault DEF user_assign_apartment
<1>5. ASSUME NEW u \in Users, NEW a \in Apartments, apartment_select(u, a)
      PROVE  OneDefault'
  <2>1. member[u][a] \in Membership
    BY <1>5 DEF TypeOK, apartment_select
  <2>2. [member[u][a] EXCEPT !.default = TRUE] \in Membership
    BY <2>1 DEF Membership
  <2>3. QED
    BY <1>5, <2>2, SaveOneDefault DEF apartment_select
<1>6. CASE PlaceStep
  BY <1>1, <1>2, <1>3, <1>4, <1>5, <1>6 DEF PlaceStep, _create_apartment, GrantAccess,
     expire_temporary_access, Tick
<1>7. CASE AccountStep
  BY <1>1, <1>7 DEF AccountStep, ForcedLogout, user_disable, user_enable, AdminDisable,
     user_reset_password, user_force_logout, placeVars
<1>8. CASE TokenStep
  BY <1>1, <1>8 DEF TokenStep, register, login, refresh_token, logout, TokenExpires,
     session_revoke, session_revoke_all, placeVars
<1>9. CASE DeleteStep
  BY <1>9 DEF DeleteStep, user_detail, OneDefault, TypeOK, NoMembership
<1>10. CASE UNCHANGED vars
  BY <1>1, <1>10 DEF vars, placeVars
<1>11. QED
  BY <1>6, <1>7, <1>8, <1>9, <1>10, NextCases

(* Commands of a user with a default go to one apartment, whatever        *)
(* sequence of assignments, selections and removals led there.            *)
THEOREM DefaultDecides == Spec => []DefaultIsUnique
<1>1. Init => OneDefault
  BY DEF Init, OneDefault, NoMembership
<1>2. TypeOK /\ OneDefault => DefaultIsUnique
  <2> SUFFICES ASSUME OneDefault, NEW u \in Users, NEW a \in Apartments,
                      member[u][a].default
               PROVE  _registry_or_error(u) = {a}
    BY DEF DefaultIsUnique
  <2>1. member[u][a] # NoMembership
    BY DEF NoMembership
  <2>2. {b \in {c \in Apartments : member[u][c] # NoMembership} : member[u][b].default} = {a}
    BY <2>1 DEF OneDefault
  <2>3. QED
    BY <2>2 DEF _registry_or_error
<1>3. QED
  BY <1>1, <1>2, DefaultStep, TypeCorrect, PTL DEF Spec
-----------------------------------------------------------------------------
(* A building owner's request changes nobody's permissions in an apartment *)
(* of another building, short of deleting the account.                     *)
THEOREM OwnersStayInScope == Spec => OwnerStaysInScope
<1> DEFINE Keeps == \A r \in Owners, u \in Users, a \in Apartments :
                 /\ a \notin apartments_in_scope(r)
                 /\ account'[u] # "deleted"
                 /\ resolve_permissions(u, a)' # resolve_permissions(u, a)
               => ~ManagementStep(r)
<1>1. TypeOK /\ [Next]_vars => [Keeps]_vars
  <2> SUFFICES ASSUME TypeOK, NEW r \in Owners, NEW u \in Users, NEW a \in Apartments,
                      a \notin apartments_in_scope(r), account'[u] # "deleted",
                      ManagementStep(r)
               PROVE  resolve_permissions(u, a)' = resolve_permissions(u, a)
    OBVIOUS
  <2> DEFINE Same == /\ (member'[u][a] # NoMembership) = (member[u][a] # NoMembership)
                     /\ member'[u][a].role = member[u][a].role
                     /\ member'[u][a].extra = member[u][a].extra
                     /\ grant'[u] = grant[u] /\ now' = now
  <2>0. SUFFICES Same
    BY DEF resolve_permissions, permission_codes, GrantIsActive
  <2>1. ASSUME UNCHANGED <<member, grant, now>> PROVE Same
    BY <2>1
  <2>2. ASSUME NEW v \in Users, NEW b \in Apartments, b # a \/ v # u,
               NEW row \in Membership, SaveMembership(v, b, row), UNCHANGED <<grant, now>>
        PROVE  Same
    <3>1. member[u][a] \in Membership \/ member[u][a] = NoMembership
      BY DEF TypeOK
    <3>2. \/ member'[u][a] = member[u][a]
          \/ member'[u][a] = [member[u][a] EXCEPT !.default = FALSE]
      BY <2>2 DEF SaveMembership, TypeOK
    <3>3. ASSUME member[u][a] \in Membership
          PROVE  /\ [member[u][a] EXCEPT !.default = FALSE] # NoMembership
                 /\ [member[u][a] EXCEPT !.default = FALSE].role = member[u][a].role
                 /\ [member[u][a] EXCEPT !.default = FALSE].extra = member[u][a].extra
      BY <3>3, NoneAssumption DEF Membership, NoMembership
    <3>4. ASSUME member[u][a] = NoMembership
          PROVE  [member[u][a] EXCEPT !.default = FALSE] = NoMembership
      BY <3>4, NullRows
    <3>5. QED
      BY <2>2, <3>1, <3>2, <3>3, <3>4
  <2>3. ASSUME NEW v \in Users, NEW b \in Apartments, user_remove_apartment(r, v, b)
        PROVE  Same
    BY <2>3 DEF user_remove_apartment, TypeOK
  <2>4. ASSUME NEW v \in Users, NEW b \in Apartments, NEW codes \in SUBSET ExtraCodes,
               user_apartment_permissions(r, v, b, codes)
        PROVE  Same
    BY <2>4 DEF user_apartment_permissions, TypeOK
  <2>5. ASSUME NEW v \in Users, NEW b \in Apartments, NEW role \in Roles,
               NEW default \in BOOLEAN, user_assign_apartment(r, v, b, role, default)
        PROVE  Same
    <3>1. member[v][b].extra \in SUBSET ExtraCodes
      BY DEF TypeOK, Membership, NoMembership
    <3>2. [role |-> role, extra |-> member[v][b].extra, default |-> default] \in Membership
      BY <3>1 DEF Membership
    <3>3. QED
      BY <2>2, <2>5, <3>2 DEF user_assign_apartment
  <2>6. ASSUME NEW v \in Users, user_detail(r, v) PROVE Same
    BY <2>6 DEF user_detail, TypeOK
  <2>7. QED
    BY <2>1, <2>3, <2>4, <2>5, <2>6 DEF ManagementStep, user_disable, user_enable,
       user_reset_password, user_force_logout, _create_apartment, placeVars
<1>2. QED
  BY <1>1, TypeCorrect, PTL DEF Spec, OwnerStaysInScope
=============================================================================
