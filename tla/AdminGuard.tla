----------------------------- MODULE AdminGuard -----------------------------
(***************************************************************************)
(* Who may run an admin verb, and who is left to run one: the live-admin   *)
(* check with its per-process TTL cache (auth/admin_check.go), the         *)
(* last-admin and self guards (identity/service.go), and the mutations     *)
(* they protect (identity/handler.go over identity/keycloak).              *)
(*                                                                         *)
(* The realm is Keycloak's: each call to it is one step of its own, its    *)
(* answer may be lost after it took effect, and an operator may change it  *)
(* without going through this API.  Every user holds an unexpired token    *)
(* that still claims the admin role: the window the live check closes.     *)
(***************************************************************************)
EXTENDS Naturals, FiniteSets

CONSTANTS
    Users,          \* Keycloak subjects
    Reqs,           \* admin requests being served at the same time
    Ops,            \* the verbs each of them may call
    TTL,            \* AdminLiveCheckTTL, in ticks
    Latency,        \* the admin client's HTTP timeout, in ticks
    OutOfBand,      \* operators also change the realm directly
    None

Verbs == {"read", "grant", "revoke", "disable", "enable", "edit", "delete",
          "deleteInvitation", "deleteRole"}

ASSUME OpsAssumption == Ops \in [Reqs -> SUBSET Verbs]

ASSUME TimesAssumption == TTL \in Nat \ {0} /\ Latency \in Nat

ASSUME OutOfBandAssumption == OutOfBand \in BOOLEAN

ASSUME GuardNoneAssumption == None \notin Users

VARIABLES
    user,           \* the realm: whether each user exists, is enabled, has the admin role
    entry,          \* CachedAdminChecker.entries: the answer and the ticks it has left
    req,            \* what each request has read and decided so far
    since,          \* history: ticks since the user last had the admin role, capped
    out             \* history: this API has answered that it took the role from the user

guardVars == <<user, entry, req, since, out>>

MaxAge == TTL + Latency

UserRows == [here : BOOLEAN, admin : BOOLEAN, enabled : BOOLEAN]

Gone == [here |-> FALSE, admin |-> FALSE, enabled |-> FALSE]

NoEntry == [is |-> FALSE, left |-> 0]

NoReq == [pc |-> "idle", caller |-> None, op |-> "read", target |-> None, is |-> FALSE,
          wait |-> 0, enabled |-> FALSE, fresh |-> FALSE, out |-> FALSE]

GuardPCs == {"idle", "lookup", "store", "guard", "get", "apply", "invalidate"}

Requests == [pc : GuardPCs, caller : Users \cup {None}, op : Verbs, target : Users \cup {None},
             is : BOOLEAN, wait : 0 .. Latency, enabled : BOOLEAN, fresh : BOOLEAN, out : BOOLEAN]

GuardTypeOK ==
    /\ user \in [Users -> UserRows]
    /\ \A u \in Users : ~user[u].here => user[u] = Gone
    /\ entry \in [Users -> [is : BOOLEAN, left : 0 .. TTL]]
    /\ since \in [Users -> 0 .. MaxAge]
    /\ out \in [Users -> BOOLEAN]
    /\ req \in [Reqs -> Requests]

EnabledAdmins == {u \in Users : user[u].admin /\ user[u].enabled}

GuardInit ==
    /\ user \in [Users -> {[here |-> TRUE, admin |-> a, enabled |-> TRUE] : a \in BOOLEAN}]
    /\ EnabledAdmins # {}
    /\ entry = [u \in Users |-> NoEntry]
    /\ req = [r \in Reqs |-> NoReq]
    /\ since = [u \in Users |-> IF user[u].admin THEN 0 ELSE MaxAge]
    /\ out = [u \in Users |-> FALSE]

-----------------------------------------------------------------------------
Refuse(r) ==
    /\ req' = [req EXCEPT ![r] = NoReq]
    /\ UNCHANGED <<user, entry, since, out>>

GoTo(r, p) ==
    /\ req' = [req EXCEPT ![r].pc = p]
    /\ UNCHANGED <<user, entry, since, out>>

\* The verdict of RequireLiveAdmin: 403, or the handler runs.
Decide(r, u, is) ==
    req' = [req EXCEPT ![r] = IF is THEN [NoReq EXCEPT !.pc = "guard", !.caller = u] ELSE NoReq]

\* IsAdmin finds nothing fresh and asks upstream, holding no lock.
Miss(r, u) ==
    /\ entry[u].left = 0
    /\ req' = [req EXCEPT ![r] = [NoReq EXCEPT !.pc = "lookup", !.caller = u, !.out = out[u]]]
    /\ UNCHANGED <<user, entry, since, out>>

\* A request whose token claims the role reaches IsAdmin: a fresh entry answers.
Arrive(r, u) ==
    /\ req[r].pc = "idle"
    /\ \/ entry[u].left > 0 /\ Decide(r, u, entry[u].is) /\ UNCHANGED <<user, entry, since, out>>
       \/ Miss(r, u)

\* Mutant: an upstream failure falls back to the claim in the token.
LookupOrClaim(r) ==
    LET u == req[r].caller IN
    /\ req[r].pc = "lookup"
    /\ req' = [req EXCEPT ![r].pc = "store", ![r].is = user[u].here => user[u].admin]
    /\ UNCHANGED <<user, entry, since, out>>

\* adminCheckerFromProvider: the realm roles of the subject, enabled or not.
Lookup(r) ==
    LET u == req[r].caller IN
    /\ req[r].pc = "lookup"
    /\ \/ /\ user[u].here
          /\ req' = [req EXCEPT ![r].pc = "store", ![r].is = user[u].admin,
                               ![r].out = user[u].admin /\ @]
          /\ UNCHANGED <<user, entry, since, out>>
       \/ Refuse(r)            \* 404 or an unreachable Keycloak: fail closed, cache nothing

\* IsAdmin, under the write lock: the answer as it was read, for a whole TTL from now.
Store(r) ==
    /\ req[r].pc = "store"
    /\ entry' = [entry EXCEPT ![req[r].caller] = [is |-> req[r].is, left |-> TTL]]
    /\ Decide(r, req[r].caller, req[r].is)
    /\ UNCHANGED <<user, since, out>>

-----------------------------------------------------------------------------
\* The verbs nobody runs on himself.
NotOnSelf == {"revoke", "disable", "delete", "deleteInvitation"}

\* The verbs that enumerate the admins before they take one away.
Counting == {"revoke", "disable", "delete"}

\* Mutant: disabled admins count as admins left.
LastAdminOfAll(t) == user[t].admin /\ user[t].enabled /\ {u \in Users : user[u].admin} = {t}

\* assertNotLastAdmin: one enumeration of the role's members.
LastAdmin(t) == EnabledAdmins = {t}

\* The verb's own checks, up to the first mutating call to the provider.
Guard(r, op, t) ==
    LET u == req[r].caller
        self == op \in NotOnSelf /\ u = t
        last == op \in Counting /\ LastAdmin(t)
    IN  /\ req[r].pc = "guard"
        /\ op \in {"read", "deleteRole"} => t = u       \* no target
        /\ \/ op = "read" /\ Refuse(r)                          \* served
           \/ (self \/ last) /\ Refuse(r)
           \/ op \in Counting /\ Refuse(r)                      \* could not enumerate
           \/ /\ op # "read" /\ ~self /\ ~last
              /\ req' = [req EXCEPT ![r] =
                    [NoReq EXCEPT !.op = op, !.target = t, !.fresh = op \in Counting,
                       !.pc = IF op \in {"disable", "enable", "edit"} THEN "get" ELSE "apply"]]
              /\ UNCHANGED <<user, entry, since, out>>

\* Provider.UpdateUser, GET and merge: a patch without "enabled" copies the one it read.
GetUser(r) ==
    LET q == req[r] IN
    /\ q.pc = "get"
    /\ \/ /\ user[q.target].here
          /\ req' = [req EXCEPT ![r].pc = "apply",
                        ![r].enabled = IF q.op = "edit" THEN user[q.target].enabled
                                       ELSE q.op = "enable"]
          /\ UNCHANGED <<user, entry, since, out>>
       \/ Refuse(r)

\* What the call leaves of the target, in Keycloak.
Applied(q) ==
    CASE q.op = "grant"                         -> [user[q.target] EXCEPT !.admin = TRUE]
      [] q.op = "revoke"                        -> [user[q.target] EXCEPT !.admin = FALSE]
      [] q.op \in {"disable", "enable", "edit"} -> [user[q.target] EXCEPT !.enabled = q.enabled]
      [] q.op \in {"delete", "deleteInvitation"} -> Gone
      [] OTHER                                  -> user[q.target]

\* What the other requests counted on is no longer so.
Outrun == [q \in Reqs |-> [req[q] EXCEPT !.fresh = FALSE]]

\* A change of the realm, by whoever makes it.
RealmChanges(t, row) ==
    /\ user' = [user EXCEPT ![t] = row]
    /\ since' = [u \in Users |-> IF row.admin /\ u = t THEN 0 ELSE since[u]]
    /\ out' = [out EXCEPT ![t] = @ /\ ~row.admin]

\* The mutating call: done and answered, done with its answer lost, or not done.
Apply(r) ==
    LET q == req[r] IN
    /\ q.pc = "apply"
    /\ \/ /\ user[q.target].here \/ q.op = "deleteRole"
          /\ RealmChanges(q.target, Applied(q))
          /\ \E answered \in BOOLEAN :
                req' = [Outrun EXCEPT ![r] = 
                    IF answered THEN [NoReq EXCEPT !.pc = "invalidate", !.op = q.op, !.target = q.target]
                    ELSE NoReq]
          /\ UNCHANGED entry
       \/ Refuse(r)

\* The answer says the role is taken. It is not counted when a check that read it before
\* the change is still to store it: Invalidate cannot reach that one.
Answered(q) ==
    /\ q.op \in {"revoke", "delete", "deleteInvitation"}
    /\ ~user[q.target].admin
    /\ ~\E r \in Reqs : req[r].pc = "store" /\ req[r].caller = q.target /\ req[r].is

Answer(r) ==
    LET q == req[r] IN
    /\ q.pc = "invalidate"
    /\ UNCHANGED <<user, since>>
    /\ out' = [out EXCEPT ![q.target] = @ \/ Answered(q)]
    /\ req' = [req EXCEPT ![r] = NoReq]

\* Mutant: the handler answers without dropping the cached verdict.
InvalidateNothing(r) == Answer(r) /\ UNCHANGED entry

\* Invalidate(target), or InvalidateAll after a role is deleted; then the answer.
Invalidate(r) ==
    LET q == req[r] IN
    /\ Answer(r)
    /\ entry' = [u \in Users |-> IF u = q.target \/ q.op = "deleteRole" THEN NoEntry
                                 ELSE entry[u]]

-----------------------------------------------------------------------------
\* An operator in Keycloak's own console.
ChangeOutOfBand(t) ==
    /\ OutOfBand
    /\ user[t].here
    /\ \E row \in {Gone} \cup [here : {TRUE}, admin : BOOLEAN, enabled : BOOLEAN] :
          RealmChanges(t, row)
    /\ req' = Outrun
    /\ UNCHANGED entry

\* Time passes; an upstream read ends, or is abandoned, within Latency.
Tick ==
    /\ \A r \in Reqs : req[r].pc = "store" => req[r].wait < Latency
    /\ entry' = [u \in Users |-> IF entry[u].left > 1
                                 THEN [entry[u] EXCEPT !.left = @ - 1] ELSE NoEntry]
    /\ since' = [u \in Users |-> IF user[u].admin \/ since[u] = MaxAge THEN since[u]
                                 ELSE since[u] + 1]
    /\ req' = [r \in Reqs |-> IF req[r].pc = "store" THEN [req[r] EXCEPT !.wait = @ + 1]
                              ELSE req[r]]
    /\ UNCHANGED <<user, out>>

GuardNext ==
    \/ \E r \in Reqs :
          \/ \E u \in Users : Arrive(r, u)
          \/ Lookup(r) \/ Store(r)
          \/ \E t \in Users, op \in Ops[r] : Guard(r, op, t)
          \/ GetUser(r) \/ Apply(r) \/ Invalidate(r)
    \/ \E t \in Users : ChangeOutOfBand(t)
    \/ Tick

GuardSpec == GuardInit /\ [][GuardNext]_guardVars

-----------------------------------------------------------------------------
\* The step of r that lets its caller through, and what was owed when r arrived and still is.
Admits(r) == req[r].pc \in {"idle", "store"} /\ req'[r].pc = "guard"

StillOwed(r) == (req[r].pc = "idle" \/ req[r].out) /\ out[req'[r].caller]

(* A caller that is admitted had the admin role less than one TTL and one  *)
(* upstream timeout ago, however the role was taken and whatever requests  *)
(* share the cache (DefaultAdminTTL: an out-of-band revocation "closes     *)
(* within a minute").                                                      *)
StalenessBounded ==
    [][\A r \in Reqs : Admits(r) => since[req'[r].caller] < MaxAge]_guardVars

(* Once this API has answered that it took the admin role (revoked it,     *)
(* deleted the user), a request that arrives later is refused (handler.go  *)
(* UnassignRoleFromUser: "at the next request, not after the cache TTL"),  *)
(* unless a concurrent check had read the role and not stored it yet.      *)
RevokedIsRefused ==
    [][\A r \in Reqs : Admits(r) => ~StillOwed(r)]_guardVars

(* A verb that counts the admins never takes the realm's last enabled one, *)
(* though its caller was admitted on a stale verdict and disabled admins   *)
(* keep a valid token; unless the realm changed between the count and the  *)
(* call (service.go assertNotLastAdmin, UpdateUser, UnassignRolesFromUser, *)
(* DeleteUser).                                                            *)
LastAdminIsKept ==
    [][\A r \in Reqs :
          /\ req[r].pc = "apply" /\ req'[r].pc # "apply"
          /\ req[r].op \in Counting /\ req[r].fresh
          /\ EnabledAdmins # {}
          => EnabledAdmins' # {}]_guardVars
=============================================================================
