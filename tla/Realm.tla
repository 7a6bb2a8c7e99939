-------------------------------- MODULE Realm --------------------------------
(***************************************************************************)
(* The Keycloak side of an identity request: what Provider asks of a realm *)
(* one admin call after another, and the AdminClient that sends each call  *)
(* (internal/identity/keycloak).  The realm itself is external: it answers *)
(* the calls, and people change it behind the requests' back.              *)
(*                                                                         *)
(* A call is: load the cached token or mint one, send, and retry once with *)
(* another token if this one is refused.  An operation is a short program  *)
(* of calls; its next call is chosen by how the previous one ended.        *)
(***************************************************************************)
EXTENDS Integers, Sequences, FiniteSets

CONSTANTS
    Reqs,           \* requests served at the same time
    Ops,            \* the operations they ask for
    Ids,            \* user ids, in the order the realm lists them
    Old,            \* the id of a user invited earlier
    PageSize,       \* invitationsPageSize, usersByRolePageSize
    HardCap,        \* invitationsHardCap, usersByRoleHardCap
    MaxRevocations, MaxTroubles \* bounds: what goes wrong, and how much of it in all

\* Every method of Provider that is modelled.
Operations == {"invite", "password", "rename", "disable", "resend", "delete", "list"}

ASSUME RealmAssumption ==
    /\ Ops \subseteq Operations
    /\ Ids \subseteq Nat /\ IsFiniteSet(Ids) /\ Old \in Ids
    /\ PageSize \in Nat \ {0} /\ HardCap \in Nat
    /\ MaxRevocations \in Nat /\ MaxTroubles \in Nat

VARIABLES
    cached,         \* AdminClient.token: the epoch it was minted in, or Nil
    epoch,          \* the realm refuses tokens of earlier epochs
    account,        \* the users of the realm
    req,
    troubles        \* outages, lost answers, hang-ups and revocations so far

realmVars == <<cached, epoch, account, req, troubles>>

Nil == -1
Tokens == 0 .. MaxRevocations

\* requiredActionsForInvite
InviteActions == {"VERIFY_EMAIL", "UPDATE_PASSWORD"}

Provisioning == {"invite", "password"}
Patches == {"rename", "disable"}

\* The calls of each operation, in order.
Program(op) ==
    CASE op = "invite"   -> <<"roles", "create", "grant", "mail", "reread">>
      [] op = "password" -> <<"create", "secret", "roles", "grant", "reread">>
      [] op \in Patches   -> <<"get", "put", "reread">>
      [] op = "resend"   -> <<"get", "mail", "reread">>
      [] op = "delete"   -> <<"delete">>
      [] op = "list"     -> <<"page">>
      [] op = "none"     -> <<>>

\* version counts the writes to enabled and name.
NoAccount == [live |-> FALSE, email |-> "none", enabled |-> FALSE, name |-> "none",
              pending |-> {}, granted |-> FALSE, mailed |-> FALSE, secret |-> FALSE, version |-> 0]

\* The user an operation creates: a password is temporary, an address is verified by mail.
Fresh(op) == [NoAccount EXCEPT !.live = TRUE, !.email = "new", !.enabled = TRUE, !.name = "given",
                               !.pending = IF op = "invite" THEN InviteActions
                                           ELSE {"UPDATE_PASSWORD"}]

\* The user invited earlier has verified the address and not yet chosen a password.
Invited == [Fresh("invite") EXCEPT !.email = "old", !.granted = TRUE, !.mailed = TRUE,
                                  !.pending = {"UPDATE_PASSWORD"}]

\* again: the retry is under way.  hits: times the current call was applied.
\* spoiled: another request put a refused token back after this one dropped it.
\* undo: the compensating delete.
\* first, out, more: the listing.  there, shrunk: who was here when it began, and
\* whether anyone left since.
Nothing == [op |-> "none", at |-> 0, call |-> "idle", token |-> Nil, again |-> FALSE,
            hits |-> 0, ctx |-> TRUE, id |-> Nil, seen |-> NoAccount, result |-> "none",
            spoiled |-> FALSE, undo |-> "no", first |-> 0, out |-> {},
            more |-> FALSE, there |-> {}, shrunk |-> FALSE]

RealmInit ==
    /\ cached = Nil /\ epoch = 0
    /\ account = [i \in Ids |-> IF i = Old THEN Invited ELSE NoAccount]
    /\ req = [r \in Reqs |-> Nothing]
    /\ troubles = 0

-----------------------------------------------------------------------------
Live(users) == {i \in Ids : users[i].live}

Busy(q) == q.call \notin {"idle", "answered"}

Undoing(q) == q.undo = "now"

Step(q) == IF Undoing(q) THEN "undo" ELSE Program(q.op)[q.at]

\* Mutant: the compensating delete is sent with the context of the request.
WithRequestContext(q) == FALSE

\* compensateInvitationCreate has a context of its own; every other call has the request's.
Detached(q) == q.op = "invite" /\ Undoing(q)

GoneAway(q) == ~q.ctx /\ ~Detached(q)

Calling(q) == [q EXCEPT !.call = "load", !.token = Nil, !.again = FALSE, !.hits = 0,
                        !.spoiled = FALSE]

\* What the answered request still held is gone with it.
Ended(q, result) == [q EXCEPT !.call = "answered", !.token = Nil, !.result = result,
                              !.again = FALSE, !.ctx = TRUE, !.seen = NoAccount]

\* The current call succeeded.
Succeeded(q) ==
    IF Undoing(q) THEN Ended([q EXCEPT !.undo = "done"], "failed")
    ELSE IF q.more THEN Calling(q)
    ELSE IF q.at = Len(Program(q.op)) THEN Ended(q, "ok")
    ELSE Calling([q EXCEPT !.at = @ + 1])

\* Mutant: a mail that was not sent is forgiven like the closing read.
ForgiveMail(q, why) ==
    IF Undoing(q) THEN Ended([q EXCEPT !.undo = why], "failed")
    ELSE IF q.op \in Provisioning /\ Step(q) \in {"mail", "reread"} THEN Ended(q, "ok")
    ELSE IF q.op \in Provisioning /\ q.id # Nil THEN Calling([q EXCEPT !.undo = "now"])
    ELSE Ended(q, why)

\* The current call failed: an informational read is forgiven, a provisioning that
\* has created its user deletes it again, anything else is the answer.
Failed(q, why) ==
    IF Undoing(q) THEN Ended([q EXCEPT !.undo = why], "failed")
    ELSE IF q.op \in Provisioning \cup {"resend"} /\ Step(q) = "reread" THEN Ended(q, "ok")
    ELSE IF q.op \in Provisioning /\ q.id # Nil THEN Calling([q EXCEPT !.undo = "now"])
    ELSE Ended(q, why)

-----------------------------------------------------------------------------
Reply(users, q, ok) == [account |-> users, q |-> q, ok |-> ok]

Refusal(q) == Reply(account, q, FALSE)

Done(q) == Reply(account, q, TRUE)

OnUser(q, replies) == IF account[q.id].live THEN replies ELSE {Refusal(q)}

\* POST /users.
Creation(q) ==
    IF \E i \in Live(account) : account[i].email = Fresh(q.op).email THEN {Refusal(q)}
    ELSE {Reply([account EXCEPT ![i] = Fresh(q.op)], [q EXCEPT !.id = i], TRUE) :
            i \in {j \in Ids : account[j] = NoAccount}}

\* Mutant: the body carries the fields of the patch and nothing else.
PatchOnly(q) == [account[q.id] EXCEPT !.enabled = (q.op # "disable"), !.version = @ + 1,
                                      !.name = IF q.op = "rename" THEN "new" ELSE "none"]

\* PUT /users/:id carries every field the GET read, with the patch on top.
Merged(q) == [account[q.id] EXCEPT !.enabled = q.seen.enabled /\ q.op # "disable",
                                   !.version = @ + 1,
                                   !.name = IF q.op = "rename" THEN "new" ELSE q.seen.name]

\* GET: a resend stops at a disabled user, and at one with nothing pending.
Reading(q) ==
    LET user == account[q.id]
    IN IF q.op = "resend" /\ (~user.enabled \/ user.pending = {}) THEN {Refusal(q)}
       ELSE {Done([q EXCEPT !.seen = user])}

\* The users the realm lists from position q.first on.
Page(q) ==
    {i \in Live(account) : Cardinality({j \in Live(account) : j < i})
                             \in q.first .. q.first + PageSize - 1}

\* Mutant: a full page is taken for the last one.
OnePage(q) ==
    {Done([q EXCEPT !.out = @ \cup Page(q), !.first = @ + PageSize, !.more = FALSE])}

\* One page of ListInvitations or ListUsersByRole.
Paging(q) ==
    {Done([q EXCEPT !.out = @ \cup Page(q), !.first = @ + PageSize,
                    !.more = Cardinality(Page(q)) = PageSize /\ q.first + PageSize < HardCap])}

\* What the realm may do with a call it accepts.
Replies(q) ==
    CASE Step(q) = "roles" -> {Done(q), Refusal(q)}
      [] Step(q) = "create" -> Creation(q)
      [] Step(q) = "grant" ->
           OnUser(q, {Reply([account EXCEPT ![q.id].granted = TRUE], q, TRUE), Refusal(q)})
      [] Step(q) = "secret" ->
           OnUser(q, {Reply([account EXCEPT ![q.id].secret = TRUE], q, TRUE), Refusal(q)})
      [] Step(q) = "mail" ->
           OnUser(q, {Reply([account EXCEPT ![q.id].mailed = TRUE], q, TRUE), Refusal(q)})
      [] Step(q) = "get" -> OnUser(q, Reading(q))
      [] Step(q) = "put" -> OnUser(q, {Reply([account EXCEPT ![q.id] = Merged(q)], q, TRUE)})
      [] Step(q) = "reread" -> OnUser(q, {Done(q)})
      [] Step(q) = "page" -> Paging(q)
      [] Step(q) \in {"undo", "delete"} ->
           OnUser(q, {Reply([account EXCEPT ![q.id].live = FALSE], q, TRUE)})

\* The realm becomes users and request r becomes q; a listing notes who left.
Commit(r, users, q) ==
    /\ account' = users
    /\ req' = [p \in Reqs |->
                 IF p = r THEN q
                 ELSE IF req[p].op = "list" /\ Live(users) # Live(account) \cup Live(users)
                      THEN [req[p] EXCEPT !.shrunk = TRUE]
                      ELSE req[p]]

-----------------------------------------------------------------------------
Trouble == troubles < MaxTroubles /\ troubles' = troubles + 1

Opening(op) ==
    [Nothing EXCEPT !.op = op, !.at = 1,
                    !.there = IF op = "list" THEN Live(account) ELSE {},
                    !.id = IF op \in Provisioning \cup {"list"} THEN Nil ELSE Old]

Begin(r) ==
    /\ req[r].call = "idle"
    /\ \E op \in Ops : req' = [req EXCEPT ![r] = Calling(Opening(op))]
    /\ UNCHANGED <<cached, epoch, account, troubles>>

\* acquireToken finds a token with more than tokenRefreshSkew to live.
LoadToken(r) ==
    /\ req[r].call = "load" /\ ~GoneAway(req[r])
    /\ req' = [req EXCEPT ![r].token = cached, ![r].call = IF cached = Nil THEN "mint" ELSE "send"]
    /\ UNCHANGED <<cached, epoch, account, troubles>>

\* The token endpoint answers.
MintToken(r) ==
    /\ req[r].call = "mint" /\ ~GoneAway(req[r])
    /\ req' = [req EXCEPT ![r].token = epoch, ![r].call = "store"]
    /\ UNCHANGED <<cached, epoch, account, troubles>>

\* token.Store, whatever another request stored in the meantime.
StoreToken(r) ==
    /\ req[r].call = "store"
    /\ cached' = req[r].token
    /\ req' = [p \in Reqs |->
                 IF p = r THEN [req[p] EXCEPT !.call = "send"]
                 ELSE IF req[p].again /\ req[p].call = "load" /\ req[r].token # epoch
                      THEN [req[p] EXCEPT !.spoiled = TRUE] ELSE req[p]]
    /\ UNCHANGED <<epoch, account, troubles>>

\* The call reaches the realm and its answer comes back.
Send(r) ==
    /\ req[r].call = "send" /\ ~GoneAway(req[r])
    /\ IF req[r].token # epoch
       THEN Commit(r, account, [req[r] EXCEPT !.call = "refused"])
       ELSE \E x \in Replies([req[r] EXCEPT !.hits = @ + 1]) :
              Commit(r, x.account, IF x.ok THEN Succeeded(x.q) ELSE Failed(x.q, "failed"))
    /\ UNCHANGED <<cached, epoch, troubles>>

\* Mutant: the refused token stays in the cache.
KeepRefused(r) ==
    /\ req[r].call = "refused"
    /\ IF req[r].again THEN Commit(r, account, Failed(req[r], "unauthorized"))
       ELSE Commit(r, account, [req[r] EXCEPT !.again = TRUE, !.call = "load", !.token = Nil])
    /\ UNCHANGED <<cached, epoch, troubles>>

\* A 401: drop the token and go round once more.
RetryRefused(r) ==
    /\ req[r].call = "refused"
    /\ IF req[r].again
       THEN Commit(r, account, Failed(req[r], "unauthorized")) /\ UNCHANGED cached
       ELSE /\ Commit(r, account, [req[r] EXCEPT !.again = TRUE, !.call = "load", !.token = Nil])
            /\ cached' = Nil
    /\ UNCHANGED <<epoch, troubles>>

\* Mutant: a call whose answer was lost is sent again.
LostAndRetried(r) ==
    /\ req[r].call = "send" /\ req[r].token = epoch
    /\ \/ Trouble
       \/ GoneAway(req[r]) /\ UNCHANGED troubles
    /\ \E x \in Replies([req[r] EXCEPT !.hits = @ + 1]) :
         Commit(r, x.account, [req[r] EXCEPT !.hits = @ + 1])
    /\ UNCHANGED <<cached, epoch>>

\* The call reaches the realm, and its answer does not come back: a timeout, a 5xx
\* after the fact, a 201 without its Location, or a client that hung up meanwhile.
LoseAnswer(r) ==
    /\ req[r].call = "send" /\ req[r].token = epoch
    /\ \/ Trouble
       \/ GoneAway(req[r]) /\ UNCHANGED troubles
    /\ \E x \in Replies([req[r] EXCEPT !.hits = @ + 1]) :
         /\ x.ok
         /\ Commit(r, x.account, Failed([req[r] EXCEPT !.hits = @ + 1,
                                           !.id = IF Step(req[r]) = "create" THEN Nil ELSE @],
                                        "failed"))
    /\ UNCHANGED <<cached, epoch>>

\* The call never reaches the realm: an outage, or a context already cancelled.
NotSent(r) ==
    /\ req[r].call \in {"load", "mint", "send"}
    /\ \/ GoneAway(req[r]) /\ Commit(r, account, Failed(req[r], "cancelled")) /\ UNCHANGED troubles
       \/ /\ req[r].call # "load" /\ Trouble
          /\ Commit(r, account, Failed(req[r], "failed"))
    /\ UNCHANGED <<cached, epoch>>

\* The client hangs up.
HangUp(r) ==
    /\ Busy(req[r]) /\ req[r].ctx /\ Trouble
    /\ req' = [req EXCEPT ![r].ctx = FALSE]
    /\ UNCHANGED <<cached, epoch, account>>

\* The cached token comes within tokenRefreshSkew of its expiry.
TokenAges ==
    /\ cached # Nil /\ cached' = Nil
    /\ UNCHANGED <<epoch, account, req, troubles>>

\* The realm rotates its keys, or ends the session of the service account.
Revoke ==
    /\ epoch < MaxRevocations /\ epoch' = epoch + 1 /\ Trouble
    /\ UNCHANGED <<cached, account, req>>

\* A user completes what the mail asked for, or chooses a password of their own.
Onboard ==
    /\ \E i \in Live(account) :
         /\ account[i].mailed \/ account[i].secret
         /\ account[i].enabled /\ account[i].pending # {}
         /\ account' = [account EXCEPT ![i].pending = {}]
    /\ UNCHANGED <<cached, epoch, req, troubles>>

Progress(r) ==
    \/ LoadToken(r) \/ MintToken(r) \/ StoreToken(r) \/ Send(r) \/ RetryRefused(r)
    \/ LoseAnswer(r) \/ NotSent(r)

RealmNext ==
    \/ TokenAges \/ Revoke \/ Onboard
    \/ \E r \in Reqs : Begin(r) \/ Progress(r) \/ HangUp(r)

RealmSpec == RealmInit /\ [][RealmNext]_realmVars

-----------------------------------------------------------------------------
Answered(r, op, result) ==
    req[r].call = "answered" /\ req[r].op = op /\ req[r].result = result

\* The retry after a 401 never repeats a call the realm had taken: whatever is lost,
\* refused or cut off, one call is applied at most once (keycloak/admin.go:176, 303).
AppliedAtMostOnce == \A r \in Reqs : req[r].hits <= 1

\* A call is answered 401 after its retry only if the realm revoked tokens twice in
\* its time, or another request slipped a token the realm had refused already into
\* the cache (keycloak/admin.go:303).
RetryEscapesOneRevocation ==
    \A r \in Reqs : req[r].result = "unauthorized" => req[r].spoiled \/ epoch > 1

\* An invitation that fails leaves no account behind for the retry to collide with,
\* even when its client hangs up half-way: the exceptions are a creation whose answer
\* never came and a cleanup the realm itself failed (keycloak/invitations.go:250, 317).
FailedInvitationLeavesNoUser ==
    \A r \in Reqs :
      req[r].call = "answered" /\ req[r].op = "invite" /\ req[r].id # Nil /\ req[r].result # "ok"
        => req[r].undo \in {"done", "failed", "unauthorized"}
           /\ (req[r].undo = "done" => ~account[req[r].id].live)

\* What was answered as provisioned is provisioned: the role is granted and the mail
\* sent, or the password set, and the request has not deleted it, whether or not the
\* closing read came back (keycloak/invitations.go:282).
AnsweredMeansProvisioned ==
    \A r \in Reqs :
      req[r].call = "answered" /\ req[r].op \in Provisioning /\ req[r].result = "ok" =>
        LET user == account[req[r].id]
        IN /\ user.granted /\ req[r].undo = "no"
           /\ IF req[r].op = "invite" THEN user.mailed ELSE user.secret

\* A patch changes the fields it names and no other, unless somebody wrote the user
\* between its GET and its PUT (keycloak/users.go:45).
PatchIsExact ==
    [][\A r \in Reqs :
         req[r].op \in Patches /\ account'[Old].version # account[Old].version
           /\ req[r].hits = 0 /\ req'[r] # req[r] /\ req[r].seen.version = account[Old].version
           => /\ account'[Old].name # account[Old].name => req[r].op = "rename"
              /\ account'[Old].enabled # account[Old].enabled => req[r].op = "disable"
      ]_realmVars

\* A listing that ends below its cap names every user who was there from its first
\* page to its last, unless somebody was deleted meanwhile and moved the pages
\* (keycloak/invitations.go:67, keycloak/roles.go:101).
ListingIsComplete ==
    \A r \in Reqs : Answered(r, "list", "ok") /\ ~req[r].shrunk /\ req[r].first < HardCap =>
      req[r].there \subseteq req[r].out

=============================================================================
