----------------------------- MODULE RealmProofs -----------------------------
(***************************************************************************)
(* Proofs about Realm, for any number of requests, of users, of troubles   *)
(* and of revocations.                                                     *)
(*                                                                         *)
(* The inductive invariant has a part per request (nothing in it relates   *)
(* two requests) and each part looks at the realm, or at the token cache,  *)
(* through a relation the other requests' steps respect:                   *)
(*  - Progressing: what the calls made so far have left in the realm.  The *)
(*    other requests and the users only let accounts Evolve: an address    *)
(*    is never taken back, a deleted user never revived, a role, a mail or *)
(*    a password never undone, and name and enabled change with version;   *)
(*  - TokenOK: which epoch the token in hand, and the one in the cache,    *)
(*    can be of.  A retry holds a token of epoch 0 only if it was spoiled; *)
(*  - ListOK: a user who was there from the first page on is listed        *)
(*    already, or is still at the position of the next page or behind it.  *)
(***************************************************************************)
EXTENDS Realm, FiniteSetTheorems, WellFoundedInduction, TLAPS

Users == [live : BOOLEAN, email : {"none", "new", "old"}, enabled : BOOLEAN,
          name : {"none", "given", "new"}, pending : SUBSET InviteActions, granted : BOOLEAN,
          mailed : BOOLEAN, secret : BOOLEAN, version : Nat]

Reasons == {"failed", "cancelled", "unauthorized"}

Requests ==
    [op : Operations \cup {"none"}, at : Nat,
     call : {"idle", "load", "mint", "store", "send", "refused", "answered"},
     token : Tokens \cup {Nil}, again : BOOLEAN, hits : Nat, ctx : BOOLEAN,
     id : Ids \cup {Nil}, seen : Users, result : Reasons \cup {"none", "ok"},
     spoiled : BOOLEAN, undo : Reasons \cup {"no", "now", "done"}, first : Nat,
     out : SUBSET Ids, more : BOOLEAN, there : SUBSET Ids, shrunk : BOOLEAN]

RealmTypeOK ==
    /\ cached \in Tokens \cup {Nil} /\ epoch \in Tokens
    /\ account \in [Ids -> Users]
    /\ req \in [Reqs -> Requests]
    /\ troubles \in Nat

\* What a patch read of its user is still so, or the user was written since.
Current(users, seen) ==
    /\ seen.version <= users[Old].version
    /\ seen.version = users[Old].version =>
         seen.name = users[Old].name /\ (seen.enabled <=> users[Old].enabled)

\* The first k calls of the program have been made.
Reached(users, q, k) ==
    /\ q.op = "invite" /\ k >= 2 => q.id # Nil
    /\ q.op = "invite" /\ k >= 3 => users[q.id].granted
    /\ q.op = "invite" /\ k >= 4 => users[q.id].mailed
    /\ q.op = "password" /\ k >= 1 => q.id # Nil
    /\ q.op = "password" /\ k >= 2 => users[q.id].secret
    /\ q.op = "password" /\ k >= 4 => users[q.id].granted
    /\ q.op \in Patches /\ k >= 1 => Current(users, q.seen)

\* A request that is being served.
Under(users, q) ==
    /\ q.op \in Operations /\ q.at \in 1 .. Len(Program(q.op)) /\ q.result = "none"
    /\ q.id # Nil => users[q.id].email # "none"
    /\ q.op \in Patches \cup {"resend", "delete"} => q.id = Old
    /\ q.op = "list" => q.id = Nil
    /\ q.undo \in {"no", "now"}
    /\ Undoing(q) => q.op \in Provisioning /\ q.id # Nil
    /\ q.more => q.op = "list"
    /\ Reached(users, q, q.at - 1)

\* A request that has been answered.
Over(users, q) ==
    /\ q.op \in Operations
    /\ q.id # Nil => users[q.id].email # "none"
    /\ q.op = "invite" /\ q.id # Nil /\ q.result # "ok" =>
         /\ q.undo \in {"done", "failed", "unauthorized"}
         /\ q.undo = "done" => ~users[q.id].live
    /\ q.op \in Provisioning /\ q.result = "ok" =>
         /\ q.id # Nil /\ users[q.id].granted /\ q.undo = "no"
         /\ q.op = "invite" => users[q.id].mailed
         /\ q.op = "password" => users[q.id].secret

Progressing(users, q) ==
    /\ q.call = "idle" => q.hits = 0
    /\ Busy(q) => Under(users, q) /\ q.hits = 0
    /\ q.call = "answered" => Over(users, q) /\ q.hits <= 1

\* What the steps of others may make of a user.
Later(before, after) ==
    before.email # "none" =>
      /\ after.email # "none"
      /\ ~before.live => ~after.live
      /\ before.granted => after.granted
      /\ before.mailed => after.mailed
      /\ before.secret => after.secret
      /\ before.version <= after.version
      /\ before.version = after.version =>
           before.name = after.name /\ (before.enabled <=> after.enabled)

Evolves(before, after) == \A i \in Ids : Later(before[i], after[i])

-----------------------------------------------------------------------------
(* The records the operators build, field by field. *)

LEMMA NatFacts == Nil \notin Ids /\ Nil \notin Tokens /\ Tokens \subseteq Nat /\ 0 \in Tokens
BY RealmAssumption DEF RealmAssumption, Nil, Tokens

LEMMA NoAccountTyped == NoAccount \in Users
BY DEF NoAccount, Users, InviteActions

LEMMA FreshTyped ==
  ASSUME NEW op
  PROVE  /\ Fresh(op) \in Users /\ Fresh(op).live /\ Fresh(op).email = "new"
         /\ Fresh(op).version = 0
BY NoAccountTyped DEF Fresh, NoAccount, Users, InviteActions

LEMMA InvitedTyped ==
  Invited \in Users /\ Invited.live /\ Invited.email = "old"
BY FreshTyped DEF Invited, Users, InviteActions

LEMMA CallingFields ==
  ASSUME NEW q \in Requests
  PROVE  LET c == Calling(q)
         IN /\ c \in Requests
            /\ c.call = "load" /\ c.token = Nil /\ ~c.again /\ c.hits = 0
            /\ ~c.spoiled
            /\ c.op = q.op /\ c.at = q.at /\ c.ctx = q.ctx /\ c.id = q.id /\ c.seen = q.seen
            /\ c.result = q.result /\ c.undo = q.undo /\ c.first = q.first
            /\ c.out = q.out /\ c.more = q.more /\ c.there = q.there /\ c.shrunk = q.shrunk
BY DEF Calling, Requests

LEMMA EndedFields ==
  ASSUME NEW q \in Requests, NEW result \in Reasons \cup {"ok"}
  PROVE  LET e == Ended(q, result)
         IN /\ e \in Requests
            /\ e.call = "answered" /\ e.token = Nil /\ ~e.again
            /\ e.ctx /\ e.result = result
            /\ e.op = q.op /\ e.at = q.at /\ e.hits = q.hits /\ e.id = q.id
            /\ e.spoiled = q.spoiled /\ e.undo = q.undo /\ e.first = q.first
            /\ e.out = q.out /\ e.more = q.more /\ e.there = q.there /\ e.shrunk = q.shrunk
BY NoAccountTyped DEF Ended, Requests

-----------------------------------------------------------------------------
(* The programs, and the call a request is at. *)

LEMMA Programs ==
  /\ Program("invite") = <<"roles", "create", "grant", "mail", "reread">>
  /\ Program("password") = <<"create", "secret", "roles", "grant", "reread">>
  /\ Program("rename") = <<"get", "put", "reread">>
  /\ Program("disable") = <<"get", "put", "reread">>
  /\ Program("resend") = <<"get", "mail", "reread">>
  /\ Program("delete") = <<"delete">>
  /\ Program("list") = <<"page">>
BY Zenon DEF Program, Patches

LEMMA Lengths ==
  ASSUME NEW op \in Operations
  PROVE  /\ Len(Program(op)) \in Nat
         /\ op \in Provisioning => Len(Program(op)) = 5
         /\ op \in Patches \cup {"resend"} => Len(Program(op)) = 3
         /\ op \in {"delete", "list"} => Len(Program(op)) = 1
BY Programs DEF Operations, Provisioning, Patches

LEMMA StepTable ==
  ASSUME NEW q, q.op \in Operations, q.at \in 1 .. Len(Program(q.op)), ~Undoing(q)
  PROVE  /\ Step(q) # "undo"
         /\ Step(q) = "roles" =>
              (q.op = "invite" /\ q.at = 1) \/ (q.op = "password" /\ q.at = 3)
         /\ Step(q) = "create" =>
              (q.op = "invite" /\ q.at = 2) \/ (q.op = "password" /\ q.at = 1)
         /\ Step(q) = "grant" =>
              (q.op = "invite" /\ q.at = 3) \/ (q.op = "password" /\ q.at = 4)
         /\ Step(q) = "mail" => (q.op = "invite" /\ q.at = 4) \/ (q.op = "resend" /\ q.at = 2)
         /\ Step(q) = "secret" => q.op = "password" /\ q.at = 2
         /\ Step(q) = "get" => q.op \in Patches \cup {"resend"} /\ q.at = 1
         /\ Step(q) = "put" => q.op \in Patches /\ q.at = 2
         /\ Step(q) = "reread" =>
              (q.op \in Provisioning /\ q.at = 5) \/ (q.op \in Patches \cup {"resend"} /\ q.at = 3)
         /\ Step(q) = "page" => q.op = "list"
         /\ Step(q) = "delete" => q.op = "delete" /\ q.at = 1
         /\ Step(q) \in {"roles", "create", "grant", "mail", "secret", "get", "put", "reread",
                         "page", "delete"}
         /\ q.op = "list" => Step(q) = "page"
<1>0. Step(q) = Program(q.op)[q.at]
  BY DEF Step
<1>1. CASE q.op = "invite"
  <2>1. q.at \in 1 .. 5
    BY <1>1, Lengths DEF Provisioning
  <2>2. Program(q.op) = <<"roles", "create", "grant", "mail", "reread">>
    BY <1>1, Programs DEF Patches
  <2> QED BY <1>0, <1>1, <2>1, <2>2 DEF Provisioning, Patches
<1>2. CASE q.op = "password"
  <2>1. q.at \in 1 .. 5
    BY <1>2, Lengths DEF Provisioning
  <2>2. Program(q.op) = <<"create", "secret", "roles", "grant", "reread">>
    BY <1>2, Programs DEF Patches
  <2> QED BY <1>0, <1>2, <2>1, <2>2 DEF Provisioning, Patches
<1>3. CASE q.op \in Patches
  <2>1. q.at \in 1 .. 3
    BY <1>3, Lengths
  <2>2. Program(q.op) = <<"get", "put", "reread">>
    BY <1>3, Programs DEF Patches
  <2> QED BY <1>0, <1>3, <2>1, <2>2 DEF Provisioning, Patches
<1>4. CASE q.op = "resend"
  <2>1. q.at \in 1 .. 3
    BY <1>4, Lengths
  <2>2. Program(q.op) = <<"get", "mail", "reread">>
    BY <1>4, Programs DEF Patches
  <2> QED BY <1>0, <1>4, <2>1, <2>2 DEF Provisioning, Patches
<1>5. CASE q.op \in {"delete", "list"}
  <2>0. Len(Program(q.op)) = 1
    BY <1>5, Lengths DEF Operations
  <2>1. q.at = 1
    BY <2>0
  <2>2. Program(q.op) = IF q.op = "delete" THEN <<"delete">> ELSE <<"page">>
    BY <1>5, Programs DEF Patches
  <2> QED BY <1>0, <1>5, <2>1, <2>2 DEF Provisioning, Patches
<1> QED BY <1>1, <1>2, <1>3, <1>4, <1>5 DEF Operations, Patches

-----------------------------------------------------------------------------
(* How a call's end moves its request on. *)

\* Request n has a call before it that nobody has sent yet.
Loading(n) ==
    n.call = "load" /\ n.token = Nil /\ ~n.again /\ n.hits = 0 /\ ~n.spoiled

SameListing(p, q) ==
    /\ p.op = q.op /\ p.first = q.first /\ p.out = q.out /\ p.more = q.more
    /\ p.there = q.there /\ p.shrunk = q.shrunk

LEMMA SuccessFields ==
  ASSUME NEW q \in Requests, q.op \in Operations
  PROVE  LET s == Succeeded(q)
         IN /\ s \in Requests /\ SameListing(s, q)
            /\ \/ Loading(s) /\ s.result = q.result
               \/ /\ s.call = "answered" /\ s.token = Nil /\ ~s.again /\ s.hits = q.hits
                  /\ s.result \in {"ok", "failed"}
            /\ ~Undoing(q) /\ q.more => Loading(s)
<1>1. CASE Undoing(q)
  <2> DEFINE u == [q EXCEPT !.undo = "done"]
  <2>1. u \in Requests /\ SameListing(u, q) /\ u.hits = q.hits
    BY DEF Requests, SameListing
  <2>2. Succeeded(q) = Ended(u, "failed")
    BY <1>1 DEF Succeeded
  <2> HIDE DEF u
  <2> QED BY <1>1, <2>1, <2>2, EndedFields DEF Reasons, SameListing
<1>2. CASE ~Undoing(q) /\ (q.more \/ q.at # Len(Program(q.op)))
  <2> DEFINE u == IF q.more THEN q ELSE [q EXCEPT !.at = @ + 1]
  <2>1. u \in Requests /\ SameListing(u, q) /\ u.result = q.result
    BY DEF Requests, SameListing
  <2>2. Succeeded(q) = Calling(u)
    BY <1>2 DEF Succeeded
  <2> HIDE DEF u
  <2> QED BY <2>1, <2>2, CallingFields DEF Loading, SameListing
<1>3. CASE ~Undoing(q) /\ ~q.more /\ q.at = Len(Program(q.op))
  <2>2. Succeeded(q) = Ended(q, "ok")
    BY <1>3 DEF Succeeded
  <2> QED BY <1>3, <2>2, EndedFields DEF SameListing
<1> QED BY <1>1, <1>2, <1>3

LEMMA FailureFields ==
  ASSUME NEW q \in Requests, q.op \in Operations, NEW why \in Reasons
  PROVE  LET f == Failed(q, why)
         IN /\ f \in Requests /\ SameListing(f, q)
            /\ \/ Loading(f) /\ f.result = q.result
               \/ /\ f.call = "answered" /\ f.token = Nil /\ ~f.again /\ f.hits = q.hits
                  /\ f.result \in {"ok", "failed", why} /\ f.spoiled = q.spoiled
            /\ q.op = "list" => f.call = "answered" /\ f.result # "ok"
<1>1. CASE Undoing(q)
  <2> DEFINE u == [q EXCEPT !.undo = why]
  <2>1. /\ u \in Requests /\ SameListing(u, q) /\ u.hits = q.hits
        /\ u.spoiled = q.spoiled
    BY DEF Requests, SameListing
  <2>2. Failed(q, why) = Ended(u, "failed")
    BY <1>1 DEF Failed
  <2> HIDE DEF u
  <2> QED BY <1>1, <2>1, <2>2, EndedFields DEF Reasons, SameListing
<1>2. CASE ~Undoing(q) /\ Failed(q, why) = Calling([q EXCEPT !.undo = "now"])
           /\ q.op \in Provisioning
  <2> DEFINE u == [q EXCEPT !.undo = "now"]
  <2>1. u \in Requests /\ SameListing(u, q) /\ u.result = q.result
    BY DEF Requests, SameListing
  <2>2. Failed(q, why) = Calling(u)
    BY <1>2
  <2> HIDE DEF u
  <2> QED BY <1>2, <2>1, <2>2, CallingFields DEF Loading, SameListing, Provisioning
<1>3. CASE \E result \in {"ok", why} : Failed(q, why) = Ended(q, result)
           /\ (q.op = "list" => result = why)
  <2>1. PICK result \in {"ok", why} : Failed(q, why) = Ended(q, result)
                                      /\ (q.op = "list" => result = why)
    BY <1>3
  <2> QED BY <2>1, EndedFields DEF SameListing, Reasons
<1> QED BY <1>1, <1>2, <1>3 DEF Failed, Provisioning

-----------------------------------------------------------------------------
(* Progress. *)

\* q and p differ at most in what Progressing does not look at while they are served.
SameCourse(p, q) ==
    /\ p.op = q.op /\ p.at = q.at /\ p.result = q.result /\ p.id = q.id /\ p.undo = q.undo
    /\ p.seen = q.seen /\ (p.more <=> q.more)

\* The accounts a request has touched keep what its calls have given them.
LEMMA ReachedKept ==
  ASSUME NEW a \in [Ids -> Users], NEW b \in [Ids -> Users], Evolves(a, b),
         NEW p \in Requests, NEW q \in Requests, SameCourse(p, q), NEW k \in Nat,
         Reached(a, q, k), q.id # Nil => a[q.id].email # "none", a[Old].email # "none"
  PROVE  Reached(b, p, k)
<1>1. q.id # Nil => /\ q.id \in Ids
                    /\ a[q.id].granted => b[q.id].granted
                    /\ a[q.id].mailed => b[q.id].mailed
                    /\ a[q.id].secret => b[q.id].secret
  BY DEF Evolves, Later, Requests
<1>2. Current(a, q.seen) => Current(b, q.seen)
  <2>1. /\ Old \in Ids /\ a[Old].version <= b[Old].version
        /\ a[Old].version = b[Old].version =>
             a[Old].name = b[Old].name /\ (a[Old].enabled <=> b[Old].enabled)
    BY RealmAssumption DEF RealmAssumption, Evolves, Later
  <2>2. a[Old] \in Users /\ b[Old] \in Users /\ q.seen \in Users
    BY <2>1 DEF Requests
  <2>3. a[Old].version \in Nat /\ b[Old].version \in Nat /\ q.seen.version \in Nat
    BY <2>2 DEF Users
  <2> QED BY <2>1, <2>3 DEF Current
<1> QED BY <1>1, <1>2 DEF Reached, SameCourse

LEMMA AtTyped ==
  ASSUME NEW q, q.op \in Operations, q.at \in 1 .. Len(Program(q.op))
  PROVE  /\ q.at \in Nat /\ q.at >= 1 /\ q.at - 1 \in Nat /\ (q.at + 1) - 1 = q.at
         /\ Len(Program(q.op)) \in Nat
         /\ q.at # Len(Program(q.op)) => q.at + 1 \in 1 .. Len(Program(q.op))
<1>1. Len(Program(q.op)) \in Nat
  BY Lengths
<1> QED BY <1>1

LEMMA UnderKept ==
  ASSUME NEW a \in [Ids -> Users], NEW b \in [Ids -> Users], Evolves(a, b),
         NEW p \in Requests, NEW q \in Requests, SameCourse(p, q),
         Under(a, q), a[Old].email # "none"
  PROVE  Under(b, p)
<1>1. q.at - 1 \in Nat
  BY AtTyped DEF Under
<1>2. Reached(b, p, q.at - 1)
  BY <1>1, ReachedKept DEF Under
<1>3. p.id # Nil => b[p.id].email # "none"
  <2>1. q.id \in Ids \cup {Nil}
    BY DEF Requests
  <2> QED BY <2>1 DEF Under, SameCourse, Evolves, Later
<1> QED BY <1>2, <1>3 DEF Under, SameCourse, Undoing

LEMMA OverKept ==
  ASSUME NEW a \in [Ids -> Users], NEW b \in [Ids -> Users], Evolves(a, b),
         NEW q \in Requests, Over(a, q)
  PROVE  Over(b, q)
<1>1. q.id # Nil => /\ q.id \in Ids /\ a[q.id].email # "none" /\ b[q.id].email # "none"
                    /\ ~a[q.id].live => ~b[q.id].live
                    /\ a[q.id].granted => b[q.id].granted
                    /\ a[q.id].mailed => b[q.id].mailed
                    /\ a[q.id].secret => b[q.id].secret
  BY DEF Evolves, Later, Requests, Over
<1> QED BY <1>1 DEF Over

LEMMA StillEvolves ==
  ASSUME NEW a \in [Ids -> Users]
  PROVE  Evolves(a, a)
<1>1. \A i \in Ids : a[i].version \in Nat
  BY DEF Users
<1> QED BY <1>1 DEF Evolves, Later

LEMMA SuccessProgress ==
  ASSUME NEW a \in [Ids -> Users], NEW q \in Requests, Under(a, q), q.hits <= 1,
         Undoing(q) => ~a[q.id].live,
         ~Undoing(q) => Reached(a, q, q.at)
  PROVE  Progressing(a, Succeeded(q))
<1>1. CASE Undoing(q)
  <2> DEFINE u == [q EXCEPT !.undo = "done"]
  <2>1. u \in Requests /\ u.op = q.op /\ u.id = q.id /\ u.hits = q.hits /\ u.undo = "done"
    BY DEF Requests
  <2>2. Succeeded(q) = Ended(u, "failed")
    BY <1>1 DEF Succeeded
  <2> HIDE DEF u
  <2>3. /\ Succeeded(q).call = "answered" /\ Succeeded(q).op = q.op /\ Succeeded(q).id = q.id
        /\ Succeeded(q).hits = q.hits /\ Succeeded(q).undo = "done"
        /\ Succeeded(q).result = "failed"
    BY <2>1, <2>2, EndedFields DEF Reasons
  <2> QED BY <1>1, <2>3 DEF Progressing, Busy, Over, Under
<1>2. CASE ~Undoing(q) /\ q.more
  <2>1. Succeeded(q) = Calling(q)
    BY <1>2 DEF Succeeded
  <2>2. SameCourse(Calling(q), q) /\ Calling(q) \in Requests
    BY CallingFields DEF SameCourse
  <2>3. Reached(a, Calling(q), q.at - 1)
    BY <2>2 DEF Under, Reached, SameCourse
  <2>4. Under(a, Calling(q))
    BY <2>2, <2>3 DEF Under, SameCourse, Undoing
  <2> QED BY <2>1, <2>4, CallingFields DEF Progressing, Busy
<1>3. CASE ~Undoing(q) /\ ~q.more /\ q.at = Len(Program(q.op))
  <2>1. Succeeded(q) = Ended(q, "ok")
    BY <1>3 DEF Succeeded
  <2>2. /\ Succeeded(q).call = "answered" /\ Succeeded(q).op = q.op /\ Succeeded(q).id = q.id
        /\ Succeeded(q).hits = q.hits /\ Succeeded(q).undo = q.undo
        /\ Succeeded(q).result = "ok"
    BY <2>1, EndedFields
  <2>3. q.op \in Provisioning => q.at = 5
    BY <1>3, Lengths DEF Under
  <2>4. q.op \in Provisioning =>
          /\ q.id # Nil /\ a[q.id].granted /\ q.undo = "no"
          /\ q.op = "invite" => a[q.id].mailed
          /\ q.op = "password" => a[q.id].secret
    <3>1. q.undo = "no" /\ Reached(a, q, q.at)
      BY <1>3 DEF Under, Undoing
    <3> QED BY <2>3, <3>1 DEF Reached, Provisioning
  <2> QED BY <2>2, <2>4 DEF Progressing, Busy, Over, Under
<1>4. CASE ~Undoing(q) /\ ~q.more /\ q.at # Len(Program(q.op))
  <2> DEFINE u == [q EXCEPT !.at = @ + 1]
  <2>1. /\ u \in Requests /\ u.at = q.at + 1 /\ u.op = q.op /\ u.result = q.result
        /\ u.id = q.id /\ u.undo = q.undo /\ u.seen = q.seen /\ (u.more <=> q.more)
    BY DEF Requests
  <2>2. Succeeded(q) = Calling(u)
    BY <1>4 DEF Succeeded
  <2> HIDE DEF u
  <2>3. /\ Calling(u).at = q.at + 1 /\ Calling(u).op = q.op /\ Calling(u).result = q.result
        /\ Calling(u).id = q.id /\ Calling(u).undo = q.undo /\ Calling(u).seen = q.seen
        /\ (Calling(u).more <=> q.more) /\ Calling(u).call = "load" /\ Calling(u).hits = 0
    BY <2>1, CallingFields
  <2>4. /\ q.at \in Nat /\ q.at + 1 - 1 = q.at
        /\ q.at + 1 \in 1 .. Len(Program(q.op))
    BY <1>4, AtTyped DEF Under
  <2>5. Reached(a, Calling(u), q.at)
    BY <1>4, <2>3 DEF Reached
  <2>6. Under(a, Calling(u))
    BY <2>3, <2>4, <2>5 DEF Under, Undoing
  <2> QED BY <2>2, <2>3, <2>6 DEF Progressing, Busy
<1> QED BY <1>1, <1>2, <1>3, <1>4

LEMMA FailureProgress ==
  ASSUME NEW a \in [Ids -> Users], NEW q \in Requests, Under(a, q), q.hits <= 1,
         NEW why \in Reasons, why = "cancelled" => ~Detached(q)
  PROVE  Progressing(a, Failed(q, why))
<1>1. CASE Undoing(q)
  <2> DEFINE u == [q EXCEPT !.undo = why]
  <2>1. u \in Requests /\ u.op = q.op /\ u.id = q.id /\ u.hits = q.hits /\ u.undo = why
    BY DEF Requests
  <2>2. Failed(q, why) = Ended(u, "failed")
    BY <1>1 DEF Failed
  <2> HIDE DEF u
  <2>3. /\ Failed(q, why).call = "answered" /\ Failed(q, why).op = q.op
        /\ Failed(q, why).id = q.id /\ Failed(q, why).hits = q.hits
        /\ Failed(q, why).undo = why /\ Failed(q, why).result = "failed"
    BY <2>1, <2>2, EndedFields DEF Reasons
  <2> QED BY <1>1, <2>3 DEF Progressing, Busy, Over, Under, Detached, Reasons
<1>2. CASE ~Undoing(q) /\ q.op \in Provisioning \cup {"resend"} /\ Step(q) = "reread"
  <2>1. Failed(q, why) = Ended(q, "ok")
    BY <1>2 DEF Failed
  <2>2. /\ Failed(q, why).call = "answered" /\ Failed(q, why).op = q.op
        /\ Failed(q, why).id = q.id /\ Failed(q, why).hits = q.hits
        /\ Failed(q, why).undo = q.undo /\ Failed(q, why).result = "ok"
    BY <2>1, EndedFields
  <2>3. q.op \in Provisioning => q.at = 5
    BY <1>2, StepTable DEF Under, Provisioning, Patches
  <2>4. q.op \in Provisioning =>
          /\ q.id # Nil /\ a[q.id].granted /\ q.undo = "no"
          /\ q.op = "invite" => a[q.id].mailed
          /\ q.op = "password" => a[q.id].secret
    BY <1>2, <2>3 DEF Reached, Under, Undoing, Provisioning
  <2> QED BY <2>2, <2>4 DEF Progressing, Busy, Over, Under
<1>3. CASE /\ ~Undoing(q) /\ ~(q.op \in Provisioning \cup {"resend"} /\ Step(q) = "reread")
           /\ q.op \in Provisioning /\ q.id # Nil
  <2> DEFINE u == [q EXCEPT !.undo = "now"]
  <2>1. /\ u \in Requests /\ u.at = q.at /\ u.op = q.op /\ u.result = q.result
        /\ u.id = q.id /\ u.undo = "now" /\ u.seen = q.seen /\ (u.more <=> q.more)
    BY DEF Requests
  <2>2. Failed(q, why) = Calling(u)
    BY <1>3 DEF Failed
  <2> HIDE DEF u
  <2>3. /\ Calling(u).at = q.at /\ Calling(u).op = q.op /\ Calling(u).result = q.result
        /\ Calling(u).id = q.id /\ Calling(u).undo = "now" /\ Calling(u).seen = q.seen
        /\ (Calling(u).more <=> q.more) /\ Calling(u).call = "load" /\ Calling(u).hits = 0
    BY <2>1, CallingFields
  <2>5. Reached(a, Calling(u), q.at - 1)
    BY <2>3 DEF Reached, Under
  <2>6. Under(a, Calling(u))
    BY <1>3, <2>3, <2>5 DEF Under, Undoing
  <2> QED BY <2>2, <2>3, <2>6 DEF Progressing, Busy
<1>4. CASE /\ ~Undoing(q) /\ ~(q.op \in Provisioning \cup {"resend"} /\ Step(q) = "reread")
           /\ ~(q.op \in Provisioning /\ q.id # Nil)
  <2>1. Failed(q, why) = Ended(q, why)
    BY <1>4 DEF Failed
  <2>2. /\ Failed(q, why).call = "answered" /\ Failed(q, why).op = q.op
        /\ Failed(q, why).id = q.id /\ Failed(q, why).hits = q.hits
        /\ Failed(q, why).undo = q.undo /\ Failed(q, why).result = why
    BY <2>1, EndedFields
  <2> QED BY <1>4, <2>2 DEF Progressing, Busy, Over, Under, Provisioning, Reasons
<1> QED BY <1>1, <1>2, <1>3, <1>4

-----------------------------------------------------------------------------
(* What the realm answers. *)

\* A reply carries on with the call it answers.
SameCall(p, q) ==
    /\ p.op = q.op /\ p.at = q.at /\ p.call = q.call /\ p.token = q.token
    /\ (p.again <=> q.again) /\ p.hits = q.hits /\ p.result = q.result
    /\ (p.spoiled <=> q.spoiled) /\ p.undo = q.undo /\ p.there = q.there
    /\ (p.shrunk <=> q.shrunk)

\* A reply leaves the accounts further on, and its request with one more call made.
Sound(q, x) ==
    /\ x.account \in [Ids -> Users] /\ Evolves(account, x.account)
    /\ x.q \in Requests /\ SameCall(x.q, q)
    /\ Under(x.account, x.q)
    /\ x.ok => /\ Undoing(x.q) => ~x.account[x.q.id].live
               /\ ~Undoing(x.q) => Reached(x.account, x.q, x.q.at)

LEMMA OneLater ==
  ASSUME account \in [Ids -> Users], NEW i \in Ids, NEW u \in Users, Later(account[i], u)
  PROVE  LET b == [account EXCEPT ![i] = u]
         IN /\ b \in [Ids -> Users] /\ Evolves(account, b) /\ b[i] = u
            /\ \A j \in Ids \ {i} : b[j] = account[j]
<1> DEFINE b == [account EXCEPT ![i] = u]
<1>1. \A j \in Ids : b[j] = IF j = i THEN u ELSE account[j]
  OBVIOUS
<1>2. \A j \in Ids : Later(account[j], account[j])
  BY StillEvolves DEF Evolves
<1> QED BY <1>1, <1>2 DEF Evolves

LEMMA RefusalSound ==
  ASSUME account \in [Ids -> Users], NEW q \in Requests, Under(account, q)
  PROVE  Sound(q, Refusal(q))
BY StillEvolves DEF Sound, Refusal, Reply, SameCall, Requests

LEMMA DoneSound ==
  ASSUME account \in [Ids -> Users], NEW q \in Requests, Under(account, q), ~Undoing(q),
         Reached(account, q, q.at)
  PROVE  Sound(q, Done(q))
BY StillEvolves DEF Sound, Done, Reply, SameCall, Requests

\* A call that changes the account of its user and nothing else.
LEMMA WriteSound ==
  ASSUME account \in [Ids -> Users], account[Old].email # "none",
         NEW q \in Requests, Under(account, q), q.id \in Ids,
         NEW u \in Users, Later(account[q.id], u),
         Undoing(q) => ~u.live,
         NEW b, b = [account EXCEPT ![q.id] = u],
         ~Undoing(q) => Reached(b, q, q.at)
  PROVE  Sound(q, Reply(b, q, TRUE))
<1>1. b \in [Ids -> Users] /\ Evolves(account, b) /\ b[q.id] = u
  BY OneLater
<1>2. SameCourse(q, q) /\ SameCall(q, q)
  BY DEF SameCourse, SameCall, Requests
<1>3. Under(b, q)
  BY <1>1, <1>2, UnderKept
<1> QED BY <1>1, <1>2, <1>3 DEF Sound, Reply

LEMMA Creates ==
  ASSUME RealmTypeOK, NEW q \in Requests, Under(account, q), ~Undoing(q), Step(q) = "create",
         NEW x \in Creation(q)
  PROVE  Sound(q, x)
<1>1. CASE x = Refusal(q)
  BY <1>1, RefusalSound DEF RealmTypeOK
<1>2. CASE x # Refusal(q)
  <2>1. PICK i \in {j \in Ids : account[j] = NoAccount} :
          x = Reply([account EXCEPT ![i] = Fresh(q.op)], [q EXCEPT !.id = i], TRUE)
    BY <1>2 DEF Creation
  <2> DEFINE b == [account EXCEPT ![i] = Fresh(q.op)]
             n == [q EXCEPT !.id = i]
  <2>2. Fresh(q.op) \in Users /\ Fresh(q.op).email # "none" /\ account[i].email = "none"
    BY <2>1, FreshTyped DEF NoAccount
  <2>3. b \in [Ids -> Users] /\ Evolves(account, b) /\ b[i] = Fresh(q.op)
    <3>1. account \in [Ids -> Users] /\ i \in Ids /\ Later(account[i], Fresh(q.op))
      BY <2>2 DEF RealmTypeOK, Later
    <3> QED BY <2>2, <3>1, OneLater
  <2>4. n \in Requests /\ SameCall(n, q) /\ n.id = i /\ (n.more <=> q.more)
    BY DEF Requests, SameCall
  <2>5. x.account = b /\ x.q = n
    BY <2>1 DEF Reply
  <2> HIDE DEF b, n
  <2>6. i \in Ids /\ i # Nil
    BY NatFacts
  <2>7. (q.op = "invite" /\ q.at = 2) \/ (q.op = "password" /\ q.at = 1)
    BY StepTable DEF Under
  <2>8. Reached(b, n, n.at - 1) /\ Reached(b, n, n.at)
    BY <2>4, <2>6, <2>7 DEF Reached, SameCall, Patches
  <2>9. Under(b, n)
    BY <2>2, <2>3, <2>4, <2>6, <2>7, <2>8 DEF Under, SameCall, Undoing, Patches
  <2> QED BY <2>3, <2>4, <2>5, <2>8, <2>9 DEF Sound, SameCall, Undoing
<1> QED BY <1>1, <1>2

LEMMA Reads ==
  ASSUME RealmTypeOK, NEW q \in Requests, Under(account, q), ~Undoing(q),
         Step(q) = "get", NEW x \in Reading(q)
  PROVE  Sound(q, x)
<1>1. CASE x = Refusal(q)
  BY <1>1, RefusalSound DEF RealmTypeOK
<1>2. CASE x # Refusal(q)
  <2> DEFINE n == [q EXCEPT !.seen = account[q.id]]
  <2>1. x = Done(n)
    BY <1>2 DEF Reading
  <2>2. q.op \in Patches \cup {"resend"} /\ q.at = 1 /\ q.id = Old
    BY StepTable DEF Under
  <2>3. account[Old] \in Users
    BY RealmAssumption DEF RealmAssumption, RealmTypeOK
  <2>4. /\ n \in Requests /\ SameCall(n, q) /\ n.id = q.id /\ n.seen = account[Old]
        /\ (n.more <=> q.more)
    BY <2>2, <2>3 DEF Requests, SameCall
  <2> HIDE DEF n
  <2>5. Current(account, n.seen)
    BY <2>3, <2>4 DEF Current, Users
  <2>6. Reached(account, n, n.at - 1) /\ Reached(account, n, n.at)
    BY <2>2, <2>4, <2>5 DEF Reached, SameCall, Patches
  <2>7. Under(account, n)
    BY <2>4, <2>6 DEF Under, SameCall, Undoing
  <2>8. account \in [Ids -> Users] /\ Evolves(account, account)
    BY StillEvolves DEF RealmTypeOK
  <2> QED BY <2>1, <2>4, <2>6, <2>7, <2>8 DEF Sound, Done, Reply, SameCall, Undoing
<1> QED BY <1>1, <1>2

LEMMA PageReplies ==
  ASSUME NEW q \in Requests, NEW x \in Paging(q)
  PROVE  /\ x.account = account /\ x.q \in Requests /\ x.ok
         /\ SameCall(x.q, q) /\ x.q.id = q.id
         /\ x.q.out = q.out \cup Page(q) /\ x.q.first = q.first + PageSize
         /\ x.q.more <=> Cardinality(Page(q)) = PageSize /\ q.first + PageSize < HardCap
<1> DEFINE full == Cardinality(Page(q)) = PageSize /\ q.first + PageSize < HardCap
           out == q.out \cup Page(q)
           first == q.first + PageSize
<1>1. PICK more \in BOOLEAN : more = full
  BY full \in BOOLEAN
<1> DEFINE n == [q EXCEPT !.out = out, !.first = first, !.more = more]
<1>2. x = Done(n)
  BY Zenon, <1>1 DEF Paging
<1>3. x.account = account /\ x.q = n /\ x.ok
  BY <1>2 DEF Done, Reply
<1>4. out \in SUBSET Ids /\ first \in Nat
  BY RealmAssumption DEF RealmAssumption, Requests, Page, Live
<1> HIDE DEF out, first, full
<1>5. n \in Requests /\ n.out = out /\ n.first = first /\ (n.more <=> more)
  BY <1>4 DEF Requests
<1>6. SameCall(n, q) /\ n.id = q.id
  BY DEF Requests, SameCall
<1> QED BY <1>1, <1>3, <1>5, <1>6 DEF out, first, full

LEMMA Pages ==
  ASSUME RealmTypeOK, NEW q \in Requests, Under(account, q), ~Undoing(q), q.op = "list",
         NEW x \in Paging(q)
  PROVE  Sound(q, x)
<1>1. /\ x.account = account /\ x.q \in Requests /\ x.ok /\ SameCall(x.q, q) /\ x.q.id = q.id
  BY PageReplies
<1>2. Reached(account, x.q, x.q.at - 1) /\ Reached(account, x.q, x.q.at)
  BY <1>1 DEF Reached, SameCall, Patches
<1>3. Under(account, x.q)
  BY <1>1, <1>2 DEF Under, SameCall, Undoing, Patches
<1>4. account \in [Ids -> Users] /\ Evolves(account, account)
  BY StillEvolves DEF RealmTypeOK
<1> QED BY <1>1, <1>2, <1>3, <1>4 DEF Sound, SameCall, Undoing

\* What the calls that write an account make of it.
LEMMA Writes ==
  ASSUME RealmTypeOK, NEW q \in Requests, Under(account, q), q.id \in Ids
  PROVE  /\ Step(q) = "grant" => Later(account[q.id], [account[q.id] EXCEPT !.granted = TRUE])
         /\ Later(account[q.id], [account[q.id] EXCEPT !.secret = TRUE])
         /\ Later(account[q.id], [account[q.id] EXCEPT !.mailed = TRUE])
         /\ Later(account[q.id], [account[q.id] EXCEPT !.live = FALSE])
         /\ Later(account[q.id], Merged(q)) /\ Merged(q) \in Users
         /\ Merged(q).version = account[q.id].version + 1
<1>1. account[q.id] \in Users /\ q.seen \in Users
  BY DEF RealmTypeOK, Requests
<1>2. account[q.id].version \in Nat
  BY <1>1 DEF Users
<1>3. (q.seen.enabled /\ q.op # "disable") \in BOOLEAN
  OBVIOUS
<1>4. (IF q.op = "rename" THEN "new" ELSE q.seen.name) \in {"none", "given", "new"}
  BY <1>1 DEF Users
<1> DEFINE name == IF q.op = "rename" THEN "new" ELSE q.seen.name
           version == account[q.id].version + 1
<1>5. PICK enabled \in BOOLEAN : enabled = (q.seen.enabled /\ q.op # "disable")
  BY <1>3
<1>6. Merged(q) = [account[q.id] EXCEPT !.enabled = enabled, !.version = @ + 1, !.name = name]
  BY Zenon, <1>5 DEF Merged
<1>7. Merged(q) = [account[q.id] EXCEPT !.enabled = enabled, !.version = version, !.name = name]
  BY <1>6
<1>8. version \in Nat /\ name \in {"none", "given", "new"}
  BY <1>2, <1>4
<1> HIDE DEF name, version
<1>9. /\ Merged(q) \in Users /\ Merged(q).version = account[q.id].version + 1
      /\ Merged(q).email = account[q.id].email /\ (Merged(q).live <=> account[q.id].live)
      /\ (Merged(q).granted <=> account[q.id].granted)
      /\ (Merged(q).mailed <=> account[q.id].mailed)
      /\ (Merged(q).secret <=> account[q.id].secret)
  <2>1. Merged(q) \in Users /\ Merged(q).version = version
    BY <1>1, <1>7, <1>8 DEF Users
  <2>2. /\ Merged(q).email = account[q.id].email /\ (Merged(q).live <=> account[q.id].live)
        /\ (Merged(q).granted <=> account[q.id].granted)
        /\ (Merged(q).mailed <=> account[q.id].mailed)
        /\ (Merged(q).secret <=> account[q.id].secret)
    BY <1>1, <1>7 DEF Users
  <2> QED BY <2>1, <2>2 DEF version
<1>10. Later(account[q.id], Merged(q))
  BY <1>2, <1>9 DEF Later
<1> QED BY <1>1, <1>2, <1>9, <1>10 DEF Later, Users

LEMMA ReplySound ==
  ASSUME RealmTypeOK, account[Old].email # "none",
         NEW q \in Requests, Under(account, q), NEW x \in Replies(q)
  PROVE  Sound(q, x)
<1>1. CASE x = Refusal(q)
  BY <1>1, RefusalSound DEF RealmTypeOK
<1> SUFFICES ASSUME x # Refusal(q) PROVE Sound(q, x)
  BY <1>1
<1> DEFINE user == account[q.id]
<1>2. q.id # Nil => q.id \in Ids /\ user \in Users
  BY DEF RealmTypeOK, Requests
<1>3. account \in [Ids -> Users]
  BY DEF RealmTypeOK
<1>4. CASE Undoing(q)
  <2>1. Step(q) = "undo" /\ q.id \in Ids /\ user \in Users
    BY <1>2, <1>4 DEF Step, Under
  <2> DEFINE u == [user EXCEPT !.live = FALSE]
             b == [account EXCEPT ![q.id] = u]
  <2>2. x = Reply(b, q, TRUE)
    BY <2>1 DEF Replies, OnUser
  <2>3. u \in Users /\ ~u.live /\ Later(user, u)
    BY <2>1, Writes DEF Users
  <2> HIDE DEF u
  <2>4. Sound(q, Reply(b, q, TRUE))
    BY <1>3, <1>4, <2>1, <2>3, WriteSound
  <2> QED BY <2>2, <2>4
<1>5. CASE ~Undoing(q) /\ Step(q) = "roles"
  <2>1. x = Done(q)
    BY <1>5 DEF Replies
  <2>2. Reached(account, q, q.at)
    BY <1>5, StepTable DEF Under, Reached, Patches
  <2> QED BY <1>3, <1>5, <2>1, <2>2, DoneSound
<1>6. CASE ~Undoing(q) /\ Step(q) = "create"
  <2>1. x \in Creation(q)
    BY <1>6 DEF Replies
  <2> QED BY <1>6, <2>1, Creates
<1>7. CASE ~Undoing(q) /\ Step(q) = "grant"
  <2>1. /\ (q.op = "invite" /\ q.at = 3) \/ (q.op = "password" /\ q.at = 4)
        /\ q.id \in Ids /\ user \in Users
    BY <1>2, <1>7, StepTable DEF Under, Reached
  <2> DEFINE u == [user EXCEPT !.granted = TRUE]
             b == [account EXCEPT ![q.id] = u]
  <2>2. x = Reply(b, q, TRUE)
    BY <1>7 DEF Replies, OnUser
  <2>3. u \in Users /\ u.granted /\ (u.secret <=> user.secret) /\ Later(user, u)
    BY <1>7, <2>1, Writes DEF Users
  <2>4. b[q.id] = u
    BY <1>3, <2>1
  <2>5. b = [account EXCEPT ![q.id] = u]
    OBVIOUS
  <2> HIDE DEF u, b
  <2>6. Reached(b, q, q.at)
    BY <2>1, <2>3, <2>4 DEF Reached, Under, Patches
  <2>7. Sound(q, Reply(b, q, TRUE))
    BY <1>3, <1>7, <2>1, <2>3, <2>5, <2>6, WriteSound
  <2> QED BY <2>2, <2>7
<1>8. CASE ~Undoing(q) /\ Step(q) = "secret"
  <2>1. q.op = "password" /\ q.at = 2 /\ q.id \in Ids /\ user \in Users
    BY <1>2, <1>8, StepTable DEF Under, Reached
  <2> DEFINE u == [user EXCEPT !.secret = TRUE]
             b == [account EXCEPT ![q.id] = u]
  <2>2. x = Reply(b, q, TRUE)
    BY <1>8 DEF Replies, OnUser
  <2>3. u \in Users /\ u.secret /\ Later(user, u)
    BY <2>1, Writes DEF Users
  <2>4. b[q.id] = u
    BY <1>3, <2>1
  <2>5. b = [account EXCEPT ![q.id] = u]
    OBVIOUS
  <2> HIDE DEF u, b
  <2>6. Reached(b, q, q.at)
    BY <2>1, <2>3, <2>4, NatFacts DEF Reached, Patches
  <2>7. Sound(q, Reply(b, q, TRUE))
    BY <1>3, <1>8, <2>1, <2>3, <2>5, <2>6, WriteSound
  <2> QED BY <2>2, <2>7
<1>9. CASE ~Undoing(q) /\ Step(q) = "mail"
  <2>1. /\ (q.op = "invite" /\ q.at = 4) \/ (q.op = "resend" /\ q.at = 2)
        /\ q.id \in Ids /\ user \in Users
    <3>1. (q.op = "invite" /\ q.at = 4) \/ (q.op = "resend" /\ q.at = 2)
      BY <1>9, StepTable DEF Under
    <3>2. q.id # Nil
      BY <3>1, NatFacts, RealmAssumption DEF Under, Reached, RealmAssumption
    <3> QED BY <1>2, <3>1, <3>2
  <2> DEFINE u == [user EXCEPT !.mailed = TRUE]
             b == [account EXCEPT ![q.id] = u]
  <2>2. x = Reply(b, q, TRUE)
    BY <1>9 DEF Replies, OnUser
  <2>3. u \in Users /\ u.mailed /\ (u.granted <=> user.granted) /\ Later(user, u)
    BY <2>1, Writes DEF Users
  <2>4. b[q.id] = u
    BY <1>3, <2>1
  <2>5. b = [account EXCEPT ![q.id] = u]
    OBVIOUS
  <2> HIDE DEF u, b
  <2>6. Reached(b, q, q.at)
    BY <2>1, <2>3, <2>4 DEF Reached, Under, Patches
  <2>7. Sound(q, Reply(b, q, TRUE))
    BY <1>3, <1>9, <2>1, <2>3, <2>5, <2>6, WriteSound
  <2> QED BY <2>2, <2>7
<1>10. CASE ~Undoing(q) /\ Step(q) = "get"
  <2>1. x \in Reading(q)
    BY <1>10 DEF Replies, OnUser
  <2> QED BY <1>10, <2>1, Reads
<1>11. CASE ~Undoing(q) /\ Step(q) = "put"
  <2>1. q.op \in Patches /\ q.at = 2 /\ q.id = Old /\ Old \in Ids
    BY <1>11, StepTable, RealmAssumption DEF Under, RealmAssumption
  <2> DEFINE b == [account EXCEPT ![q.id] = Merged(q)]
  <2>2. x = Reply(b, q, TRUE)
    BY <1>11 DEF Replies, OnUser
  <2>3. /\ Merged(q) \in Users /\ Later(account[q.id], Merged(q))
        /\ Merged(q).version = account[q.id].version + 1
    BY <2>1, Writes
  <2>4. b[q.id] = Merged(q) /\ b = [account EXCEPT ![q.id] = Merged(q)]
    BY <1>3, <2>1
  <2> HIDE DEF b
  <2>5. Current(b, q.seen)
    <3>1. Reached(account, q, 1)
      BY <2>1 DEF Under
    <3>2. q.seen.version <= account[Old].version
      BY <2>1, <3>1 DEF Reached, Current
    <3>3. q.seen.version \in Nat /\ account[Old].version \in Nat
      BY <1>3, <2>1 DEF Requests, Users
    <3> QED BY <2>1, <2>3, <2>4, <3>2, <3>3 DEF Current
  <2>6. Reached(b, q, q.at)
    BY <2>1, <2>5 DEF Reached, Patches
  <2>7. Sound(q, Reply(b, q, TRUE))
    BY <1>3, <1>11, <2>1, <2>3, <2>4, <2>6, WriteSound
  <2> QED BY <2>2, <2>7
<1>12. CASE ~Undoing(q) /\ Step(q) = "reread"
  <2>1. x = Done(q)
    BY <1>12 DEF Replies, OnUser
  <2>2. Reached(account, q, q.at)
    BY <1>12, StepTable DEF Under, Reached, Patches, Provisioning
  <2> QED BY <1>3, <1>12, <2>1, <2>2, DoneSound
<1>13. CASE ~Undoing(q) /\ Step(q) = "page"
  <2>1. x \in Paging(q) /\ q.op = "list"
    BY <1>13, StepTable DEF Replies, Under
  <2> QED BY <1>13, <2>1, Pages
<1>14. CASE ~Undoing(q) /\ Step(q) = "delete"
  <2>1. q.op = "delete" /\ q.at = 1 /\ q.id \in Ids /\ user \in Users
    BY <1>2, <1>14, StepTable, RealmAssumption DEF Under, RealmAssumption, RealmTypeOK
  <2> DEFINE u == [user EXCEPT !.live = FALSE]
             b == [account EXCEPT ![q.id] = u]
  <2>2. x = Reply(b, q, TRUE)
    BY <1>14 DEF Replies, OnUser
  <2>3. u \in Users /\ Later(user, u)
    BY <2>1, Writes DEF Users
  <2>5. b = [account EXCEPT ![q.id] = u]
    OBVIOUS
  <2> HIDE DEF u, b
  <2>6. Reached(b, q, q.at)
    BY <2>1 DEF Reached, Patches
  <2>7. Sound(q, Reply(b, q, TRUE))
    BY <1>3, <1>14, <2>1, <2>3, <2>5, <2>6, WriteSound
  <2> QED BY <2>2, <2>7
<1> QED
  BY <1>4, <1>5, <1>6, <1>7, <1>8, <1>9, <1>10, <1>11, <1>12, <1>13, <1>14, StepTable DEF Under

-----------------------------------------------------------------------------
(* Types and progress are inductive. *)

ProgressInv ==
    /\ RealmTypeOK
    /\ account[Old].email # "none"
    /\ \A r \in Reqs : Progressing(account, req[r])

LEMMA ProgressKept ==
  ASSUME NEW a \in [Ids -> Users], NEW b \in [Ids -> Users], Evolves(a, b), a[Old].email # "none",
         NEW p \in Requests, NEW q \in Requests, SameCourse(p, q), p.call = q.call,
         p.hits = q.hits, Progressing(a, q)
  PROVE  Progressing(b, p)
<1>1. CASE q.call = "answered"
  <2>1. Over(b, q)
    BY <1>1, OverKept DEF Progressing
  <2> QED BY <1>1, <2>1 DEF Progressing, Over, SameCourse, Busy
<1>2. CASE Busy(q)
  <2>1. Under(b, p)
    BY <1>2, UnderKept DEF Progressing
  <2> QED BY <1>2, <2>1 DEF Progressing, Busy
<1>3. CASE q.call = "idle"
  BY <1>3 DEF Progressing, Busy
<1> QED BY <1>1, <1>2, <1>3 DEF Busy

LEMMA OldStays ==
  ASSUME NEW a \in [Ids -> Users], NEW b \in [Ids -> Users], Evolves(a, b), a[Old].email # "none"
  PROVE  b[Old].email # "none"
BY RealmAssumption DEF RealmAssumption, Evolves, Later

\* A step that moves only the calls on.
LEMMA CallsInd ==
  ASSUME ProgressInv, NEW r \in Reqs,
         account' = account, req' \in [Reqs -> Requests],
         \A p \in Reqs \ {r} : SameCourse(req'[p], req[p]) /\ req'[p].call = req[p].call
                               /\ req'[p].hits = req[p].hits,
         Progressing(account, req'[r]),
         cached' \in Tokens \cup {Nil}, epoch' \in Tokens, troubles' \in Nat
  PROVE  ProgressInv'
<1>1. RealmTypeOK'
  BY DEF ProgressInv, RealmTypeOK
<1>2. ASSUME NEW p \in Reqs PROVE Progressing(account, req'[p])
  <2>1. CASE p = r
    BY <2>1
  <2>2. CASE p # r
    <3>1. Evolves(account, account) /\ account \in [Ids -> Users]
      BY StillEvolves DEF ProgressInv, RealmTypeOK
    <3>2. req[p] \in Requests /\ req'[p] \in Requests
      BY DEF ProgressInv, RealmTypeOK
    <3> QED BY <2>2, <3>1, <3>2, ProgressKept DEF ProgressInv
  <2> QED BY <2>1, <2>2
<1> QED BY <1>1, <1>2 DEF ProgressInv

\* What another request's commit leaves of q: all, but that a listing may have lost a user.
Aside(p, q) ==
    /\ SameCourse(p, q) /\ p.call = q.call /\ p.hits = q.hits /\ p.token = q.token
    /\ (p.again <=> q.again) /\ (p.spoiled <=> q.spoiled)
    /\ p.first = q.first /\ p.out = q.out /\ p.there = q.there
    /\ q.shrunk => p.shrunk

LEMMA NotedAside ==
  ASSUME NEW q \in Requests, NEW p, p = [q EXCEPT !.shrunk = TRUE]
  PROVE  p \in Requests /\ p.shrunk /\ Aside(p, q)
<1>1. p \in Requests /\ p.shrunk
  BY DEF Requests
<1>2. SameCourse(p, q)
  BY DEF Requests, SameCourse
<1>3. /\ p.call = q.call /\ p.hits = q.hits /\ p.token = q.token
      /\ (p.again <=> q.again) /\ (p.spoiled <=> q.spoiled)
      /\ p.first = q.first /\ p.out = q.out /\ p.there = q.there
  BY DEF Requests
<1> QED BY <1>1, <1>2, <1>3 DEF Aside

LEMMA CommitMeans ==
  ASSUME RealmTypeOK, NEW r \in Reqs, NEW users \in [Ids -> Users], NEW q \in Requests,
         Commit(r, users, q)
  PROVE  /\ account' = users
         /\ req' \in [Reqs -> Requests] /\ req'[r] = q
         /\ \A p \in Reqs \ {r} :
              /\ Aside(req'[p], req[p])
              /\ req[p].op = "list" /\ ~req'[p].shrunk => Live(account) \subseteq Live(users)
              /\ req[p].op # "list" => req'[p] = req[p]
<1>1. req'[r] = q /\ account' = users
  BY DEF Commit
<1>2. ASSUME NEW p \in Reqs \ {r}
      PROVE  /\ req'[p] \in Requests /\ Aside(req'[p], req[p])
             /\ req[p].op = "list" /\ ~req'[p].shrunk => Live(account) \subseteq Live(users)
             /\ req[p].op # "list" => req'[p] = req[p]
  <2>1. req[p] \in Requests
    BY DEF RealmTypeOK
  <2>2. CASE req[p].op = "list" /\ Live(users) # Live(account) \cup Live(users)
    <3>1. req'[p] = [req[p] EXCEPT !.shrunk = TRUE]
      BY <2>2 DEF Commit
    <3> QED BY <2>1, <2>2, <3>1, NotedAside
  <2>3. CASE ~(req[p].op = "list" /\ Live(users) # Live(account) \cup Live(users))
    <3>1. req'[p] = req[p]
      BY <2>3 DEF Commit
    <3>2. Aside(req[p], req[p])
      BY DEF Aside, SameCourse
    <3> QED BY <2>1, <2>3, <3>1, <3>2
  <2> QED BY <2>2, <2>3
<1>3. DOMAIN req' = Reqs /\ req' = [p \in Reqs |-> req'[p]]
  BY DEF Commit
<1>4. \A p \in Reqs : req'[p] \in Requests
  BY <1>1, <1>2
<1>5. req' \in [Reqs -> Requests]
  BY <1>3, <1>4
<1> QED BY <1>1, <1>2, <1>5

\* A step that commits.
LEMMA CommitInd ==
  ASSUME ProgressInv, NEW r \in Reqs, NEW users \in [Ids -> Users], NEW q \in Requests,
         Commit(r, users, q), Evolves(account, users), Progressing(users, q),
         cached' \in Tokens \cup {Nil}, epoch' \in Tokens, troubles' \in Nat
  PROVE  ProgressInv'
<1>1. RealmTypeOK
  BY DEF ProgressInv
<1>2. /\ account' = users /\ req' \in [Reqs -> Requests] /\ req'[r] = q
      /\ \A p \in Reqs \ {r} : SameCourse(req'[p], req[p]) /\ req'[p].call = req[p].call
                               /\ req'[p].hits = req[p].hits
  BY <1>1, CommitMeans DEF Aside
<1>3. RealmTypeOK'
  BY <1>1, <1>2 DEF RealmTypeOK
<1>4. account \in [Ids -> Users] /\ account[Old].email # "none"
  BY DEF ProgressInv, RealmTypeOK
<1>5. ASSUME NEW p \in Reqs PROVE Progressing(users, req'[p])
  <2>1. CASE p = r
    BY <1>2, <2>1
  <2>2. CASE p # r
    <3>1. req[p] \in Requests /\ req'[p] \in Requests /\ Progressing(account, req[p])
      BY <1>2 DEF ProgressInv, RealmTypeOK
    <3> QED BY <1>2, <1>4, <2>2, <3>1, ProgressKept
  <2> QED BY <2>1, <2>2
<1>6. users[Old].email # "none"
  BY <1>4, OldStays
<1> QED BY <1>2, <1>3, <1>5, <1>6 DEF ProgressInv

LEMMA Carries ==
  ASSUME ProgressInv, NEW p \in Requests, NEW q \in Requests, SameCourse(p, q), p.hits = q.hits,
         Busy(p), Busy(q), Progressing(account, q)
  PROVE  Progressing(account, p)
<1>1. account \in [Ids -> Users] /\ Evolves(account, account) /\ account[Old].email # "none"
  BY StillEvolves DEF ProgressInv, RealmTypeOK
<1>2. Under(account, p)
  BY <1>1, UnderKept DEF Progressing
<1> QED BY <1>2 DEF Progressing, Busy

LEMMA NothingTyped ==
  /\ Nothing \in Requests /\ Nothing.call = "idle" /\ Nothing.hits = 0 /\ Nothing.op = "none"
  /\ Nothing.token = Nil /\ ~Nothing.again /\ Nothing.result = "none"
BY NoAccountTyped DEF Nothing, Requests

LEMMA OpeningFields ==
  ASSUME RealmTypeOK, NEW op \in Ops
  PROVE  LET q == Opening(op)
         IN /\ q \in Requests /\ q.op = op /\ q.at = 1 /\ q.result = "none" /\ q.undo = "no"
            /\ ~q.more /\ q.there = (IF op = "list" THEN Live(account) ELSE {}) /\ q.first = 0
            /\ ~q.shrunk
            /\ q.id = IF op \in Provisioning \cup {"list"} THEN Nil ELSE Old
<1> DEFINE there == IF op = "list" THEN Live(account) ELSE {}
           id == IF op \in Provisioning \cup {"list"} THEN Nil ELSE Old
<1>1. there \in SUBSET Ids /\ id \in Ids \cup {Nil} /\ op \in Operations
  BY RealmAssumption DEF Live, RealmAssumption
<1>2. Opening(op) = [Nothing EXCEPT !.op = op, !.at = 1, !.there = there, !.id = id]
  BY DEF Opening
<1> HIDE DEF there, id
<1>3. Nothing \in Requests
  BY NothingTyped
<1>4. [Nothing EXCEPT !.op = op, !.at = 1] \in Requests
  BY <1>1, <1>3 DEF Requests
<1>5. [[Nothing EXCEPT !.op = op, !.at = 1] EXCEPT !.there = there, !.id = id] \in Requests
  BY <1>1, <1>4 DEF Requests
<1>6. Opening(op) \in Requests
  BY <1>2, <1>5
<1>7. Opening(op).there = there /\ Opening(op).id = id
  BY <1>2, <1>3 DEF Requests
<1>8. LET q == Opening(op)
      IN /\ q.op = op /\ q.at = 1 /\ q.result = "none" /\ q.undo = "no" /\ ~q.more /\ q.first = 0
         /\ ~q.shrunk
  BY <1>2 DEF Nothing
<1> QED BY <1>6, <1>7, <1>8 DEF there, id

LEMMA BeginInd ==
  ASSUME ProgressInv, NEW r \in Reqs, Begin(r)
  PROVE  ProgressInv'
<1>1. PICK op \in Ops : req' = [req EXCEPT ![r] = Calling(Opening(op))]
  BY DEF Begin
<1>2. PICK q \in Requests : q = Opening(op)
  BY OpeningFields DEF ProgressInv
<1>3. /\ q.op = op /\ q.at = 1 /\ q.result = "none" /\ q.undo = "no" /\ ~q.more
      /\ q.id = IF op \in Provisioning \cup {"list"} THEN Nil ELSE Old
  BY <1>2, OpeningFields DEF ProgressInv
<1>4. /\ Calling(q) \in Requests /\ Calling(q).op = op /\ Calling(q).at = 1
      /\ Calling(q).result = "none" /\ Calling(q).undo = "no" /\ ~Calling(q).more
      /\ Calling(q).id = IF op \in Provisioning \cup {"list"} THEN Nil ELSE Old
      /\ Calling(q).call = "load" /\ Calling(q).hits = 0
  BY <1>3, CallingFields
<1>5. op \in Operations /\ 1 \in 1 .. Len(Program(op))
  <2>1. op \in Operations
    BY RealmAssumption DEF RealmAssumption
  <2>2. Len(Program(op)) \in {1, 3, 5}
    BY <2>1, Lengths DEF Operations, Provisioning, Patches
  <2> QED BY <2>1, <2>2
<1>6. Reached(account, Calling(q), 0)
  BY DEF Reached
<1>7. Under(account, Calling(q))
  BY <1>4, <1>5, <1>6 DEF Under, Undoing, Provisioning, Patches, ProgressInv
<1>8. Progressing(account, Calling(q))
  BY <1>4, <1>7 DEF Progressing, Busy
<1>9. /\ req' \in [Reqs -> Requests] /\ req'[r] = Calling(q)
      /\ \A p \in Reqs \ {r} : req'[p] = req[p]
  BY <1>1, <1>2, <1>4 DEF ProgressInv, RealmTypeOK
<1>10. /\ account' = account /\ cached' \in Tokens \cup {Nil} /\ epoch' \in Tokens
       /\ troubles' \in Nat
  BY DEF Begin, ProgressInv, RealmTypeOK
<1> QED BY <1>8, <1>9, <1>10, CallsInd DEF SameCourse

\* n is q with another token in hand, or about to be.
OnlyToken(n, q) ==
    n \in Requests /\ SameCourse(n, q) /\ SameListing(n, q) /\ n.hits = q.hits

With(q, token, call) == [q EXCEPT !.token = token, !.call = call]

LEMMA Tokened ==
  ASSUME NEW q \in Requests, NEW call \in {"mint", "store", "send"},
         NEW token \in Tokens \cup {Nil}
  PROVE  LET n == With(q, token, call)
         IN /\ OnlyToken(n, q) /\ n.call = call /\ n.token = token
            /\ (n.again <=> q.again) /\ (n.spoiled <=> q.spoiled)
<1>1. PICK n : n = With(q, token, call)
  OBVIOUS
<1>2. n \in Requests
  BY <1>1 DEF Requests, With
<1>3. SameCourse(n, q) /\ SameListing(n, q) /\ n.hits = q.hits
  BY <1>1 DEF Requests, SameCourse, SameListing, With
<1>4. n.call = call /\ n.token = token /\ (n.again <=> q.again) /\ (n.spoiled <=> q.spoiled)
  BY <1>1 DEF Requests, With
<1> QED BY <1>1, <1>2, <1>3, <1>4 DEF OnlyToken

LEMMA Called ==
  ASSUME NEW q \in Requests, NEW call \in {"send", "refused"}, NEW n, n = [q EXCEPT !.call = call]
  PROVE  OnlyToken(n, q) /\ n.call = call /\ n.token = q.token /\ (n.again <=> q.again)
         /\ (n.spoiled <=> q.spoiled)
<1>1. n \in Requests
  BY DEF Requests
<1>2. SameCourse(n, q) /\ SameListing(n, q) /\ n.hits = q.hits
  BY DEF Requests, SameCourse, SameListing
<1>3. n.call = call /\ n.token = q.token /\ (n.again <=> q.again) /\ (n.spoiled <=> q.spoiled)
  BY DEF Requests
<1> QED BY <1>1, <1>2, <1>3 DEF OnlyToken

LEMMA Retried ==
  ASSUME NEW q \in Requests, NEW n, n = [q EXCEPT !.again = TRUE, !.call = "load", !.token = Nil]
  PROVE  OnlyToken(n, q) /\ n.call = "load" /\ n.token = Nil /\ n.again
         /\ (n.spoiled <=> q.spoiled)
<1>1. n \in Requests
  BY DEF Requests
<1>2. SameCourse(n, q) /\ SameListing(n, q) /\ n.hits = q.hits
  BY DEF Requests, SameCourse, SameListing
<1>3. n.call = "load" /\ n.token = Nil /\ n.again /\ (n.spoiled <=> q.spoiled)
  BY DEF Requests
<1> QED BY <1>1, <1>2, <1>3 DEF OnlyToken

LEMMA HungUp ==
  ASSUME NEW q \in Requests, NEW n, n = [q EXCEPT !.ctx = FALSE]
  PROVE  OnlyToken(n, q) /\ n.call = q.call /\ n.token = q.token /\ (n.again <=> q.again)
         /\ (n.spoiled <=> q.spoiled)
<1>1. n \in Requests
  BY DEF Requests
<1>2. SameCourse(n, q) /\ SameListing(n, q) /\ n.hits = q.hits
  BY DEF Requests, SameCourse, SameListing
<1>3. n.call = q.call /\ n.token = q.token /\ (n.again <=> q.again) /\ (n.spoiled <=> q.spoiled)
  BY DEF Requests
<1> QED BY <1>1, <1>2, <1>3 DEF OnlyToken

LEMMA Spoiled ==
  ASSUME NEW q \in Requests, NEW n, n = [q EXCEPT !.spoiled = TRUE]
  PROVE  OnlyToken(n, q) /\ n.call = q.call /\ n.token = q.token /\ (n.again <=> q.again)
         /\ n.spoiled
<1>1. n \in Requests
  BY DEF Requests
<1>2. SameCourse(n, q) /\ SameListing(n, q) /\ n.hits = q.hits
  BY DEF Requests, SameCourse, SameListing
<1>3. n.call = q.call /\ n.token = q.token /\ (n.again <=> q.again) /\ n.spoiled
  BY DEF Requests
<1> QED BY <1>1, <1>2, <1>3 DEF OnlyToken

\* What each step on a token does to the requests.
LEMMA LoadMeans ==
  ASSUME RealmTypeOK, NEW r \in Reqs, LoadToken(r)
  PROVE  /\ req' \in [Reqs -> Requests] /\ OnlyToken(req'[r], req[r])
         /\ req'[r].token = cached /\ (req'[r].again <=> req[r].again)
         /\ (req'[r].spoiled <=> req[r].spoiled)
         /\ req'[r].call \in {"mint", "send"}
         /\ req'[r].call = "mint" <=> cached = Nil
         /\ \A p \in Reqs \ {r} : req'[p] = req[p]
<1>1. PICK call \in {"mint", "send"} : call = IF cached = Nil THEN "mint" ELSE "send"
  OBVIOUS
<1>2. req[r] \in Requests /\ cached \in Tokens \cup {Nil}
  BY DEF RealmTypeOK
<1>3. req' = [req EXCEPT ![r] = With(req[r], cached, call)]
  BY <1>1, <1>2 DEF LoadToken, With, Requests, RealmTypeOK
<1>4. PICK n : /\ n = With(req[r], cached, call)
               /\ OnlyToken(n, req[r]) /\ n.call = call /\ n.token = cached
               /\ (n.again <=> req[r].again) /\ (n.spoiled <=> req[r].spoiled)
  BY <1>2, Tokened
<1>5. req' = [req EXCEPT ![r] = n] /\ n \in Requests
  BY <1>3, <1>4 DEF OnlyToken
<1>6. req' \in [Reqs -> Requests] /\ req'[r] = n /\ \A p \in Reqs \ {r} : req'[p] = req[p]
  BY <1>5 DEF RealmTypeOK
<1> QED BY <1>1, <1>4, <1>6

LEMMA MintMeans ==
  ASSUME RealmTypeOK, NEW r \in Reqs, MintToken(r)
  PROVE  /\ req' \in [Reqs -> Requests] /\ OnlyToken(req'[r], req[r])
         /\ req'[r].token = epoch /\ (req'[r].again <=> req[r].again)
         /\ (req'[r].spoiled <=> req[r].spoiled)
         /\ req'[r].call = "store"
         /\ \A p \in Reqs \ {r} : req'[p] = req[p]
<1>1. req[r] \in Requests /\ epoch \in Tokens \cup {Nil}
  BY DEF RealmTypeOK
<1>2. req' = [req EXCEPT ![r] = With(req[r], epoch, "store")]
  BY <1>1 DEF MintToken, With, Requests, RealmTypeOK
<1>3. PICK n : /\ n = With(req[r], epoch, "store")
               /\ OnlyToken(n, req[r]) /\ n.call = "store" /\ n.token = epoch
               /\ (n.again <=> req[r].again) /\ (n.spoiled <=> req[r].spoiled)
  BY <1>1, Tokened
<1>4. req' = [req EXCEPT ![r] = n] /\ n \in Requests
  BY <1>2, <1>3 DEF OnlyToken
<1>5. req' \in [Reqs -> Requests] /\ req'[r] = n /\ \A p \in Reqs \ {r} : req'[p] = req[p]
  BY <1>4 DEF RealmTypeOK
<1> QED BY <1>3, <1>5

LEMMA HangUpMeans ==
  ASSUME RealmTypeOK, NEW r \in Reqs, HangUp(r)
  PROVE  /\ req' \in [Reqs -> Requests] /\ OnlyToken(req'[r], req[r])
         /\ req'[r].token = req[r].token /\ (req'[r].again <=> req[r].again)
         /\ (req'[r].spoiled <=> req[r].spoiled) /\ req'[r].call = req[r].call
         /\ \A p \in Reqs \ {r} : req'[p] = req[p]
<1>2. req[r] \in Requests
  BY DEF RealmTypeOK
<1>3. req' = [req EXCEPT ![r] = [req[r] EXCEPT !.ctx = FALSE]]
  BY <1>2 DEF HangUp
<1>4. PICK n : n = [req[r] EXCEPT !.ctx = FALSE]
  OBVIOUS
<1>5. /\ OnlyToken(n, req[r]) /\ n.call = req[r].call /\ n.token = req[r].token
      /\ (n.again <=> req[r].again) /\ (n.spoiled <=> req[r].spoiled)
  BY <1>2, <1>4, HungUp
<1>6. req' = [req EXCEPT ![r] = n] /\ n \in Requests
  BY <1>3, <1>4, <1>5 DEF OnlyToken
<1>7. req' \in [Reqs -> Requests] /\ req'[r] = n /\ \A p \in Reqs \ {r} : req'[p] = req[p]
  BY <1>6 DEF RealmTypeOK
<1> QED BY <1>5, <1>7

LEMMA StoreMeans ==
  ASSUME RealmTypeOK, NEW r \in Reqs, StoreToken(r)
  PROVE  /\ req' \in [Reqs -> Requests] /\ OnlyToken(req'[r], req[r])
         /\ req'[r].token = req[r].token /\ (req'[r].again <=> req[r].again)
         /\ (req'[r].spoiled <=> req[r].spoiled) /\ req'[r].call = "send"
         /\ \A p \in Reqs \ {r} :
              /\ OnlyToken(req'[p], req[p]) /\ req'[p].call = req[p].call
              /\ req'[p].token = req[p].token /\ (req'[p].again <=> req[p].again)
              /\ req[p].spoiled => req'[p].spoiled
              /\ req[p].again /\ req[p].call = "load" /\ req[r].token # epoch => req'[p].spoiled
<1>1. req'[r] = [req[r] EXCEPT !.call = "send"] /\ req[r] \in Requests
  BY DEF RealmTypeOK, StoreToken
<1>2. PICK n : n = [req[r] EXCEPT !.call = "send"]
  OBVIOUS
<1>3. OnlyToken(n, req[r]) /\ n.call = "send" /\ n.token = req[r].token
      /\ (n.again <=> req[r].again) /\ (n.spoiled <=> req[r].spoiled)
  BY <1>1, <1>2, Called
<1>4. ASSUME NEW p \in Reqs \ {r}
      PROVE  /\ OnlyToken(req'[p], req[p]) /\ req'[p].call = req[p].call
             /\ req'[p].token = req[p].token /\ (req'[p].again <=> req[p].again)
             /\ req[p].spoiled => req'[p].spoiled
             /\ req[p].again /\ req[p].call = "load" /\ req[r].token # epoch => req'[p].spoiled
  <2>1. req[p] \in Requests
    BY DEF RealmTypeOK
  <2>2. CASE req[p].again /\ req[p].call = "load" /\ req[r].token # epoch
    <3>1. req'[p] = [req[p] EXCEPT !.spoiled = TRUE]
      BY <2>2 DEF StoreToken
    <3> QED BY <2>1, <3>1, Spoiled
  <2>3. CASE ~(req[p].again /\ req[p].call = "load" /\ req[r].token # epoch)
    <3>1. req'[p] = req[p]
      BY <2>3 DEF StoreToken
    <3> QED BY <2>1, <2>3, <3>1 DEF OnlyToken, SameCourse, SameListing
  <2> QED BY <2>2, <2>3
<1>5. DOMAIN req' = Reqs /\ req' = [p \in Reqs |-> req'[p]]
  BY DEF StoreToken
<1>6. \A p \in Reqs : req'[p] \in Requests
  BY <1>1, <1>2, <1>3, <1>4 DEF OnlyToken
<1>7. req' \in [Reqs -> Requests]
  BY <1>5, <1>6
<1> QED BY <1>1, <1>2, <1>3, <1>4, <1>7

\* A token in hand moves nothing on.
LEMMA TokenInd ==
  ASSUME ProgressInv, NEW r \in Reqs, account' = account, Busy(req[r]), Busy(req'[r]),
         req' \in [Reqs -> Requests], OnlyToken(req'[r], req[r]),
         \A p \in Reqs \ {r} : OnlyToken(req'[p], req[p]) /\ req'[p].call = req[p].call,
         cached' \in Tokens \cup {Nil}, epoch' \in Tokens, troubles' \in Nat
  PROVE  ProgressInv'
<1>1. Progressing(account, req'[r])
  <2>1. req[r] \in Requests /\ Progressing(account, req[r])
    BY DEF ProgressInv, RealmTypeOK
  <2> QED BY <2>1, Carries DEF OnlyToken
<1> QED BY <1>1, CallsInd DEF OnlyToken

LEMMA Untouched ==
  ASSUME NEW q \in Requests
  PROVE  OnlyToken(q, q)
BY DEF OnlyToken, SameCourse, SameListing

LEMMA LoadInd ==
  ASSUME ProgressInv, NEW r \in Reqs, LoadToken(r)
  PROVE  ProgressInv'
<1>1. RealmTypeOK
  BY DEF ProgressInv
<1>2. /\ req' \in [Reqs -> Requests] /\ OnlyToken(req'[r], req[r])
      /\ req'[r].call \in {"mint", "send"} /\ \A p \in Reqs \ {r} : req'[p] = req[p]
  BY <1>1, LoadMeans
<1>3. \A p \in Reqs : OnlyToken(req[p], req[p])
  BY <1>1, Untouched DEF RealmTypeOK
<1> QED BY <1>1, <1>2, <1>3, TokenInd DEF LoadToken, Busy, RealmTypeOK

LEMMA MintInd ==
  ASSUME ProgressInv, NEW r \in Reqs, MintToken(r)
  PROVE  ProgressInv'
<1>1. RealmTypeOK
  BY DEF ProgressInv
<1>2. /\ req' \in [Reqs -> Requests] /\ OnlyToken(req'[r], req[r])
      /\ req'[r].call = "store" /\ \A p \in Reqs \ {r} : req'[p] = req[p]
  BY <1>1, MintMeans
<1>3. \A p \in Reqs : OnlyToken(req[p], req[p])
  BY <1>1, Untouched DEF RealmTypeOK
<1> QED BY <1>1, <1>2, <1>3, TokenInd DEF MintToken, Busy, RealmTypeOK

LEMMA StoreInd ==
  ASSUME ProgressInv, NEW r \in Reqs, StoreToken(r)
  PROVE  ProgressInv'
<1>1. RealmTypeOK
  BY DEF ProgressInv
<1>2. /\ req' \in [Reqs -> Requests] /\ OnlyToken(req'[r], req[r]) /\ req'[r].call = "send"
      /\ \A p \in Reqs \ {r} : OnlyToken(req'[p], req[p]) /\ req'[p].call = req[p].call
  BY <1>1, StoreMeans
<1>3. cached' \in Tokens \cup {Nil}
  BY <1>1 DEF StoreToken, RealmTypeOK, Requests
<1> QED BY <1>1, <1>2, <1>3, TokenInd DEF StoreToken, Busy, RealmTypeOK

LEMMA HangUpInd ==
  ASSUME ProgressInv, NEW r \in Reqs, HangUp(r)
  PROVE  ProgressInv'
<1>1. RealmTypeOK
  BY DEF ProgressInv
<1>2. /\ req' \in [Reqs -> Requests] /\ OnlyToken(req'[r], req[r])
      /\ req'[r].call = req[r].call /\ \A p \in Reqs \ {r} : req'[p] = req[p]
  BY <1>1, HangUpMeans
<1>3. \A p \in Reqs : OnlyToken(req[p], req[p])
  BY <1>1, Untouched DEF RealmTypeOK
<1>4. troubles' \in Nat
  BY <1>1 DEF HangUp, Trouble, RealmTypeOK
<1> QED BY <1>1, <1>2, <1>3, <1>4, TokenInd DEF HangUp, Busy, RealmTypeOK

LEMMA RetryInd ==
  ASSUME ProgressInv, NEW r \in Reqs, RetryRefused(r)
  PROVE  ProgressInv'
<1>1. RealmTypeOK /\ req[r] \in Requests /\ Progressing(account, req[r]) /\ Busy(req[r])
  BY DEF ProgressInv, RealmTypeOK, RetryRefused, Busy
<1>2. account \in [Ids -> Users] /\ Evolves(account, account)
  BY <1>1, StillEvolves DEF RealmTypeOK
<1>3. PICK q \in Requests : Commit(r, account, q) /\ Progressing(account, q)
  <2>1. CASE req[r].again
    <3>1. Commit(r, account, Failed(req[r], "unauthorized"))
      BY <2>1 DEF RetryRefused
    <3>2. Failed(req[r], "unauthorized") \in Requests
      BY <1>1, FailureFields DEF Progressing, Under, Reasons
    <3>3. Progressing(account, Failed(req[r], "unauthorized"))
      BY <1>1, <1>2, FailureProgress DEF Progressing, Reasons
    <3> QED BY <3>1, <3>2, <3>3
  <2>2. CASE ~req[r].again
    <3>1. PICK n : n = [req[r] EXCEPT !.again = TRUE, !.call = "load", !.token = Nil]
      OBVIOUS
    <3>2. Commit(r, account, n)
      BY <2>2, <3>1 DEF RetryRefused
    <3>3. OnlyToken(n, req[r]) /\ n.call = "load"
      BY <1>1, <3>1, Retried
    <3>4. Progressing(account, n)
      BY <1>1, <3>3, Carries DEF OnlyToken, Busy
    <3> QED BY <3>2, <3>3, <3>4 DEF OnlyToken
  <2> QED BY <2>1, <2>2
<1>4. cached' \in Tokens \cup {Nil} /\ epoch' \in Tokens /\ troubles' \in Nat
  BY <1>1 DEF RetryRefused, RealmTypeOK
<1> QED BY <1>2, <1>3, <1>4, CommitInd

\* The request a reply is asked for.
Sent(q) == [q EXCEPT !.hits = @ + 1]

LEMMA SentFields ==
  ASSUME NEW q \in Requests, q.hits = 0
  PROVE  LET s == Sent(q)
         IN /\ s \in Requests /\ SameCourse(s, q) /\ SameListing(s, q) /\ s.hits = 1
            /\ s.call = q.call /\ s.token = q.token /\ (s.again <=> q.again)
            /\ (s.spoiled <=> q.spoiled)
<1>1. PICK s : s = Sent(q)
  OBVIOUS
<1>2. s \in Requests /\ s.hits = 1
  BY <1>1 DEF Requests, Sent
<1>3. SameCourse(s, q) /\ SameListing(s, q)
  BY <1>1 DEF Requests, SameCourse, SameListing, Sent
<1>4. /\ s.call = q.call /\ s.token = q.token /\ (s.again <=> q.again)
      /\ (s.spoiled <=> q.spoiled)
  BY <1>1 DEF Requests, Sent
<1> QED BY <1>1, <1>2, <1>3, <1>4

LEMMA SentUnder ==
  ASSUME ProgressInv, NEW r \in Reqs, req[r].call = "send"
  PROVE  /\ Sent(req[r]) \in Requests /\ Under(account, Sent(req[r]))
         /\ Sent(req[r]).hits = 1 /\ SameCourse(Sent(req[r]), req[r])
         /\ SameListing(Sent(req[r]), req[r])
         /\ \A x \in Replies(Sent(req[r])) : Sound(Sent(req[r]), x)
<1>1. /\ req[r] \in Requests /\ Under(account, req[r]) /\ req[r].hits = 0
      /\ RealmTypeOK /\ account \in [Ids -> Users] /\ account[Old].email # "none"
      /\ Evolves(account, account)
  BY StillEvolves DEF ProgressInv, RealmTypeOK, Progressing, Busy
<1>2. /\ Sent(req[r]) \in Requests /\ Sent(req[r]).hits = 1
      /\ SameCourse(Sent(req[r]), req[r]) /\ SameListing(Sent(req[r]), req[r])
  BY <1>1, SentFields
<1>3. Under(account, Sent(req[r]))
  BY <1>1, <1>2, UnderKept
<1> QED BY <1>1, <1>2, <1>3, ReplySound

LEMMA SendInd ==
  ASSUME ProgressInv, NEW r \in Reqs, Send(r)
  PROVE  ProgressInv'
<1>1. RealmTypeOK /\ req[r] \in Requests /\ Progressing(account, req[r]) /\ req[r].call = "send"
  BY DEF ProgressInv, RealmTypeOK, Send
<1>2. cached' \in Tokens \cup {Nil} /\ epoch' \in Tokens /\ troubles' \in Nat
  BY <1>1 DEF Send, RealmTypeOK
<1>3. CASE req[r].token # epoch
  <2>1. PICK n : n = [req[r] EXCEPT !.call = "refused"]
    OBVIOUS
  <2>2. Commit(r, account, n)
    BY <1>3, <2>1 DEF Send
  <2>3. OnlyToken(n, req[r]) /\ n.call = "refused"
    BY <1>1, <2>1, Called
  <2>4. Progressing(account, n)
    BY <1>1, <2>3, Carries DEF OnlyToken, Busy
  <2>5. account \in [Ids -> Users] /\ Evolves(account, account)
    BY <1>1, StillEvolves DEF RealmTypeOK
  <2> QED BY <1>2, <2>2, <2>3, <2>4, <2>5, CommitInd DEF OnlyToken
<1>4. CASE req[r].token = epoch
  <2>1. PICK x \in Replies(Sent(req[r])) :
          Commit(r, x.account, IF x.ok THEN Succeeded(x.q) ELSE Failed(x.q, "failed"))
    BY <1>4 DEF Send, Sent
  <2>2. Sound(Sent(req[r]), x) /\ Sent(req[r]).hits = 1
    BY <1>1, SentUnder
  <2>3. /\ x.account \in [Ids -> Users] /\ Evolves(account, x.account)
        /\ x.q \in Requests /\ Under(x.account, x.q) /\ x.q.hits = 1
    BY <2>2 DEF Sound, SameCall
  <2>4. CASE x.ok
    <3>1. Commit(r, x.account, Succeeded(x.q))
      BY <2>1, <2>4
    <3>2. Progressing(x.account, Succeeded(x.q))
      BY <2>2, <2>3, <2>4, SuccessProgress DEF Sound
    <3>3. Succeeded(x.q) \in Requests
      BY <2>3, SuccessFields DEF Under
    <3> QED BY <1>2, <2>3, <3>1, <3>2, <3>3, CommitInd
  <2>5. CASE ~x.ok
    <3>1. Commit(r, x.account, Failed(x.q, "failed"))
      BY <2>1, <2>5
    <3>2. Progressing(x.account, Failed(x.q, "failed"))
      BY <2>3, FailureProgress DEF Reasons
    <3>3. Failed(x.q, "failed") \in Requests
      BY <2>3, FailureFields DEF Under, Reasons
    <3> QED BY <1>2, <2>3, <3>1, <3>2, <3>3, CommitInd
  <2> QED BY <2>4, <2>5
<1> QED BY <1>3, <1>4

\* The request whose answer was lost.
Lost(q) == [q EXCEPT !.hits = @ + 1, !.id = IF Step(q) = "create" THEN Nil ELSE @]

LEMMA LostFields ==
  ASSUME NEW q \in Requests, q.hits = 0
  PROVE  LET s == Lost(q)
         IN /\ s \in Requests /\ SameListing(s, q) /\ s.hits = 1
            /\ s.op = q.op /\ s.at = q.at /\ s.result = q.result /\ s.undo = q.undo
            /\ s.seen = q.seen /\ s.id = IF Step(q) = "create" THEN Nil ELSE q.id
            /\ s.call = q.call /\ s.token = q.token /\ (s.again <=> q.again)
            /\ (s.spoiled <=> q.spoiled)
<1>1. PICK id \in Ids \cup {Nil} : id = IF Step(q) = "create" THEN Nil ELSE q.id
  BY DEF Requests
<1>2. PICK s : s = Lost(q)
  OBVIOUS
<1>3. s = [q EXCEPT !.hits = 1, !.id = id]
  BY <1>1, <1>2 DEF Lost, Requests
<1>4. s \in Requests /\ s.hits = 1 /\ s.id = id
  BY <1>3 DEF Requests
<1>5. SameListing(s, q)
  BY <1>3 DEF Requests, SameListing
<1>6. /\ s.op = q.op /\ s.at = q.at /\ s.result = q.result /\ s.undo = q.undo
      /\ s.seen = q.seen /\ s.call = q.call /\ s.token = q.token /\ (s.again <=> q.again)
      /\ (s.spoiled <=> q.spoiled)
  BY <1>3 DEF Requests
<1> QED BY <1>1, <1>2, <1>4, <1>5, <1>6

LEMMA LostUnder ==
  ASSUME NEW a \in [Ids -> Users], NEW b \in [Ids -> Users], Evolves(a, b),
         a[Old].email # "none", NEW q \in Requests, q.hits = 0, Under(a, q)
  PROVE  Under(b, Lost(q))
<1> DEFINE s == Lost(q)
<1>1. /\ s \in Requests /\ SameListing(s, q) /\ s.op = q.op /\ s.at = q.at
      /\ s.result = q.result /\ s.undo = q.undo /\ s.seen = q.seen
      /\ s.id = IF Step(q) = "create" THEN Nil ELSE q.id
  BY LostFields
<1> HIDE DEF s
<1>2. CASE Step(q) = "create"
  <2>1. ~Undoing(q)
    BY <1>2 DEF Step
  <2>2. (q.op = "invite" /\ q.at = 2) \/ (q.op = "password" /\ q.at = 1)
    BY <1>2, <2>1, StepTable DEF Under
  <2>3. Reached(b, s, s.at - 1)
    BY <1>1, <2>2 DEF Reached, Patches
  <2>4. s.id = Nil /\ ~Undoing(s) /\ (s.more => s.op = "list")
    BY <1>1, <1>2, <2>1 DEF Undoing, SameListing, Under
  <2>5. s.op \in Operations /\ s.at \in 1 .. Len(Program(s.op)) /\ s.result = "none"
        /\ s.undo \in {"no", "now"}
    BY <1>1 DEF Under
  <2>6. Under(b, s)
    BY <1>1, <2>2, <2>3, <2>4, <2>5 DEF Under, Patches
  <2> QED BY <2>6 DEF s
<1>3. CASE Step(q) # "create"
  <2>1. SameCourse(s, q)
    BY <1>1, <1>3 DEF SameCourse, SameListing
  <2> QED BY <1>1, <2>1, UnderKept DEF s
<1> QED BY <1>2, <1>3

LEMMA LoseInd ==
  ASSUME ProgressInv, NEW r \in Reqs, LoseAnswer(r)
  PROVE  ProgressInv'
<1>1. /\ RealmTypeOK /\ req[r] \in Requests /\ Under(account, req[r]) /\ req[r].hits = 0
      /\ req[r].call = "send"
  BY DEF ProgressInv, RealmTypeOK, LoseAnswer, Progressing, Busy
<1>2. cached' \in Tokens \cup {Nil} /\ epoch' \in Tokens /\ troubles' \in Nat
  BY <1>1 DEF LoseAnswer, Trouble, RealmTypeOK
<1>3. PICK x \in Replies(Sent(req[r])) : Commit(r, x.account, Failed(Lost(req[r]), "failed"))
  BY DEF LoseAnswer, Lost, Sent
<1>4. x.account \in [Ids -> Users] /\ Evolves(account, x.account)
  BY <1>1, SentUnder DEF Sound
<1>5. Lost(req[r]) \in Requests /\ Lost(req[r]).hits = 1
  BY <1>1, LostFields
<1>6. Under(x.account, Lost(req[r]))
  BY <1>1, <1>4, LostUnder DEF ProgressInv, RealmTypeOK
<1>7. Progressing(x.account, Failed(Lost(req[r]), "failed"))
  BY <1>4, <1>5, <1>6, FailureProgress DEF Reasons
<1>8. Failed(Lost(req[r]), "failed") \in Requests
  BY <1>5, <1>6, FailureFields DEF Under, Reasons
<1> QED BY <1>2, <1>3, <1>4, <1>7, <1>8, CommitInd

LEMMA NotSentInd ==
  ASSUME ProgressInv, NEW r \in Reqs, NotSent(r)
  PROVE  ProgressInv'
<1>1. /\ RealmTypeOK /\ req[r] \in Requests /\ Under(account, req[r]) /\ req[r].hits = 0
  BY DEF ProgressInv, RealmTypeOK, NotSent, Progressing, Busy
<1>2. cached' \in Tokens \cup {Nil} /\ epoch' \in Tokens /\ troubles' \in Nat
  BY <1>1 DEF NotSent, Trouble, RealmTypeOK
<1>3. PICK why \in {"failed", "cancelled"} :
        /\ Commit(r, account, Failed(req[r], why))
        /\ why = "cancelled" => ~Detached(req[r])
  BY DEF NotSent, GoneAway
<1>4. account \in [Ids -> Users] /\ Evolves(account, account)
  BY <1>1, StillEvolves DEF RealmTypeOK
<1>5. Progressing(account, Failed(req[r], why))
  BY <1>1, <1>3, <1>4, FailureProgress DEF Reasons
<1>6. Failed(req[r], why) \in Requests
  BY <1>1, FailureFields DEF Under, Reasons
<1> QED BY <1>2, <1>3, <1>4, <1>5, <1>6, CommitInd

\* The users, and the realm itself.
OnboardMeans ==
    /\ account' \in [Ids -> Users] /\ Evolves(account, account')
    /\ Live(account) = Live(account') /\ account'[Old].version = account[Old].version

LEMMA Onboards ==
  ASSUME RealmTypeOK, Onboard
  PROVE  OnboardMeans
<1>1. PICK i \in Live(account) : account' = [account EXCEPT ![i].pending = {}]
  BY DEF Onboard
<1>2. i \in Ids /\ account[i] \in Users
  BY DEF Live, RealmTypeOK
<1>3. PICK u : u = [account[i] EXCEPT !.pending = {}]
  OBVIOUS
<1>4. /\ u \in Users /\ u.version = account[i].version /\ (u.live <=> account[i].live)
      /\ u.email = account[i].email /\ (u.granted <=> account[i].granted)
      /\ (u.mailed <=> account[i].mailed) /\ (u.secret <=> account[i].secret)
      /\ u.name = account[i].name /\ (u.enabled <=> account[i].enabled)
      /\ u.version \in Nat
  BY <1>2, <1>3 DEF Users
<1>5. Later(account[i], u)
  BY <1>4 DEF Later
<1>6. account' = [account EXCEPT ![i] = u]
  BY <1>1, <1>3
<1>7. /\ account' \in [Ids -> Users] /\ Evolves(account, account')
      /\ account'[i] = u /\ \A j \in Ids \ {i} : account'[j] = account[j]
  BY <1>2, <1>4, <1>5, <1>6, OneLater DEF RealmTypeOK
<1>8. \A j \in Ids : account'[j].live <=> account[j].live
  BY <1>4, <1>7
<1>9. Old \in Ids
  BY RealmAssumption DEF RealmAssumption
<1> QED BY <1>4, <1>7, <1>8, <1>9 DEF OnboardMeans, Live

LEMMA WorldInd ==
  ASSUME ProgressInv, TokenAges \/ Revoke \/ Onboard \/ UNCHANGED realmVars
  PROVE  ProgressInv'
<1>1. /\ account' \in [Ids -> Users] /\ Evolves(account, account')
  BY Onboards, StillEvolves
     DEF OnboardMeans, TokenAges, Revoke, realmVars, ProgressInv, RealmTypeOK
<1>2. req' = req
  BY DEF TokenAges, Revoke, Onboard, realmVars
<1>3. cached' \in Tokens \cup {Nil} /\ epoch' \in Tokens /\ troubles' \in Nat
  BY RealmAssumption DEF TokenAges, Revoke, Onboard, realmVars, Trouble, ProgressInv, RealmTypeOK,
     RealmAssumption, Tokens
<1>4. account'[Old].email # "none"
  BY <1>1, OldStays DEF ProgressInv, RealmTypeOK
<1>5. ASSUME NEW p \in Reqs PROVE Progressing(account', req[p])
  <2>1. req[p] \in Requests /\ SameCourse(req[p], req[p]) /\ Progressing(account, req[p])
    BY DEF SameCourse, ProgressInv, RealmTypeOK
  <2> QED BY <1>1, <2>1, ProgressKept DEF ProgressInv, RealmTypeOK
<1> QED BY <1>1, <1>2, <1>3, <1>4, <1>5 DEF ProgressInv, RealmTypeOK

LEMMA ProgressNext ==
  ASSUME ProgressInv, [RealmNext]_realmVars
  PROVE  ProgressInv'
<1>1. CASE TokenAges \/ Revoke \/ Onboard \/ UNCHANGED realmVars
  BY <1>1, WorldInd
<1>2. ASSUME NEW r \in Reqs, Begin(r) \/ Progress(r) \/ HangUp(r)
      PROVE  ProgressInv'
  BY <1>2, BeginInd, LoadInd, MintInd, StoreInd, SendInd, RetryInd, LoseInd, NotSentInd, HangUpInd
     DEF Progress
<1> QED BY <1>1, <1>2 DEF RealmNext

LEMMA ProgressInit == RealmInit => ProgressInv
<1> SUFFICES ASSUME RealmInit PROVE ProgressInv
  OBVIOUS
<1>1. account \in [Ids -> Users] /\ account[Old].email # "none"
  BY NoAccountTyped, InvitedTyped, RealmAssumption DEF RealmInit, RealmAssumption
<1>2. req \in [Reqs -> Requests] /\ \A r \in Reqs : Progressing(account, req[r])
  BY NothingTyped DEF RealmInit, Progressing, Busy
<1>3. cached \in Tokens \cup {Nil} /\ epoch \in Tokens /\ troubles \in Nat
  BY NatFacts DEF RealmInit
<1> QED BY <1>1, <1>2, <1>3 DEF ProgressInv, RealmTypeOK

LEMMA ProgressInvariance == RealmSpec => []ProgressInv
<1>1. RealmInit => ProgressInv
  BY ProgressInit
<1>2. ProgressInv /\ [RealmNext]_realmVars => ProgressInv'
  BY ProgressNext
<1> QED BY <1>1, <1>2, PTL DEF RealmSpec

\* Type correctness: the requests, the users and the token cache keep their shape.
THEOREM RealmTypeCorrect == RealmSpec => []RealmTypeOK
<1>1. ProgressInv => RealmTypeOK
  BY DEF ProgressInv
<1> QED BY <1>1, ProgressInvariance, PTL

\* However its answer is lost, refused or cut off, one admin call is applied at most
\* once: do() retries nothing but a 401, which the realm has not acted on.
THEOREM AppliedOnce == RealmSpec => []AppliedAtMostOnce
<1>1. ProgressInv => AppliedAtMostOnce
  BY DEF ProgressInv, RealmTypeOK, Progressing, AppliedAtMostOnce, Busy, Requests
<1> QED BY <1>1, ProgressInvariance, PTL

\* An invitation that fails has deleted the user it created, or the realm failed the
\* delete: the client's going away is no third way out (compensateInvitationCreate).
THEOREM NoUserLeftBehind == RealmSpec => []FailedInvitationLeavesNoUser
<1>1. ProgressInv => FailedInvitationLeavesNoUser
  BY DEF ProgressInv, Progressing, FailedInvitationLeavesNoUser, Over, Busy
<1> QED BY <1>1, ProgressInvariance, PTL

\* What CreateInvitation and CreateUserWithPassword report as done is done, and is not
\* undone by anybody's later call.
THEOREM ProvisioningHolds == RealmSpec => []AnsweredMeansProvisioned
<1>1. ProgressInv => AnsweredMeansProvisioned
  BY DEF ProgressInv, Progressing, AnsweredMeansProvisioned, Over, Busy, Provisioning
<1> QED BY <1>1, ProgressInvariance, PTL

-----------------------------------------------------------------------------
(* A patch changes what it names. *)

LEMMA PatchReply ==
  ASSUME RealmTypeOK, NEW q \in Requests, Under(account, q), q.op \in Patches,
         NEW x \in Replies(q)
  PROVE  \/ x.account = account
         \/ /\ q.at = 2 /\ q.id = Old /\ x.account[Old] = Merged(q)
            /\ Merged(q).name = IF q.op = "rename" THEN "new" ELSE q.seen.name
            /\ Merged(q).enabled <=> q.seen.enabled /\ q.op # "disable"
<1>1. ~Undoing(q) /\ q.id = Old /\ Old \in Ids
  BY RealmAssumption DEF Under, Patches, Provisioning, RealmAssumption
<1>2. Step(q) \in {"get", "put", "reread"}
  BY <1>1, StepTable DEF Under, Patches, Provisioning
<1>3. CASE Step(q) # "put"
  BY <1>2, <1>3 DEF Replies, OnUser, Reading, Refusal, Done, Reply
<1>4. CASE Step(q) = "put"
  <2>1. q.at = 2
    BY <1>1, <1>4, StepTable DEF Under
  <2>2. x = Refusal(q) \/ x = Reply([account EXCEPT ![q.id] = Merged(q)], q, TRUE)
    BY <1>4 DEF Replies, OnUser
  <2>3. x.account = account \/ x.account[Old] = Merged(q)
    BY <1>1, <2>2 DEF Refusal, Reply, RealmTypeOK
  <2>4. account[Old] \in Users /\ account[q.id] = account[Old]
    BY <1>1 DEF RealmTypeOK
  <2>5. /\ Merged(q).name = IF q.op = "rename" THEN "new" ELSE q.seen.name
        /\ Merged(q).enabled <=> q.seen.enabled /\ q.op # "disable"
    BY <2>4 DEF Merged, Users
  <2> QED BY <1>1, <2>1, <2>3, <2>5
<1> QED BY <1>3, <1>4

PatchStep ==
    \A r \in Reqs :
      req[r].op \in Patches /\ account'[Old].version # account[Old].version
        /\ req[r].hits = 0 /\ req'[r] # req[r] /\ req[r].seen.version = account[Old].version
        => /\ account'[Old].name # account[Old].name => req[r].op = "rename"
           /\ account'[Old].enabled # account[Old].enabled => req[r].op = "disable"

LEMMA PatchInd ==
  ASSUME ProgressInv, [RealmNext]_realmVars
  PROVE  PatchStep
<1> SUFFICES ASSUME NEW r \in Reqs, req[r].op \in Patches,
                    account'[Old].version # account[Old].version,
                    req'[r] # req[r], req[r].seen.version = account[Old].version
             PROVE  /\ account'[Old].name # account[Old].name => req[r].op = "rename"
                    /\ account'[Old].enabled # account[Old].enabled => req[r].op = "disable"
  BY DEF PatchStep
<1>1. RealmTypeOK /\ ProgressInv'
  BY ProgressNext DEF ProgressInv
<1>2. account' # account /\ ~Onboard
  BY <1>1, Onboards DEF OnboardMeans
<1>3. PICK p \in Reqs : Send(p) \/ RetryRefused(p) \/ LoseAnswer(p) \/ NotSent(p)
  BY <1>2 DEF RealmNext, Progress, realmVars, Begin, LoadToken, MintToken, StoreToken, HangUp,
     TokenAges, Revoke
<1>4. PICK users, q : Commit(p, users, q)
  BY <1>3 DEF Send, RetryRefused, LoseAnswer, NotSent
<1>5. p = r
  BY <1>4 DEF Commit, Patches
<1>6. req[r].call = "send" /\ \E x \in Replies(Sent(req[r])) : account' = x.account
  BY <1>2, <1>3, <1>5 DEF Send, RetryRefused, LoseAnswer, NotSent, Sent, Commit
<1>7. PICK x \in Replies(Sent(req[r])) : account' = x.account
  BY <1>6
<1>8. PICK s \in Requests : s = Sent(req[r])
  BY <1>6, SentUnder
<1>9. Under(account, s) /\ s.op = req[r].op /\ s.seen = req[r].seen
  BY <1>6, <1>8, SentUnder DEF SameCourse
<1>10. /\ s.at = 2 /\ account'[Old] = Merged(s)
       /\ Merged(s).name = IF s.op = "rename" THEN "new" ELSE s.seen.name
       /\ Merged(s).enabled <=> s.seen.enabled /\ s.op # "disable"
  BY <1>1, <1>2, <1>7, <1>8, <1>9, PatchReply
<1>11. Current(account, s.seen)
  BY <1>9, <1>10 DEF Under, Reached
<1>12. s.seen.name = account[Old].name /\ (s.seen.enabled <=> account[Old].enabled)
  BY <1>9, <1>11 DEF Current
<1>13. account'[Old].name # account[Old].name => req[r].op = "rename"
  BY <1>9, <1>10, <1>12
<1>14. /\ account'[Old].enabled \in BOOLEAN /\ account[Old].enabled \in BOOLEAN
  BY <1>1, RealmAssumption DEF ProgressInv, RealmTypeOK, Users, RealmAssumption
<1>15. req[r].op # "disable" => (account'[Old].enabled <=> account[Old].enabled)
  BY <1>9, <1>10, <1>12
<1>16. account'[Old].enabled # account[Old].enabled => req[r].op = "disable"
  BY <1>14, <1>15
<1> QED BY <1>13, <1>16

\* UpdateUser writes back the whole representation it read: between its read and its
\* write nothing is lost unless somebody else wrote the user.
THEOREM PatchesAreExact == RealmSpec => PatchIsExact
<1>1. ProgressInv /\ [RealmNext]_realmVars => PatchStep
  BY PatchInd
<1>2. RealmSpec => [][PatchStep]_realmVars
  BY <1>1, ProgressInvariance, PTL DEF RealmSpec
<1> QED BY <1>2 DEF PatchStep, PatchIsExact

-----------------------------------------------------------------------------
(* Tokens: one revocation costs a call one retry. *)

TokenOK(cache, now, q) ==
    /\ q.token <= now
    /\ q.call \in {"store", "send", "refused"} => q.token # Nil
    /\ q.call = "refused" => q.token < now
    /\ q.again => now >= 1
    /\ q.again /\ q.call = "load" => q.spoiled \/ cache = Nil \/ cache >= 1
    /\ q.again /\ q.call \in {"store", "send", "refused"} => q.spoiled \/ q.token >= 1
    /\ q.result = "unauthorized" => q.spoiled \/ now > 1

TokenInv ==
    /\ cached <= epoch
    /\ \A r \in Reqs : TokenOK(cached, epoch, req[r])

LEMMA TokenValues ==
  /\ \A t \in Tokens : t \in Nat /\ t # Nil
  /\ \A t \in Tokens \cup {Nil} : t \in Int /\ t >= Nil /\ (t # Nil => t \in Nat)
  /\ Nil = -1
BY RealmAssumption DEF RealmAssumption, Tokens, Nil

\* Nothing another request or the realm does takes a token's promise away, unless it
\* puts a refused token back.
LEMMA TokenKept ==
  ASSUME NEW c \in Tokens \cup {Nil}, NEW d \in Tokens \cup {Nil},
         NEW e \in Tokens, NEW f \in Tokens, e <= f,
         NEW q \in Requests, NEW p \in Requests, TokenOK(c, e, q),
         p.call = q.call, p.token = q.token, p.again <=> q.again, p.result = q.result,
         q.spoiled => p.spoiled,
         d = c \/ d = Nil \/ d >= 1 \/ ~(q.again /\ q.call = "load") \/ p.spoiled
  PROVE  TokenOK(d, f, p)
<1>1. q.token \in Int /\ e \in Nat /\ f \in Nat
  BY TokenValues DEF Requests
<1> QED BY <1>1 DEF TokenOK

LEMMA TokenFresh ==
  ASSUME NEW c \in Tokens \cup {Nil}, NEW e \in Tokens, NEW n \in Requests,
         Loading(n) \/ (n.call \in {"idle", "answered"} /\ n.token = Nil /\ ~n.again),
         n.result = "unauthorized" => n.spoiled \/ e > 1
  PROVE  TokenOK(c, e, n)
BY TokenValues DEF TokenOK, Loading

\* The step of one request, and what its commit leaves of the others.
LEMMA TokenCommit ==
  ASSUME ProgressInv, TokenInv, NEW r \in Reqs, NEW users \in [Ids -> Users],
         NEW q \in Requests, Commit(r, users, q), epoch' = epoch,
         cached' = cached \/ cached' = Nil,
         TokenOK(cached', epoch, q)
  PROVE  TokenInv'
<1>1. /\ RealmTypeOK /\ cached \in Tokens \cup {Nil} /\ cached' \in Tokens \cup {Nil}
      /\ epoch \in Tokens
  BY DEF ProgressInv, RealmTypeOK
<1>2. /\ req' \in [Reqs -> Requests] /\ req'[r] = q
      /\ \A p \in Reqs \ {r} : Aside(req'[p], req[p])
  BY <1>1, CommitMeans
<1>3. ASSUME NEW p \in Reqs PROVE TokenOK(cached', epoch, req'[p])
  <2>1. CASE p = r
    BY <1>2, <2>1
  <2>2. CASE p # r
    <3>1. /\ req[p] \in Requests /\ req'[p] \in Requests /\ TokenOK(cached, epoch, req[p])
          /\ Aside(req'[p], req[p]) /\ epoch <= epoch
      BY <1>1, <1>2, <2>2, TokenValues DEF TokenInv, RealmTypeOK
    <3> QED BY <1>1, <3>1, TokenKept DEF Aside, SameCourse
  <2> QED BY <2>1, <2>2
<1>4. cached' <= epoch
  BY <1>1, TokenValues DEF TokenInv
<1> QED BY <1>3, <1>4 DEF TokenInv

LEMMA TokenBegin ==
  ASSUME ProgressInv, TokenInv, NEW r \in Reqs, Begin(r)
  PROVE  TokenInv'
<1>1. PICK op \in Ops : req' = [req EXCEPT ![r] = Calling(Opening(op))]
  BY DEF Begin
<1>2. PICK n : n = Calling(Opening(op))
  OBVIOUS
<1>3. n \in Requests /\ Loading(n) /\ n.result = "none"
  BY <1>2, OpeningFields, CallingFields DEF ProgressInv, Loading
<1>4. TokenOK(cached, epoch, n)
  BY <1>3, TokenFresh DEF ProgressInv, RealmTypeOK
<1>5. req'[r] = n /\ \A p \in Reqs \ {r} : req'[p] = req[p]
  BY <1>1, <1>2 DEF ProgressInv, RealmTypeOK
<1>6. cached' = cached /\ epoch' = epoch
  BY DEF Begin
<1> QED BY <1>4, <1>5, <1>6 DEF TokenInv

LEMMA TokenLoad ==
  ASSUME ProgressInv, TokenInv, NEW r \in Reqs, LoadToken(r)
  PROVE  TokenInv'
<1>1. /\ req'[r] \in Requests /\ SameCourse(req'[r], req[r]) /\ req'[r].token = cached
      /\ (req'[r].again <=> req[r].again) /\ (req'[r].spoiled <=> req[r].spoiled)
      /\ req'[r].call \in {"mint", "send"} /\ (req'[r].call = "mint" <=> cached = Nil)
      /\ \A p \in Reqs \ {r} : req'[p] = req[p]
  BY LoadMeans DEF OnlyToken, ProgressInv
<1>2. /\ cached \in Int /\ epoch \in Nat /\ cached <= epoch /\ req[r].call = "load"
      /\ TokenOK(cached, epoch, req[r]) /\ cached >= Nil
  BY TokenValues DEF ProgressInv, RealmTypeOK, TokenInv, LoadToken
<1>3. TokenOK(cached, epoch, req'[r])
  BY <1>1, <1>2 DEF TokenOK, SameCourse
<1>4. cached' = cached /\ epoch' = epoch
  BY DEF LoadToken
<1> QED BY <1>1, <1>3, <1>4 DEF TokenInv

LEMMA TokenMint ==
  ASSUME ProgressInv, TokenInv, NEW r \in Reqs, MintToken(r)
  PROVE  TokenInv'
<1>1. /\ req'[r] \in Requests /\ SameCourse(req'[r], req[r]) /\ req'[r].token = epoch
      /\ (req'[r].again <=> req[r].again) /\ (req'[r].spoiled <=> req[r].spoiled)
      /\ req'[r].call = "store" /\ \A p \in Reqs \ {r} : req'[p] = req[p]
  BY MintMeans DEF OnlyToken, ProgressInv
<1>2. epoch \in Nat /\ TokenOK(cached, epoch, req[r]) /\ epoch # Nil
  BY TokenValues DEF ProgressInv, RealmTypeOK, TokenInv
<1>3. TokenOK(cached, epoch, req'[r])
  BY <1>1, <1>2 DEF TokenOK, SameCourse
<1>4. cached' = cached /\ epoch' = epoch
  BY DEF MintToken
<1> QED BY <1>1, <1>3, <1>4 DEF TokenInv

LEMMA TokenStore ==
  ASSUME ProgressInv, TokenInv, NEW r \in Reqs, StoreToken(r)
  PROVE  TokenInv'
<1>1. /\ RealmTypeOK /\ epoch \in Tokens /\ epoch \in Nat /\ cached \in Tokens \cup {Nil}
      /\ \A p \in Reqs : req[p] \in Requests /\ TokenOK(cached, epoch, req[p])
  BY TokenValues DEF ProgressInv, RealmTypeOK, TokenInv
<1>2. /\ SameCourse(req'[r], req[r]) /\ req'[r].token = req[r].token
      /\ (req'[r].again <=> req[r].again) /\ (req'[r].spoiled <=> req[r].spoiled)
      /\ req'[r].call = "send"
  BY <1>1, StoreMeans DEF OnlyToken
<1>3. /\ cached' = req[r].token /\ epoch' = epoch /\ req[r].call = "store"
      /\ req[r].token \in Tokens \cup {Nil} /\ req[r].token \in Int /\ req[r].token <= epoch
  BY <1>1, TokenValues DEF StoreToken, Requests, TokenOK
<1>4. TokenOK(cached', epoch, req'[r])
  BY <1>1, <1>2, <1>3 DEF TokenOK, SameCourse
<1>5. ASSUME NEW p \in Reqs \ {r} PROVE TokenOK(cached', epoch, req'[p])
  <2>1. /\ req'[p] \in Requests /\ SameCourse(req'[p], req[p]) /\ req'[p].call = req[p].call
        /\ req'[p].token = req[p].token /\ (req'[p].again <=> req[p].again)
        /\ req[p].spoiled => req'[p].spoiled
        /\ req[p].again /\ req[p].call = "load" /\ req[r].token # epoch => req'[p].spoiled
    BY <1>1, StoreMeans DEF OnlyToken
  <2>2. req[p].again => epoch >= 1
    BY <1>1 DEF TokenOK
  <2>3. \/ cached' >= 1 \/ ~(req[p].again /\ req[p].call = "load") \/ req'[p].spoiled
    BY <1>3, <2>1, <2>2
  <2> QED BY <1>1, <1>3, <2>1, <2>3, TokenKept DEF SameCourse
<1> QED BY <1>3, <1>4, <1>5 DEF TokenInv

LEMMA TokenSend ==
  ASSUME ProgressInv, TokenInv, NEW r \in Reqs, Send(r)
  PROVE  TokenInv'
<1>1. /\ RealmTypeOK /\ req[r] \in Requests /\ TokenOK(cached, epoch, req[r])
      /\ req[r].call = "send" /\ cached' = cached /\ epoch' = epoch
      /\ cached \in Tokens \cup {Nil} /\ epoch \in Tokens /\ epoch \in Nat
      /\ account \in [Ids -> Users] /\ Under(account, req[r])
  BY TokenValues DEF ProgressInv, RealmTypeOK, Send, TokenInv, Progressing, Busy
<1>2. CASE req[r].token # epoch
  <2>1. PICK n : n = [req[r] EXCEPT !.call = "refused"]
    OBVIOUS
  <2>2. Commit(r, account, n)
    BY <1>2, <2>1 DEF Send
  <2>3. /\ n \in Requests /\ SameCourse(n, req[r]) /\ n.call = "refused"
        /\ n.token = req[r].token /\ (n.again <=> req[r].again) /\ (n.spoiled <=> req[r].spoiled)
    BY <1>1, <2>1, Called DEF OnlyToken
  <2>4. TokenOK(cached, epoch, n)
    <3>1. req[r].token \in Int
      BY <1>1, TokenValues DEF Requests
    <3> QED BY <1>1, <1>2, <2>3, <3>1 DEF TokenOK, SameCourse
  <2> QED BY <1>1, <2>2, <2>3, <2>4, TokenCommit
<1>3. CASE req[r].token = epoch
  <2>1. PICK x \in Replies(Sent(req[r])) :
          Commit(r, x.account, IF x.ok THEN Succeeded(x.q) ELSE Failed(x.q, "failed"))
    BY <1>3 DEF Send, Sent
  <2>2. /\ x.account \in [Ids -> Users] /\ x.q \in Requests /\ x.q.op \in Operations
        /\ x.q.result = "none"
    BY <1>1, SentUnder DEF Sound, Under
  <2>3. PICK n : n = IF x.ok THEN Succeeded(x.q) ELSE Failed(x.q, "failed")
    OBVIOUS
  <2>4. /\ n \in Requests
        /\ Loading(n) \/ (n.call \in {"idle", "answered"} /\ n.token = Nil /\ ~n.again)
        /\ n.result # "unauthorized"
    BY <2>2, <2>3, SuccessFields, FailureFields DEF Reasons
  <2>5. TokenOK(cached, epoch, n)
    BY <1>1, <2>4, TokenFresh
  <2> QED BY <1>1, <2>1, <2>2, <2>3, <2>4, <2>5, TokenCommit
<1> QED BY <1>2, <1>3

LEMMA TokenRetry ==
  ASSUME ProgressInv, TokenInv, NEW r \in Reqs, RetryRefused(r)
  PROVE  TokenInv'
<1>1. /\ RealmTypeOK /\ req[r] \in Requests /\ TokenOK(cached, epoch, req[r])
      /\ req[r].call = "refused" /\ epoch' = epoch /\ req[r].token \in Int
      /\ cached \in Tokens \cup {Nil} /\ epoch \in Tokens /\ epoch \in Nat
      /\ account \in [Ids -> Users] /\ Under(account, req[r])
  BY TokenValues DEF ProgressInv, RealmTypeOK, RetryRefused, TokenInv, Progressing, Busy, Requests
<1>2. CASE req[r].again
  <2>1. Commit(r, account, Failed(req[r], "unauthorized")) /\ cached' = cached
    BY <1>2 DEF RetryRefused
  <2>2. PICK n : n = Failed(req[r], "unauthorized")
    OBVIOUS
  <2>3. /\ n \in Requests
        /\ \/ Loading(n) /\ n.result = "none"
           \/ /\ n.call = "answered" /\ n.token = Nil /\ ~n.again
              /\ (n.spoiled <=> req[r].spoiled)
    BY <1>1, <2>2, FailureFields DEF Reasons, Under
  <2>4. req[r].spoiled \/ epoch > 1
    BY <1>1, <1>2 DEF TokenOK
  <2>5. TokenOK(cached, epoch, n)
    BY <1>1, <2>3, <2>4, TokenFresh
  <2> QED BY <1>1, <2>1, <2>2, <2>3, <2>5, TokenCommit
<1>3. CASE ~req[r].again
  <2>1. PICK n : n = [req[r] EXCEPT !.again = TRUE, !.call = "load", !.token = Nil]
    OBVIOUS
  <2>2. Commit(r, account, n) /\ cached' = Nil
    BY <1>3, <2>1 DEF RetryRefused
  <2>3. /\ n \in Requests /\ SameCourse(n, req[r]) /\ n.call = "load" /\ n.token = Nil /\ n.again
        /\ (n.spoiled <=> req[r].spoiled)
    BY <1>1, <2>1, Retried DEF OnlyToken
  <2>4. req[r].token >= 0 /\ req[r].token < epoch
    BY <1>1, TokenValues DEF TokenOK, Requests
  <2>5. TokenOK(Nil, epoch, n)
    BY <1>1, <2>3, <2>4, TokenValues DEF TokenOK, SameCourse, Under
  <2> QED BY <1>1, <2>2, <2>3, <2>5, TokenCommit
<1> QED BY <1>2, <1>3

LEMMA TokenFail ==
  ASSUME ProgressInv, TokenInv, NEW r \in Reqs, LoseAnswer(r) \/ NotSent(r)
  PROVE  TokenInv'
<1>1. /\ RealmTypeOK /\ req[r] \in Requests /\ epoch' = epoch /\ cached' = cached
      /\ cached \in Tokens \cup {Nil} /\ epoch \in Tokens
      /\ account \in [Ids -> Users] /\ Under(account, req[r]) /\ req[r].hits = 0
  BY DEF ProgressInv, RealmTypeOK, LoseAnswer, NotSent, Progressing, Busy
<1>2. PICK users \in [Ids -> Users], q \in Requests, why \in {"failed", "cancelled"} :
        Commit(r, users, Failed(q, why)) /\ q.op \in Operations /\ q.result = "none"
  <2>1. CASE NotSent(r)
    BY <1>1, <2>1 DEF NotSent, Under
  <2>2. CASE LoseAnswer(r)
    <3>1. PICK x \in Replies(Sent(req[r])) : Commit(r, x.account, Failed(Lost(req[r]), "failed"))
      BY <2>2 DEF LoseAnswer, Lost, Sent
    <3>2. x.account \in [Ids -> Users]
      BY <2>2, SentUnder DEF Sound, LoseAnswer
    <3>3. Lost(req[r]) \in Requests /\ Lost(req[r]).op \in Operations
          /\ Lost(req[r]).result = "none"
      BY <1>1, LostFields DEF Under
    <3> QED BY <3>1, <3>2, <3>3
  <2> QED BY <2>1, <2>2
<1>3. PICK n : n = Failed(q, why)
  OBVIOUS
<1>4. /\ n \in Requests
      /\ Loading(n) \/ (n.call \in {"idle", "answered"} /\ n.token = Nil /\ ~n.again)
      /\ n.result # "unauthorized"
  BY <1>2, <1>3, FailureFields DEF Reasons
<1>5. TokenOK(cached, epoch, n)
  BY <1>1, <1>4, TokenFresh
<1> QED BY <1>1, <1>2, <1>3, <1>4, <1>5, TokenCommit

LEMMA TokenWorld ==
  ASSUME ProgressInv, TokenInv, ProgressInv',
         \/ TokenAges \/ Revoke \/ Onboard \/ UNCHANGED realmVars
         \/ \E r \in Reqs : HangUp(r)
  PROVE  TokenInv'
<1>1. /\ RealmTypeOK /\ cached \in Tokens \cup {Nil} /\ cached' \in Tokens \cup {Nil}
      /\ epoch \in Tokens /\ epoch' \in Tokens /\ cached \in Int /\ epoch \in Nat /\ epoch' \in Nat
      /\ \A p \in Reqs : req[p] \in Requests /\ req'[p] \in Requests
                         /\ TokenOK(cached, epoch, req[p])
  BY TokenValues DEF ProgressInv, RealmTypeOK, TokenInv
<1>2. (cached' = cached \/ cached' = Nil) /\ epoch <= epoch'
  BY <1>1 DEF TokenAges, Revoke, Onboard, realmVars, HangUp
<1>3. \A p \in Reqs :
        /\ req'[p].call = req[p].call /\ req'[p].token = req[p].token
        /\ (req'[p].again <=> req[p].again) /\ req'[p].result = req[p].result
        /\ (req[p].spoiled => req'[p].spoiled)
  BY <1>1, HangUpMeans DEF TokenAges, Revoke, Onboard, realmVars, OnlyToken, SameCourse
<1>4. ASSUME NEW p \in Reqs PROVE TokenOK(cached', epoch', req'[p])
  BY <1>1, <1>2, <1>3, TokenKept
<1>5. cached' <= epoch'
  BY <1>1, <1>2, TokenValues DEF TokenInv
<1> QED BY <1>4, <1>5 DEF TokenInv

LEMMA TokenInvariance == RealmSpec => []TokenInv
<1>1. RealmInit => TokenInv
  BY NothingTyped, TokenValues, NatFacts DEF RealmInit, TokenInv, TokenOK
<1>2. ProgressInv /\ ProgressInv' /\ TokenInv /\ [RealmNext]_realmVars => TokenInv'
  BY TokenBegin, TokenLoad, TokenMint, TokenStore, TokenSend, TokenRetry, TokenFail, TokenWorld
     DEF RealmNext, Progress
<1> QED BY <1>1, <1>2, ProgressInvariance, PTL DEF RealmSpec

\* do() drops the refused token and tries once more with another: a call is answered
\* 401 only after a second revocation, or when a request still holding the refused
\* token stored it again.
THEOREM RetryEscapes == RealmSpec => []RetryEscapesOneRevocation
<1>1. ProgressInv /\ TokenInv => RetryEscapesOneRevocation
  BY DEF TokenInv, TokenOK, RetryEscapesOneRevocation
<1> QED BY <1>1, ProgressInvariance, TokenInvariance, PTL

-----------------------------------------------------------------------------
(* Pages: the positions of the users a finite realm lists. *)

Rank(L, i) == Cardinality({j \in L : j < i})

LEMMA HasLeast ==
  ASSUME NEW T \in SUBSET Nat, T # {}
  PROVE  \E x \in T : \A y \in T : x <= y
<1>1. PICK x \in T : \A y \in T : <<y, x>> \notin OpToRel(<, Nat)
  BY NatLessThanWellFounded, WFMin
<1>2. \A y \in T : ~(y < x)
  BY <1>1 DEF OpToRel
<1> QED BY <1>2

LEMMA HasGreatest ==
  ASSUME NEW T \in SUBSET Nat, IsFiniteSet(T), T # {}
  PROVE  \E x \in T : \A y \in T : y <= x
<1> DEFINE Above(x) == {y \in T : y > x}
           Heights == {Cardinality(Above(x)) : x \in T}
<1>1. \A x \in T : /\ Above(x) \in SUBSET T /\ IsFiniteSet(Above(x))
                   /\ Cardinality(Above(x)) \in Nat
  BY FS_Subset, FS_CardinalityType
<1>2. PICK h \in Heights : \A k \in Heights : h <= k
  <2>1. Heights \in SUBSET Nat /\ Heights # {}
    <3> HIDE DEF Above
    <3> QED BY <1>1
  <2> HIDE DEF Heights
  <2> QED BY <2>1, HasLeast
<1>3. PICK x \in T : h = Cardinality(Above(x))
  OBVIOUS
<1>4. SUFFICES ASSUME NEW y \in T, y > x PROVE FALSE
  OBVIOUS
<1>5. Above(y) \in SUBSET Above(x) /\ Above(y) # Above(x)
  <2>1. \A z \in T : z \in Int
    OBVIOUS
  <2>2. \A z \in T : z > y => z > x
    BY <1>4, <2>1
  <2>3. y \in Above(x) /\ y \notin Above(y)
    BY <1>4, <2>1
  <2> QED BY <2>2, <2>3
<1>6. Cardinality(Above(y)) \in Heights
  OBVIOUS
<1> HIDE DEF Above, Heights
<1>7. /\ Cardinality(Above(y)) <= Cardinality(Above(x))
      /\ Cardinality(Above(y)) # Cardinality(Above(x))
  BY <1>1, <1>5, FS_Subset
<1>8. Cardinality(Above(x)) <= Cardinality(Above(y))
  BY <1>2, <1>3, <1>6
<1> QED BY <1>1, <1>4, <1>7, <1>8

LEMMA RankTyped ==
  ASSUME NEW L, IsFiniteSet(L), NEW i
  PROVE  Rank(L, i) \in Nat /\ IsFiniteSet({j \in L : j < i})
BY FS_Subset, FS_CardinalityType DEF Rank

\* Positions follow the order of the ids, and grow with the realm.
LEMMA RankOrder ==
  ASSUME NEW L \in SUBSET Nat, IsFiniteSet(L), NEW x \in L, NEW y \in L, x <= y
  PROVE  Rank(L, x) <= Rank(L, y)
<1>1. {j \in L : j < x} \in SUBSET {j \in L : j < y}
  <2>1. \A j \in L : j \in Int
    OBVIOUS
  <2>2. \A j \in L : j < x => j < y
    BY <2>1
  <2> QED BY <2>2
<1>2. IsFiniteSet({j \in L : j < y})
  BY RankTyped
<1> QED BY <1>1, <1>2, FS_Subset DEF Rank

LEMMA RankGrows ==
  ASSUME NEW L, NEW M, IsFiniteSet(M), L \subseteq M, NEW i
  PROVE  Rank(L, i) <= Rank(M, i)
<1>1. {j \in L : j < i} \in SUBSET {j \in M : j < i}
  OBVIOUS
<1>2. IsFiniteSet({j \in M : j < i})
  BY RankTyped
<1> QED BY <1>1, <1>2, FS_Subset DEF Rank

\* When somebody is at position m or behind it, m users are before it.
LEMMA FirstOnes ==
  ASSUME NEW L \in SUBSET Nat, IsFiniteSet(L), NEW m \in Nat, NEW i \in L, Rank(L, i) >= m
  PROVE  /\ IsFiniteSet({x \in L : Rank(L, x) < m})
         /\ Cardinality({x \in L : Rank(L, x) < m}) = m
<1> DEFINE T == {x \in L : Rank(L, x) < m}
           U == {x \in L : Rank(L, x) >= m}
<1>1. \A x \in L : Rank(L, x) \in Nat
  BY RankTyped
<1>2. IsFiniteSet(T) /\ Cardinality(T) \in Nat
  BY FS_Subset, FS_CardinalityType
<1>3. Cardinality(T) >= m
  <2>1. PICK x \in U : \A y \in U : x <= y
    <3>1. U \in SUBSET Nat /\ U # {}
      OBVIOUS
    <3> HIDE DEF U
    <3> QED BY <3>1, HasLeast
  <2>2. {j \in L : j < x} = T
    <3>1. ASSUME NEW j \in L, j < x PROVE j \in T
      BY <1>1, <2>1, <3>1
    <3>2. ASSUME NEW j \in T, ~(j < x) PROVE FALSE
      <4>1. Rank(L, x) <= Rank(L, j)
        BY <3>2, RankOrder
      <4> QED BY <1>1, <4>1, <3>2
    <3> HIDE DEF U
    <3> QED BY <3>1, <3>2
  <2>3. Rank(L, x) >= m
    OBVIOUS
  <2> QED BY <2>2, <2>3 DEF Rank
<1>4. Cardinality(T) <= m
  <2>1. CASE T = {}
    <3> HIDE DEF T
    <3> QED BY <2>1, FS_EmptySet
  <2>2. CASE T # {}
    <3>1. PICK y \in T : \A z \in T : z <= y
      <4>1. T \in SUBSET Nat
        OBVIOUS
      <4> HIDE DEF T
      <4> QED BY <1>2, <2>2, <4>1, HasGreatest
    <3>2. T \ {y} \in SUBSET {j \in L : j < y}
      <4>1. \A j \in L : j \in Int
        OBVIOUS
      <4>2. \A j \in T : j \in L /\ (j # y => j < y)
        BY <3>1, <4>1
      <4> HIDE DEF T
      <4> QED BY <4>2
    <3>3. Rank(L, y) < m /\ Rank(L, y) \in Nat
      BY <1>1
    <3>4. IsFiniteSet({j \in L : j < y})
      BY RankTyped
    <3> HIDE DEF T
    <3>5. Cardinality(T \ {y}) <= Rank(L, y)
      BY <3>2, <3>4, FS_Subset DEF Rank
    <3>6. Cardinality(T \ {y}) = Cardinality(T) - 1
      BY <1>2, <3>1, FS_RemoveElement
    <3> QED BY <1>2, <3>3, <3>5, <3>6
  <2> QED BY <2>1, <2>2
<1> QED BY <1>2, <1>3, <1>4

\* A page with somebody behind it is full.
LEMMA FullPage ==
  ASSUME NEW q, q.first \in Nat, NEW i \in Live(account),
         Rank(Live(account), i) >= q.first + PageSize
  PROVE  Cardinality(Page(q)) = PageSize
<1> DEFINE L == Live(account)
           A == {x \in L : Rank(L, x) < q.first + PageSize}
           B == {x \in L : Rank(L, x) < q.first}
<1>1. L \in SUBSET Nat /\ IsFiniteSet(L) /\ PageSize \in Nat
  BY RealmAssumption, FS_Subset DEF RealmAssumption, Live
<1>2. Page(q) = {x \in L : Rank(L, x) \in q.first .. q.first + PageSize - 1}
  BY DEF Page, Rank
<1>3. \A x \in L : Rank(L, x) \in Nat
  BY <1>1, RankTyped
<1> HIDE DEF L
<1>4. Page(q) = A \ B /\ A \cap B = B
  <2>1. ASSUME NEW x \in L
        PROVE  /\ x \in Page(q) <=> x \in A /\ x \notin B
               /\ x \in B => x \in A
    BY <1>1, <1>2, <1>3
  <2>2. Page(q) \subseteq L /\ A \subseteq L /\ B \subseteq L
    BY <1>2
  <2> HIDE DEF A, B
  <2> QED BY <2>1, <2>2
<1>5. i \in L /\ Rank(L, i) >= q.first + PageSize /\ Rank(L, i) >= q.first
  <2>1. i \in L /\ Rank(L, i) >= q.first + PageSize
    BY DEF L
  <2> QED BY <1>1, <1>3, <2>1
<1>6. IsFiniteSet(A) /\ Cardinality(A) = q.first + PageSize
  <2>1. q.first + PageSize \in Nat
    BY <1>1
  <2> QED BY <1>1, <1>5, <2>1, FirstOnes
<1>7. IsFiniteSet(B) /\ Cardinality(B) = q.first
  BY <1>1, <1>5, FirstOnes
<1> HIDE DEF A, B
<1>8. Cardinality(A \ B) = Cardinality(A) - Cardinality(A \cap B)
  BY <1>6, FS_Difference
<1>9. PICK n \in Nat, a \in Nat : n = q.first /\ a = Cardinality(A) /\ a = n + PageSize
  BY <1>1, <1>6
<1>10. Cardinality(A \cap B) = n
  BY <1>4, <1>7, <1>9
<1>11. Cardinality(A \ B) = a - n
  BY <1>8, <1>9, <1>10
<1> QED BY <1>1, <1>4, <1>9, <1>11

-----------------------------------------------------------------------------
(* Listings: who is not listed yet is still ahead. *)

Ahead(users, q) == \A i \in q.there : i \in q.out \/ Rank(Live(users), i) >= q.first

ListOK(users, q) ==
    q.op = "list" /\ ~q.shrunk =>
      /\ Busy(q) => q.there \subseteq Live(users) /\ Ahead(users, q)
      /\ q.call = "answered" /\ q.result = "ok" /\ q.first < HardCap => q.there \subseteq q.out

ListInv == \A r \in Reqs : ListOK(account, req[r])

LEMMA LiveFinite ==
  ASSUME NEW users
  PROVE  Live(users) \in SUBSET Ids /\ Live(users) \in SUBSET Nat /\ IsFiniteSet(Live(users))
BY RealmAssumption, FS_Subset DEF RealmAssumption, Live

\* Whoever joins the realm only moves the others back.
LEMMA ListKept ==
  ASSUME NEW a, NEW b, NEW p \in Requests, NEW q \in Requests, ListOK(a, q),
         p.op = q.op, p.first = q.first, p.out = q.out, p.there = q.there,
         q.shrunk => p.shrunk,
         p.op = "list" /\ ~p.shrunk => Live(a) \subseteq Live(b),
         \/ p.call = q.call /\ p.result = q.result
         \/ Busy(p) /\ Busy(q)
  PROVE  ListOK(b, p)
<1>1. SUFFICES ASSUME p.op = "list", ~p.shrunk
               PROVE  /\ Busy(p) => p.there \subseteq Live(b) /\ Ahead(b, p)
                      /\ p.call = "answered" /\ p.result = "ok" /\ p.first < HardCap =>
                           p.there \subseteq p.out
  BY DEF ListOK
<1>2. ASSUME Busy(p) PROVE p.there \subseteq Live(b) /\ Ahead(b, p)
  <2>1. Busy(q) /\ q.there \subseteq Live(a) /\ Ahead(a, q)
    BY <1>1, <1>2 DEF ListOK, Busy
  <2>2. Live(a) \subseteq Live(b)
    BY <1>1
  <2>3. ASSUME NEW i \in p.there PROVE i \in p.out \/ Rank(Live(b), i) >= p.first
    <3>1. i \in q.out \/ Rank(Live(a), i) >= q.first
      BY <2>1 DEF Ahead
    <3>2. Rank(Live(a), i) <= Rank(Live(b), i)
      BY <2>2, LiveFinite, RankGrows
    <3>3. Rank(Live(a), i) \in Nat /\ Rank(Live(b), i) \in Nat
      BY LiveFinite, RankTyped
    <3>4. q.first \in Nat
      BY DEF Requests
    <3> QED BY <3>1, <3>2, <3>3, <3>4
  <2> QED BY <2>1, <2>2, <2>3 DEF Ahead
<1>3. ASSUME p.call = "answered", p.result = "ok", p.first < HardCap
      PROVE  p.there \subseteq p.out
  BY <1>1, <1>3 DEF ListOK, Busy
<1> QED BY <1>2, <1>3

LEMMA ListCommit ==
  ASSUME ProgressInv, ListInv, NEW r \in Reqs, NEW users \in [Ids -> Users],
         NEW q \in Requests, Commit(r, users, q), ListOK(users, q)
  PROVE  ListInv'
<1>1. RealmTypeOK
  BY DEF ProgressInv
<1>2. /\ account' = users /\ req' \in [Reqs -> Requests] /\ req'[r] = q
      /\ \A p \in Reqs \ {r} :
           /\ Aside(req'[p], req[p])
           /\ req[p].op = "list" /\ ~req'[p].shrunk => Live(account) \subseteq Live(users)
  BY <1>1, CommitMeans
<1>3. ASSUME NEW p \in Reqs \ {r} PROVE ListOK(users, req'[p])
  <2>1. /\ req[p] \in Requests /\ req'[p] \in Requests /\ ListOK(account, req[p])
        /\ Aside(req'[p], req[p])
    BY <1>1, <1>2 DEF ListInv, RealmTypeOK
  <2> QED BY <1>2, <2>1, ListKept DEF Aside, SameCourse
<1> QED BY <1>2, <1>3 DEF ListInv

\* One request's token moves, and nobody's listing.
LEMMA ListToken ==
  ASSUME ProgressInv, ListInv, ProgressInv', account' = account,
         \A p \in Reqs : /\ OnlyToken(req'[p], req[p])
                         /\ req'[p].call = req[p].call \/ (Busy(req'[p]) /\ Busy(req[p]))
  PROVE  ListInv'
<1>1. ASSUME NEW p \in Reqs PROVE ListOK(account, req'[p])
  <2>1. req[p] \in Requests /\ req'[p] \in Requests /\ ListOK(account, req[p])
        /\ SameCourse(req'[p], req[p]) /\ SameListing(req'[p], req[p])
    BY DEF ProgressInv, RealmTypeOK, ListInv, OnlyToken
  <2> QED BY <2>1, ListKept DEF SameCourse, SameListing
<1> QED BY <1>1 DEF ListInv

\* The next page lists whoever stood at its positions, and ends the listing only if
\* nobody stands behind it.
LEMMA ListPage ==
  ASSUME RealmTypeOK, NEW q \in Requests, q.op = "list", ~Undoing(q), q.result = "none",
         ~q.shrunk => q.there \subseteq Live(account) /\ Ahead(account, q),
         NEW x \in Paging(q)
  PROVE  ListOK(account, Succeeded(x.q))
<1>1. /\ x.q \in Requests /\ SameCall(x.q, q)
      /\ x.q.out = q.out \cup Page(q) /\ x.q.first = q.first + PageSize
      /\ x.q.more <=> Cardinality(Page(q)) = PageSize /\ q.first + PageSize < HardCap
  BY PageReplies
<1>2. PICK n : n = Succeeded(x.q)
  OBVIOUS
<1>3. /\ n \in Requests /\ SameListing(n, x.q)
      /\ Loading(n) \/ n.call = "answered"
      /\ ~Undoing(x.q) /\ x.q.more => Loading(n)
  BY <1>1, <1>2, SuccessFields DEF SameCall, Operations
<1>4. /\ n.op = "list" /\ (n.shrunk <=> q.shrunk) /\ n.there = q.there
      /\ n.out = q.out \cup Page(q) /\ n.first = q.first + PageSize
  BY <1>1, <1>3 DEF SameListing, SameCall
<1>5. SUFFICES ASSUME ~n.shrunk
               PROVE  /\ Busy(n) => n.there \subseteq Live(account) /\ Ahead(account, n)
                      /\ n.call = "answered" /\ n.result = "ok" /\ n.first < HardCap =>
                           n.there \subseteq n.out
  BY <1>2 DEF ListOK
<1>6. q.there \subseteq Live(account) /\ Ahead(account, q)
  BY <1>4, <1>5
<1>7. q.first \in Nat /\ PageSize \in Nat /\ HardCap \in Nat
  BY RealmAssumption DEF RealmAssumption, Requests
<1>8. ASSUME NEW i \in q.there, i \notin n.out
      PROVE  i \in Live(account) /\ Rank(Live(account), i) >= q.first + PageSize
  <2>1. i \in Live(account) /\ i \notin Page(q) /\ Rank(Live(account), i) >= q.first
    BY <1>4, <1>6, <1>8 DEF Ahead
  <2>2. Rank(Live(account), i) \in Nat
    BY LiveFinite, RankTyped
  <2>3. Rank(Live(account), i) \notin q.first .. q.first + PageSize - 1
    BY <2>1 DEF Page, Rank
  <2> QED BY <1>7, <2>1, <2>2, <2>3
<1>9. n.there \subseteq Live(account) /\ Ahead(account, n)
  BY <1>4, <1>6, <1>8 DEF Ahead
<1>10. ASSUME n.call = "answered", n.first < HardCap PROVE n.there \subseteq n.out
  <2>1. ~x.q.more
    BY <1>1, <1>3, <1>10 DEF Loading, SameCall, Undoing
  <2>2. Cardinality(Page(q)) # PageSize
    BY <1>1, <1>4, <1>10, <2>1
  <2> QED BY <1>4, <1>7, <1>8, <2>2, FullPage
<1> QED BY <1>9, <1>10

LEMMA ListFailed ==
  ASSUME NEW users, NEW q \in Requests, q.op \in Operations, NEW why \in Reasons
  PROVE  Failed(q, why) \in Requests /\ ListOK(users, Failed(q, why))
<1>1. PICK n : n = Failed(q, why)
  OBVIOUS
<1>2. n \in Requests /\ n.op = q.op /\ (q.op = "list" => n.call = "answered" /\ n.result # "ok")
  BY <1>1, FailureFields DEF SameListing
<1> QED BY <1>1, <1>2 DEF ListOK, Busy

LEMMA ListBegin ==
  ASSUME ProgressInv, ListInv, NEW r \in Reqs, Begin(r)
  PROVE  ListInv'
<1>1. PICK op \in Ops : req' = [req EXCEPT ![r] = Calling(Opening(op))]
  BY DEF Begin
<1>2. PICK n : n = Calling(Opening(op))
  OBVIOUS
<1>3. /\ n.op = op /\ n.call = "load" /\ n.first = 0
      /\ n.there = IF op = "list" THEN Live(account) ELSE {}
  BY <1>2, OpeningFields, CallingFields DEF ProgressInv
<1>4. ASSUME NEW i \in Ids PROVE Rank(Live(account), i) >= 0
  <2>1. IsFiniteSet(Live(account))
    BY LiveFinite
  <2>2. Rank(Live(account), i) \in Nat
    BY <2>1, RankTyped
  <2> QED BY <2>2
<1>5. ListOK(account, n)
  BY <1>3, <1>4, LiveFinite DEF ListOK, Ahead, Busy
<1>6. req'[r] = n /\ \A p \in Reqs \ {r} : req'[p] = req[p]
  BY <1>1, <1>2 DEF ProgressInv, RealmTypeOK
<1>7. account' = account
  BY DEF Begin
<1> QED BY <1>5, <1>6, <1>7 DEF ListInv

LEMMA ListSend ==
  ASSUME ProgressInv, ListInv, NEW r \in Reqs, Send(r)
  PROVE  ListInv'
<1>1. /\ RealmTypeOK /\ req[r] \in Requests /\ ListOK(account, req[r]) /\ Busy(req[r])
      /\ req[r].call = "send" /\ account \in [Ids -> Users] /\ Under(account, req[r])
  BY DEF ProgressInv, RealmTypeOK, Send, ListInv, Progressing, Busy
<1>2. CASE req[r].token # epoch
  <2>1. PICK n : n = [req[r] EXCEPT !.call = "refused"]
    OBVIOUS
  <2>2. Commit(r, account, n)
    BY <1>2, <2>1 DEF Send
  <2>3. OnlyToken(n, req[r]) /\ n.call = "refused"
    BY <1>1, <2>1, Called
  <2>4. ListOK(account, n)
    BY <1>1, <2>3, ListKept DEF OnlyToken, SameListing, Busy
  <2> QED BY <1>1, <2>2, <2>3, <2>4, ListCommit DEF OnlyToken
<1>3. CASE req[r].token = epoch
  <2>1. PICK s : s = Sent(req[r])
    OBVIOUS
  <2>2. /\ s \in Requests /\ Under(account, s) /\ SameListing(s, req[r])
        /\ \A x \in Replies(s) : Sound(s, x)
    BY <1>1, <2>1, SentUnder
  <2>3. PICK x \in Replies(s) :
          Commit(r, x.account, IF x.ok THEN Succeeded(x.q) ELSE Failed(x.q, "failed"))
    BY <1>3, <2>1 DEF Send, Sent
  <2>4. /\ x.account \in [Ids -> Users] /\ x.q \in Requests /\ x.q.op \in Operations
        /\ x.q.op = s.op
    BY <2>2, <2>3 DEF Sound, SameCall, Under
  <2>5. PICK n : n = IF x.ok THEN Succeeded(x.q) ELSE Failed(x.q, "failed")
    OBVIOUS
  <2>6. n \in Requests /\ n.op = s.op
    BY <2>4, <2>5, SuccessFields, FailureFields DEF SameListing, Reasons
  <2>7. ListOK(x.account, n)
    <3>1. CASE s.op # "list"
      BY <2>6, <3>1 DEF ListOK
    <3>2. CASE s.op = "list"
      <4>1. ~Undoing(s) /\ s.at \in 1 .. Len(Program(s.op)) /\ s.op \in Operations
            /\ s.result = "none"
        BY <2>2, <3>2 DEF Under, Provisioning
      <4>2. Step(s) = "page"
        BY <3>2, <4>1, StepTable
      <4>3. x \in Paging(s)
        BY <2>3, <4>2 DEF Replies
      <4>4. x.account = account /\ x.ok
        BY <2>2, <4>3, PageReplies
      <4>5. ~s.shrunk => s.there \subseteq Live(account) /\ Ahead(account, s)
        BY <1>1, <2>2, <3>2 DEF SameListing, ListOK, Ahead
      <4> QED BY <1>1, <2>2, <2>5, <3>2, <4>1, <4>3, <4>4, <4>5, ListPage
    <3> QED BY <3>1, <3>2
  <2> QED BY <2>3, <2>4, <2>5, <2>6, <2>7, ListCommit
<1> QED BY <1>2, <1>3

LEMMA ListRetry ==
  ASSUME ProgressInv, ListInv, NEW r \in Reqs, RetryRefused(r)
  PROVE  ListInv'
<1>1. /\ req[r] \in Requests /\ ListOK(account, req[r]) /\ Busy(req[r])
      /\ account \in [Ids -> Users] /\ Under(account, req[r])
  BY DEF ProgressInv, RealmTypeOK, RetryRefused, ListInv, Progressing, Busy
<1>2. CASE req[r].again
  <2>1. Commit(r, account, Failed(req[r], "unauthorized"))
    BY <1>2 DEF RetryRefused
  <2> QED BY <1>1, <2>1, ListFailed, ListCommit DEF Under, Reasons
<1>3. CASE ~req[r].again
  <2>1. PICK n : n = [req[r] EXCEPT !.again = TRUE, !.call = "load", !.token = Nil]
    OBVIOUS
  <2>2. Commit(r, account, n)
    BY <1>3, <2>1 DEF RetryRefused
  <2>3. OnlyToken(n, req[r]) /\ n.call = "load"
    BY <1>1, <2>1, Retried
  <2>4. ListOK(account, n)
    BY <1>1, <2>3, ListKept DEF OnlyToken, SameListing, Busy
  <2> QED BY <1>1, <2>2, <2>3, <2>4, ListCommit DEF OnlyToken
<1> QED BY <1>2, <1>3

LEMMA ListFail ==
  ASSUME ProgressInv, ListInv, NEW r \in Reqs, LoseAnswer(r) \/ NotSent(r)
  PROVE  ListInv'
<1>1. /\ req[r] \in Requests /\ account \in [Ids -> Users] /\ Under(account, req[r])
      /\ req[r].hits = 0
  BY DEF ProgressInv, RealmTypeOK, LoseAnswer, NotSent, Progressing, Busy
<1>2. PICK users \in [Ids -> Users], q \in Requests, why \in {"failed", "cancelled"} :
        Commit(r, users, Failed(q, why)) /\ q.op \in Operations
  <2>1. CASE NotSent(r)
    BY <1>1, <2>1 DEF NotSent, Under
  <2>2. CASE LoseAnswer(r)
    <3>1. PICK x \in Replies(Sent(req[r])) : Commit(r, x.account, Failed(Lost(req[r]), "failed"))
      BY <2>2 DEF LoseAnswer, Lost, Sent
    <3>2. x.account \in [Ids -> Users]
      BY <2>2, SentUnder DEF Sound, LoseAnswer
    <3>3. Lost(req[r]) \in Requests /\ Lost(req[r]).op \in Operations
      BY <1>1, LostFields DEF Under
    <3> QED BY <3>1, <3>2, <3>3
  <2> QED BY <2>1, <2>2
<1> QED BY <1>2, ListFailed, ListCommit DEF Reasons

LEMMA ListWorld ==
  ASSUME ProgressInv, ListInv, ProgressInv', TokenAges \/ Revoke \/ Onboard \/ UNCHANGED realmVars
  PROVE  ListInv'
<1>1. req' = req
  BY DEF TokenAges, Revoke, Onboard, realmVars
<1>2. Live(account) = Live(account')
  BY Onboards DEF OnboardMeans, TokenAges, Revoke, realmVars, ProgressInv
<1>3. ASSUME NEW p \in Reqs PROVE ListOK(account', req[p])
  BY <1>2, ListKept DEF ListInv, ProgressInv, RealmTypeOK
<1> QED BY <1>1, <1>3 DEF ListInv

LEMMA ListInvariance == RealmSpec => []ListInv
<1>1. RealmInit => ListInv
  BY NothingTyped DEF RealmInit, ListInv, ListOK
<1>2. ASSUME ProgressInv, ProgressInv', ListInv, [RealmNext]_realmVars
      PROVE  ListInv'
  <2>1. CASE TokenAges \/ Revoke \/ Onboard \/ UNCHANGED realmVars
    BY <1>2, <2>1, ListWorld
  <2>2. ASSUME NEW r \in Reqs, Begin(r) \/ Progress(r) \/ HangUp(r)
        PROVE  ListInv'
    <3>1. CASE LoadToken(r) \/ MintToken(r) \/ StoreToken(r) \/ HangUp(r)
      <4>1. account' = account /\ Busy(req[r])
        BY <3>1 DEF LoadToken, MintToken, StoreToken, HangUp, Busy
      <4>2. /\ OnlyToken(req'[r], req[r])
            /\ req'[r].call = req[r].call \/ Busy(req'[r])
        BY <1>2, <3>1, LoadMeans, MintMeans, StoreMeans, HangUpMeans DEF ProgressInv, Busy
      <4>3. ASSUME NEW p \in Reqs \ {r}
            PROVE  OnlyToken(req'[p], req[p]) /\ req'[p].call = req[p].call
        <5>1. CASE StoreToken(r)
          BY <1>2, <5>1, StoreMeans DEF ProgressInv
        <5>2. CASE LoadToken(r) \/ MintToken(r) \/ HangUp(r)
          <6>1. req'[p] = req[p]
            BY <1>2, <5>2, LoadMeans, MintMeans, HangUpMeans DEF ProgressInv
          <6>2. req[p] \in Requests
            BY <1>2 DEF ProgressInv, RealmTypeOK
          <6> QED BY <6>1, <6>2 DEF OnlyToken, SameCourse, SameListing
        <5> QED BY <3>1, <5>1, <5>2
      <4> QED BY <1>2, <4>1, <4>2, <4>3, ListToken
    <3> QED BY <1>2, <2>2, <3>1, ListBegin, ListSend, ListRetry, ListFail DEF Progress
  <2> QED BY <1>2, <2>1, <2>2 DEF RealmNext
<1> QED BY <1>1, <1>2, ProgressInvariance, PTL DEF RealmSpec

\* The paging loop of ListInvitations and ListUsersByRole, ended by a short page below
\* its cap: whoever was in the realm from the first page on, with nobody leaving it
\* meanwhile, has been listed, for any page size and any number of users.
THEOREM ListingsComplete == RealmSpec => []ListingIsComplete
<1>1. ProgressInv /\ ListInv => ListingIsComplete
  BY DEF ListInv, ListOK, ListingIsComplete, Answered
<1> QED BY <1>1, ProgressInvariance, ListInvariance, PTL

=============================================================================
