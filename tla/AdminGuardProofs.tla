-------------------------- MODULE AdminGuardProofs --------------------------
(***************************************************************************)
(* Proofs about AdminGuard, for any users, concurrent requests, verbs, TTL *)
(* and upstream timeout.  What a verdict is worth is an invariant about    *)
(* ages: the role was held no longer ago than the read has waited          *)
(* (ReadAge), and no longer ago than the entry has been kept plus one read *)
(* (EntryAge).                                                             *)
(***************************************************************************)
EXTENDS AdminGuard, TLAPS

\* Who a request is about is known as long as it matters.
Named ==
    \A r \in Reqs :
        /\ req[r].pc \in {"lookup", "store", "guard"} => req[r].caller \in Users
        /\ req[r].pc \in {"get", "apply", "invalidate"} => req[r].target \in Users

RoleIsFresh == \A u \in Users : user[u].admin => since[u] = 0

ReadAge ==
    \A r \in Reqs : req[r].pc = "store" /\ req[r].is => since[req[r].caller] <= req[r].wait

EntryAge ==
    \A u \in Users : entry[u].left > 0 /\ entry[u].is => since[u] + entry[u].left <= MaxAge

\* What was answered as taken is neither held, nor cached, nor about to be.
TakenIsTaken ==
    /\ \A u \in Users : out[u] => ~user[u].admin /\ ~(entry[u].left > 0 /\ entry[u].is)
    /\ \A r \in Reqs : req[r].pc = "store" /\ req[r].is => ~out[req[r].caller]

\* A count that nothing has outrun still holds.
Counted ==
    \A r \in Reqs : req[r].pc \in {"get", "apply"} /\ req[r].fresh /\ req[r].op \in Counting =>
        EnabledAdmins # {req[r].target}

GuardInv ==
    /\ GuardTypeOK /\ Named /\ RoleIsFresh /\ ReadAge /\ EntryAge /\ TakenIsTaken /\ Counted

-----------------------------------------------------------------------------
LEMMA NoReqTyped ==
    NoReq \in Requests /\ NoReq.pc = "idle" /\ ~NoReq.fresh /\ ~NoReq.is
BY TimesAssumption DEF NoReq, Requests, GuardPCs, Verbs

THEOREM GuardInitial == GuardInit => GuardInv
<1> SUFFICES ASSUME GuardInit PROVE GuardInv
  OBVIOUS
<1> USE DEF GuardInit
<1> DEFINE Row(a) == [here |-> TRUE, admin |-> a, enabled |-> TRUE]
           First == {Row(a) : a \in BOOLEAN}
<1>0. \A x \in First : x \in UserRows /\ x.here
  <2>1. \A a \in BOOLEAN : Row(a) \in UserRows /\ Row(a).here
    BY DEF UserRows
  <2> HIDE DEF Row
  <2> QED
    BY <2>1
<1>1. user \in [Users -> UserRows] /\ \A u \in Users : user[u].here
  <2>1. user \in [Users -> First]
    OBVIOUS
  <2> HIDE DEF First
  <2> QED
    BY <1>0, <2>1
<1>2. MaxAge \in Nat /\ 0 \in 0 .. MaxAge /\ MaxAge \in 0 .. MaxAge /\ 0 \in 0 .. TTL
  BY TimesAssumption DEF MaxAge
<1>3. GuardTypeOK
  BY <1>1, <1>2, NoReqTyped DEF GuardTypeOK, NoEntry
<1>4. Named /\ RoleIsFresh /\ ReadAge /\ EntryAge /\ TakenIsTaken /\ Counted
  BY <1>1, NoReqTyped DEF Named, RoleIsFresh, ReadAge, EntryAge, TakenIsTaken, Counted, NoEntry
<1> QED
  BY <1>3, <1>4 DEF GuardInv

\* A step of one request that changes nothing else.
LEMMA ReqStep ==
    ASSUME GuardInv, NEW r \in Reqs, NEW q \in Requests,
           req' = [req EXCEPT ![r] = q],
           UNCHANGED <<user, entry, since, out>>,
           q.pc \in {"lookup", "store", "guard"} => q.caller \in Users,
           q.pc \in {"get", "apply", "invalidate"} => q.target \in Users,
           q.pc = "store" /\ q.is => since[q.caller] <= q.wait /\ ~out[q.caller],
           q.pc \in {"get", "apply"} /\ q.fresh /\ q.op \in Counting => EnabledAdmins # {q.target}
    PROVE  GuardInv'
<1> USE DEF GuardInv
<1>1. req'[r] = q /\ \A t \in Reqs \ {r} : req'[t] = req[t]
  BY DEF GuardTypeOK
<1>2. GuardTypeOK'
  BY DEF GuardTypeOK
<1>3. Named' /\ ReadAge' /\ TakenIsTaken'
  BY <1>1 DEF Named, ReadAge, TakenIsTaken
<1>4. RoleIsFresh' /\ EntryAge'
  BY DEF RoleIsFresh, EntryAge
<1>5. Counted'
  BY <1>1 DEF Counted, EnabledAdmins
<1> QED
  BY <1>2, <1>3, <1>4, <1>5

LEMMA RefuseKeeps ==
    ASSUME GuardInv, NEW r \in Reqs, Refuse(r)
    PROVE  GuardInv'
BY NoReqTyped, ReqStep DEF Refuse

\* The record of a request, and of the caller the verdict is about.
LEMMA ReqFacts ==
    ASSUME GuardInv, NEW r \in Reqs
    PROVE  /\ req[r] \in Requests /\ req \in [Reqs -> Requests]
           /\ user \in [Users -> UserRows] /\ entry \in [Users -> [is : BOOLEAN, left : 0 .. TTL]]
           /\ since \in [Users -> 0 .. MaxAge] /\ out \in [Users -> BOOLEAN]
           /\ req[r].pc \in {"lookup", "store", "guard"} => req[r].caller \in Users
           /\ req[r].pc \in {"get", "apply", "invalidate"} => req[r].target \in Users
           /\ \A u \in Users : ~user[u].here => user[u] = Gone
BY DEF GuardInv, GuardTypeOK, Named

LEMMA ArriveKeeps ==
    ASSUME GuardInv, NEW r \in Reqs, NEW u \in Users, Arrive(r, u)
    PROVE  GuardInv'
<1> DEFINE ask == [NoReq EXCEPT !.pc = "lookup", !.caller = u, !.out = out[u]]
           in == [NoReq EXCEPT !.pc = "guard", !.caller = u]
<1>1. ask \in Requests /\ ask.pc = "lookup" /\ ask.caller = u
  BY NoReqTyped, ReqFacts DEF NoReq, Requests, GuardPCs
<1>2. in \in Requests /\ in.pc = "guard" /\ in.caller = u
  BY NoReqTyped DEF NoReq, Requests, GuardPCs
<1>3. UNCHANGED <<user, entry, since, out>>
  BY DEF Arrive, Miss
<1>4. \/ req' = [req EXCEPT ![r] = ask] \/ req' = [req EXCEPT ![r] = in]
      \/ req' = [req EXCEPT ![r] = NoReq]
  BY DEF Arrive, Miss, Decide
<1> HIDE DEF ask, in
<1> QED
  BY <1>1, <1>2, <1>3, <1>4, NoReqTyped, ReqStep

LEMMA LookupKeeps ==
    ASSUME GuardInv, NEW r \in Reqs, Lookup(r)
    PROVE  GuardInv'
<1> DEFINE u == req[r].caller
           q == [req[r] EXCEPT !.pc = "store", !.is = user[u].admin,
                               !.out = user[u].admin /\ req[r].out]
<1>1. CASE Refuse(r)
  BY <1>1, RefuseKeeps
<1>2. CASE ~Refuse(r)
  <2>1. /\ req[r].pc = "lookup" /\ u \in Users /\ UNCHANGED <<user, entry, since, out>>
        /\ req' = [req EXCEPT ![r] = q]
    BY <1>2, ReqFacts DEF Lookup
  <2>2. q \in Requests /\ q.pc = "store" /\ q.caller = u /\ q.is = user[u].admin
        /\ q.wait = req[r].wait
    BY <2>1, ReqFacts DEF Requests, GuardPCs, UserRows
  <2>3. q.is => since[u] <= q.wait /\ ~out[u]
    BY <2>1, <2>2, ReqFacts DEF GuardInv, RoleIsFresh, TakenIsTaken, Requests
  <2> HIDE DEF q
  <2> QED
    BY <2>1, <2>2, <2>3, ReqStep
<1> QED
  BY <1>1, <1>2

LEMMA StoreKeeps ==
    ASSUME GuardInv, NEW r \in Reqs, Store(r)
    PROVE  GuardInv'
<1> DEFINE u == req[r].caller
           e == [is |-> req[r].is, left |-> TTL]
           in == [NoReq EXCEPT !.pc = "guard", !.caller = u]
           q == IF req[r].is THEN in ELSE NoReq
<1> USE DEF GuardInv
<1>1. /\ req[r].pc = "store" /\ u \in Users /\ req[r] \in Requests
      /\ entry' = [entry EXCEPT ![u] = e] /\ req' = [req EXCEPT ![r] = q]
      /\ UNCHANGED <<user, since, out>>
  BY ReqFacts DEF Store, Decide
<1>2. in \in Requests /\ in.pc = "guard" /\ in.caller = u
  BY <1>1, NoReqTyped DEF NoReq, Requests, GuardPCs
<1>3. q \in Requests /\ q.pc \in {"idle", "guard"} /\ (q.pc = "guard" => q.caller \in Users)
  BY <1>1, <1>2, NoReqTyped
<1>4. e \in [is : BOOLEAN, left : 0 .. TTL]
  BY <1>1, TimesAssumption DEF Requests
<1>5. req[r].is => since[u] <= Latency /\ ~out[u]
  <2>1. req[r].wait \in 0 .. Latency /\ since[u] \in 0 .. MaxAge
    BY <1>1, ReqFacts DEF Requests
  <2>2. req[r].is => since[u] <= req[r].wait /\ ~out[u]
    BY <1>1 DEF ReadAge, TakenIsTaken
  <2>3. Latency \in Nat /\ MaxAge \in Nat
    BY TimesAssumption DEF MaxAge
  <2> QED
    BY <2>1, <2>2, <2>3
<1>6. e.is = req[r].is /\ e.left = TTL
  OBVIOUS
<1> HIDE DEF q, e, in, u
<1>7. /\ req'[r] = q /\ \A t \in Reqs \ {r} : req'[t] = req[t]
      /\ entry'[u] = e /\ \A v \in Users \ {u} : entry'[v] = entry[v]
  BY <1>1, ReqFacts
<1>8. GuardTypeOK'
  BY <1>1, <1>3, <1>4 DEF GuardTypeOK
<1>9. Named' /\ ReadAge' /\ RoleIsFresh'
  BY <1>1, <1>3, <1>7 DEF Named, ReadAge, RoleIsFresh
<1>10. EntryAge'
  BY <1>1, <1>5, <1>6, <1>7, ReqFacts, TimesAssumption DEF EntryAge, MaxAge
<1>11. TakenIsTaken'
  <2>1. ~(e.is /\ out[u])
    BY <1>5, <1>6
  <2>2. \A v \in Users : out[v] => ~user[v].admin /\ ~(entry'[v].left > 0 /\ entry'[v].is)
    BY <1>7, <2>1 DEF TakenIsTaken
  <2>3. \A t \in Reqs : req'[t].pc = "store" /\ req'[t].is => ~out[req'[t].caller]
    BY <1>3, <1>7 DEF TakenIsTaken
  <2> QED
    BY <1>1, <2>2, <2>3 DEF TakenIsTaken
<1>12. Counted'
  BY <1>1, <1>3, <1>7 DEF Counted, EnabledAdmins
<1> QED
  BY <1>8, <1>9, <1>10, <1>11, <1>12

LEMMA GuardKeeps ==
    ASSUME GuardInv, NEW r \in Reqs, NEW op \in Verbs, NEW t \in Users, Guard(r, op, t)
    PROVE  GuardInv'
<1> DEFINE q == [NoReq EXCEPT !.op = op, !.target = t, !.fresh = op \in Counting,
                  !.pc = IF op \in {"disable", "enable", "edit"} THEN "get" ELSE "apply"]
<1>1. CASE Refuse(r)
  BY <1>1, RefuseKeeps
<1>2. CASE ~Refuse(r)
  <2>1. /\ req' = [req EXCEPT ![r] = q] /\ UNCHANGED <<user, entry, since, out>>
        /\ op \in Counting => EnabledAdmins # {t}
    BY <1>2 DEF Guard, LastAdmin
  <2>2. q \in Requests /\ q.pc \in {"get", "apply"} /\ q.target = t /\ q.op = op
    <3> DEFINE p == IF op \in {"disable", "enable", "edit"} THEN "get" ELSE "apply"
               f == op \in Counting
    <3>1. p \in {"get", "apply"} /\ f \in BOOLEAN
      OBVIOUS
    <3>2. q = [NoReq EXCEPT !.op = op, !.target = t, !.fresh = f, !.pc = p]
      OBVIOUS
    <3> HIDE DEF q, p, f
    <3> QED
      BY <3>1, <3>2, NoReqTyped DEF NoReq, Requests, GuardPCs
  <2> HIDE DEF q
  <2> QED
    BY <2>1, <2>2, ReqStep
<1> QED
  BY <1>1, <1>2

LEMMA GetUserKeeps ==
    ASSUME GuardInv, NEW r \in Reqs, GetUser(r)
    PROVE  GuardInv'
<1> DEFINE t == req[r].target
           on == IF req[r].op = "edit" THEN user[t].enabled ELSE req[r].op = "enable"
           q == [req[r] EXCEPT !.pc = "apply", !.enabled = on]
<1>1. CASE Refuse(r)
  BY <1>1, RefuseKeeps
<1>2. CASE ~Refuse(r)
  <2>1. /\ req[r].pc = "get" /\ t \in Users /\ UNCHANGED <<user, entry, since, out>>
        /\ req' = [req EXCEPT ![r] = q]
    BY <1>2, ReqFacts DEF GetUser
  <2>2. on \in BOOLEAN
    BY <2>1, ReqFacts DEF UserRows
  <2> HIDE DEF on
  <2>3. q \in Requests /\ q.pc = "apply" /\ q.target = t /\ q.op = req[r].op
        /\ q.fresh = req[r].fresh
    BY <2>1, <2>2, ReqFacts DEF Requests, GuardPCs
  <2>4. q.fresh /\ q.op \in Counting => EnabledAdmins # {t}
    BY <2>1, <2>3 DEF GuardInv, Counted
  <2> HIDE DEF q
  <2> QED
    BY <2>1, <2>3, <2>4, ReqStep
<1> QED
  BY <1>1, <1>2
-----------------------------------------------------------------------------
\* The realm changes: every count is outrun, and one request at most moves on.
LEMMA RealmStep ==
    ASSUME GuardInv, NEW t \in Users, NEW row \in UserRows, ~row.here => row = Gone,
           RealmChanges(t, row), UNCHANGED entry,
           req' \in [Reqs -> Requests],
           \A q \in Reqs :
              /\ ~req'[q].fresh
              /\ \/ req'[q].pc = "idle"
                 \/ req'[q].pc = "invalidate" /\ req'[q].target \in Users
                 \/ /\ req'[q].pc = req[q].pc /\ req'[q].caller = req[q].caller
                    /\ req'[q].target = req[q].target /\ req'[q].is = req[q].is
                    /\ req'[q].wait = req[q].wait
    PROVE  GuardInv'
<1> USE DEF GuardInv
<1>1. /\ user'[t] = row /\ \A u \in Users \ {t} : user'[u] = user[u]
      /\ \A u \in Users : since'[u] = IF row.admin /\ u = t THEN 0 ELSE since[u]
      /\ out'[t] = (out[t] /\ ~row.admin) /\ \A u \in Users \ {t} : out'[u] = out[u]
  BY ReqFacts DEF RealmChanges, GuardTypeOK
<1>2. MaxAge \in Nat /\ 0 \in 0 .. MaxAge
  BY TimesAssumption DEF MaxAge
<1>3. GuardTypeOK'
  <2>1. user' \in [Users -> UserRows] /\ \A u \in Users : ~user'[u].here => user'[u] = Gone
    BY <1>1 DEF RealmChanges, GuardTypeOK
  <2>2. since' \in [Users -> 0 .. MaxAge]
    BY <1>2 DEF RealmChanges, GuardTypeOK
  <2>3. out' \in [Users -> BOOLEAN]
    <3>1. (out[t] /\ ~row.admin) \in BOOLEAN
      OBVIOUS
    <3> QED
      BY <3>1 DEF RealmChanges, GuardTypeOK
  <2> QED
    BY <2>1, <2>2, <2>3 DEF GuardTypeOK
<1>4. Named'
  BY DEF Named
<1>5. RoleIsFresh'
  BY <1>1 DEF RoleIsFresh
<1>6. ReadAge'
  <2> SUFFICES ASSUME NEW q \in Reqs, req'[q].pc = "store", req'[q].is
               PROVE  since'[req'[q].caller] <= req'[q].wait
    BY DEF ReadAge
  <2>1. /\ req[q].pc = "store" /\ req[q].is /\ req'[q].caller = req[q].caller
        /\ req'[q].wait = req[q].wait /\ req[q].caller \in Users
        /\ req[q].wait \in 0 .. Latency
    BY ReqFacts DEF Requests, Named
  <2>2. since[req[q].caller] <= req[q].wait
    BY <2>1 DEF ReadAge
  <2> QED
    BY <1>1, <2>1, <2>2, TimesAssumption
<1>7. EntryAge'
  <2> SUFFICES ASSUME NEW u \in Users, entry[u].left > 0, entry[u].is
               PROVE  since'[u] + entry[u].left <= MaxAge
    BY DEF EntryAge
  <2>1. since[u] + entry[u].left <= MaxAge /\ entry[u].left \in 0 .. TTL /\ since[u] \in 0 .. MaxAge
    BY DEF EntryAge, GuardTypeOK
  <2> QED
    BY <1>1, <1>2, <2>1, TimesAssumption
<1>8. TakenIsTaken'
  <2>1. \A u \in Users : out'[u] => out[u] /\ ~user'[u].admin
    BY <1>1 DEF TakenIsTaken
  <2>2. \A q \in Reqs : req'[q].pc = "store" /\ req'[q].is =>
            req[q].pc = "store" /\ req[q].is /\ req'[q].caller = req[q].caller
            /\ req[q].caller \in Users
    BY DEF Named
  <2> QED
    BY <2>1, <2>2 DEF TakenIsTaken
<1>9. Counted'
  BY DEF Counted
<1> QED
  BY <1>3, <1>4, <1>5, <1>6, <1>7, <1>8, <1>9

LEMMA OutrunFacts ==
    ASSUME GuardInv
    PROVE  /\ Outrun \in [Reqs -> Requests]
           /\ \A q \in Reqs : /\ ~Outrun[q].fresh
                              /\ Outrun[q].pc = req[q].pc /\ Outrun[q].caller = req[q].caller
                              /\ Outrun[q].target = req[q].target /\ Outrun[q].is = req[q].is
                              /\ Outrun[q].wait = req[q].wait
<1> DEFINE Dull(q) == [req[q] EXCEPT !.fresh = FALSE]
<1>1. ASSUME NEW q \in Reqs
      PROVE  /\ Dull(q) \in Requests /\ ~Dull(q).fresh
             /\ Dull(q).pc = req[q].pc /\ Dull(q).caller = req[q].caller
             /\ Dull(q).target = req[q].target /\ Dull(q).is = req[q].is
             /\ Dull(q).wait = req[q].wait
  BY ReqFacts DEF Requests
<1>2. Outrun = [q \in Reqs |-> Dull(q)]
  BY DEF Outrun
<1> HIDE DEF Dull
<1> QED
  BY <1>1, <1>2

LEMMA ChangeOutOfBandKeeps ==
    ASSUME GuardInv, NEW t \in Users, ChangeOutOfBand(t)
    PROVE  GuardInv'
<1>1. PICK row \in {Gone} \cup [here : {TRUE}, admin : BOOLEAN, enabled : BOOLEAN] :
          RealmChanges(t, row)
  BY DEF ChangeOutOfBand
<1>2. row \in UserRows /\ (~row.here => row = Gone)
  <2>1. Gone \in UserRows
    BY DEF UserRows, Gone
  <2>2. CASE row \in [here : {TRUE}, admin : BOOLEAN, enabled : BOOLEAN]
    BY <2>2 DEF UserRows
  <2> QED
    BY <2>1, <2>2
<1>3. req' = Outrun /\ UNCHANGED entry
  BY DEF ChangeOutOfBand
<1> QED
  BY <1>1, <1>2, <1>3, OutrunFacts, RealmStep

LEMMA RowEdits ==
    ASSUME NEW x \in UserRows, NEW b \in BOOLEAN
    PROVE  /\ [x EXCEPT !.admin = b] \in UserRows /\ [x EXCEPT !.enabled = b] \in UserRows
           /\ [x EXCEPT !.admin = b].here = x.here /\ [x EXCEPT !.enabled = b].here = x.here
BY DEF UserRows

LEMMA ApplyKeeps ==
    ASSUME GuardInv, NEW r \in Reqs, Apply(r)
    PROVE  GuardInv'
<1> DEFINE q == req[r]
           row == Applied(q)
           done == [NoReq EXCEPT !.pc = "invalidate", !.op = q.op, !.target = q.target]
<1>1. CASE Refuse(r)
  BY <1>1, RefuseKeeps
<1>2. CASE ~Refuse(r)
  <2>1. /\ q.pc = "apply" /\ q.target \in Users /\ q \in Requests
        /\ user[q.target].here \/ q.op = "deleteRole"
        /\ RealmChanges(q.target, row) /\ UNCHANGED entry
    BY <1>2, ReqFacts DEF Apply
  <2>2. PICK d \in {done, NoReq} : req' = [Outrun EXCEPT ![r] = d]
    BY <1>2 DEF Apply
  <2>3. /\ done \in Requests /\ done.pc = "invalidate" /\ done.target = q.target /\ ~done.fresh
    BY <2>1, NoReqTyped DEF NoReq, Requests, GuardPCs
  <2>4. d \in Requests /\ ~d.fresh /\ (d.pc = "idle" \/ (d.pc = "invalidate" /\ d.target \in Users))
    BY <2>1, <2>2, <2>3, NoReqTyped
  <2>5. row \in UserRows /\ (~row.here => row = Gone)
    <3>1. user[q.target] \in UserRows /\ (~user[q.target].here => user[q.target] = Gone)
      BY <2>1, ReqFacts
    <3>2. q.enabled \in BOOLEAN
      BY <2>1 DEF Requests
    <3>3. CASE q.op \in {"grant", "revoke", "disable", "enable", "edit"}
      <4>1. user[q.target].here
        BY <2>1, <3>3
      <4>2. \/ row = [user[q.target] EXCEPT !.admin = TRUE]
            \/ row = [user[q.target] EXCEPT !.admin = FALSE]
            \/ row = [user[q.target] EXCEPT !.enabled = q.enabled]
        BY <3>3 DEF Applied
      <4> HIDE DEF row, q
      <4> QED
        BY <3>1, <3>2, <4>1, <4>2, RowEdits
    <3>4. CASE q.op \notin {"grant", "revoke", "disable", "enable", "edit"}
      <4>1. row = Gone \/ row = user[q.target]
        BY <3>4 DEF Applied
      <4>2. Gone \in UserRows
        BY DEF UserRows, Gone
      <4> HIDE DEF row, q
      <4> QED
        BY <3>1, <4>1, <4>2
    <3> QED
      BY <3>3, <3>4
  <2> HIDE DEF row, done
  <2>6. /\ req' \in [Reqs -> Requests] /\ req'[r] = d
        /\ \A p \in Reqs \ {r} : req'[p] = Outrun[p]
    BY <2>2, <2>4, OutrunFacts
  <2> QED
    BY <2>1, <2>4, <2>5, <2>6, OutrunFacts, RealmStep
<1> QED
  BY <1>1, <1>2

LEMMA InvalidateKeeps ==
    ASSUME GuardInv, NEW r \in Reqs, Invalidate(r)
    PROVE  GuardInv'
<1> DEFINE q == req[r]
           t == q.target
           told == out[t] \/ Answered(q)
<1> USE DEF GuardInv
<1>1. /\ q.pc = "invalidate" /\ t \in Users /\ UNCHANGED <<user, since>>
      /\ out' = [out EXCEPT ![t] = told] /\ req' = [req EXCEPT ![r] = NoReq]
      /\ \A u \in Users : entry'[u] = NoEntry \/ entry'[u] = entry[u]
      /\ entry'[t] = NoEntry
      /\ entry' \in [Users -> [is : BOOLEAN, left : 0 .. TTL]]
  <2>1. entry' = [u \in Users |-> IF u = q.target \/ q.op = "deleteRole" THEN NoEntry
                                  ELSE entry[u]]
    BY DEF Invalidate
  <2>2. NoEntry \in [is : BOOLEAN, left : 0 .. TTL]
    BY TimesAssumption DEF NoEntry
  <2>3. q.pc = "invalidate" /\ t \in Users
    BY ReqFacts DEF Invalidate, Answer
  <2>4. entry' \in [Users -> [is : BOOLEAN, left : 0 .. TTL]]
    BY <2>1, <2>2, ReqFacts
  <2> QED
    BY <2>1, <2>3, <2>4 DEF Invalidate, Answer
<1>2. /\ req'[r] = NoReq /\ \A p \in Reqs \ {r} : req'[p] = req[p]
      /\ out'[t] = told /\ \A u \in Users \ {t} : out'[u] = out[u]
      /\ told \in BOOLEAN
  BY <1>1, ReqFacts DEF Answered
<1>3. GuardTypeOK'
  <2>1. req' \in [Reqs -> Requests] /\ out' \in [Users -> BOOLEAN]
    BY <1>1, <1>2, NoReqTyped, ReqFacts
  <2> QED
    BY <1>1, <2>1 DEF GuardTypeOK
<1>4. Named' /\ ReadAge' /\ RoleIsFresh'
  BY <1>1, <1>2, NoReqTyped DEF Named, ReadAge, RoleIsFresh
<1>5. EntryAge'
  <2>1. NoEntry.left = 0
    BY DEF NoEntry
  <2> QED
    BY <1>1, <2>1 DEF EntryAge
<1>6. TakenIsTaken'
  <2>1. NoEntry.left = 0
    BY DEF NoEntry
  <2>2. Answered(q) => ~user[t].admin /\ \A p \in Reqs :
            ~(req[p].pc = "store" /\ req[p].caller = t /\ req[p].is)
    BY DEF Answered
  <2>3. \A u \in Users : out'[u] => ~user[u].admin /\ ~(entry'[u].left > 0 /\ entry'[u].is)
    <3> HIDE DEF told, t, q
    <3>1. out[t] => ~user[t].admin
      BY <1>1 DEF TakenIsTaken
    <3>2. told => ~user[t].admin
      BY <2>2, <3>1 DEF told
    <3>3. \A u \in Users \ {t} : out[u] => ~user[u].admin /\ ~(entry'[u].left > 0 /\ entry'[u].is)
      BY <1>1, <2>1 DEF TakenIsTaken
    <3> QED
      BY <1>1, <1>2, <2>1, <3>2, <3>3
  <2>4. \A p \in Reqs : req'[p].pc = "store" /\ req'[p].is => ~out'[req'[p].caller]
    <3> SUFFICES ASSUME NEW p \in Reqs, req'[p].pc = "store", req'[p].is
                 PROVE  ~out'[req'[p].caller]
      OBVIOUS
    <3>1. p # r /\ req'[p] = req[p]
      BY <1>2, NoReqTyped
    <3>2. ~out[req[p].caller] /\ req[p].caller \in Users
      BY <3>1 DEF TakenIsTaken, Named
    <3> HIDE DEF told, t, q
    <3>3. req[p].caller = t => ~told
      BY <2>2, <3>1, <3>2 DEF told
    <3> QED
      BY <1>2, <3>1, <3>2, <3>3
  <2> QED
    BY <1>1, <2>3, <2>4 DEF TakenIsTaken
<1>7. Counted'
  BY <1>1, <1>2, NoReqTyped DEF Counted, EnabledAdmins
<1> QED
  BY <1>3, <1>4, <1>5, <1>6, <1>7

LEMMA TickKeeps ==
    ASSUME GuardInv, Tick
    PROVE  GuardInv'
<1> DEFINE Aged(u) == IF entry[u].left > 1 THEN [entry[u] EXCEPT !.left = entry[u].left - 1]
                      ELSE NoEntry
           Waited(r) == IF req[r].pc = "store" THEN [req[r] EXCEPT !.wait = req[r].wait + 1]
                        ELSE req[r]
<1> USE DEF GuardInv
<1>1. /\ entry' = [u \in Users |-> Aged(u)]
      /\ since' = [u \in Users |-> IF user[u].admin \/ since[u] = MaxAge THEN since[u]
                                   ELSE since[u] + 1]
      /\ req' = [r \in Reqs |-> Waited(r)]
      /\ UNCHANGED <<user, out>>
      /\ \A r \in Reqs : req[r].pc = "store" => req[r].wait < Latency
  BY DEF Tick
<1>2. TTL \in Nat /\ Latency \in Nat /\ MaxAge \in Nat
  BY TimesAssumption DEF MaxAge
<1>3. ASSUME NEW u \in Users
      PROVE  /\ Aged(u) \in [is : BOOLEAN, left : 0 .. TTL]
             /\ Aged(u).left > 0 => Aged(u).is = entry[u].is /\ Aged(u).left = entry[u].left - 1
                                    /\ entry[u].left > 0
  <2>1. entry[u] \in [is : BOOLEAN, left : 0 .. TTL]
    BY ReqFacts DEF GuardTypeOK
  <2>2. NoEntry \in [is : BOOLEAN, left : 0 .. TTL] /\ NoEntry.left = 0
    BY <1>2 DEF NoEntry
  <2> QED
    BY <1>2, <2>1, <2>2
<1>4. ASSUME NEW r \in Reqs
      PROVE  /\ Waited(r) \in Requests
             /\ Waited(r).pc = req[r].pc /\ Waited(r).caller = req[r].caller
             /\ Waited(r).target = req[r].target /\ Waited(r).is = req[r].is
             /\ Waited(r).op = req[r].op /\ Waited(r).fresh = req[r].fresh
             /\ req[r].pc = "store" => Waited(r).wait = req[r].wait + 1
  <2>1. req[r] \in Requests /\ (req[r].pc = "store" => req[r].wait + 1 \in 0 .. Latency)
    BY <1>1, <1>2, ReqFacts DEF Requests
  <2> QED
    BY <2>1 DEF Requests
<1> HIDE DEF Aged, Waited
<1>5. GuardTypeOK'
  <2>1. \A u \in Users : since[u] \in 0 .. MaxAge
    BY DEF GuardTypeOK
  <2>2. since' \in [Users -> 0 .. MaxAge]
    BY <1>1, <1>2, <2>1
  <2>3. req' \in [Reqs -> Requests] /\ entry' \in [Users -> [is : BOOLEAN, left : 0 .. TTL]]
    BY <1>1, <1>3, <1>4
  <2> QED
    BY <1>1, <2>2, <2>3 DEF GuardTypeOK
<1>6. Named' /\ RoleIsFresh' /\ TakenIsTaken'
  BY <1>1, <1>3, <1>4 DEF Named, RoleIsFresh, TakenIsTaken
<1>7. \A u \in Users : since'[u] <= since[u] + 1 /\ since[u] \in Nat /\ since'[u] \in Nat
  BY <1>1, <1>2 DEF GuardTypeOK
<1>8. ReadAge'
  <2> SUFFICES ASSUME NEW r \in Reqs, req'[r].pc = "store", req'[r].is
               PROVE  since'[req'[r].caller] <= req'[r].wait
    BY DEF ReadAge
  <2>1. /\ req[r].pc = "store" /\ req[r].is /\ req'[r].caller = req[r].caller
        /\ req'[r].wait = req[r].wait + 1 /\ req[r].caller \in Users /\ req[r].wait \in Nat
    BY <1>1, <1>2, <1>4, ReqFacts DEF Requests
  <2>2. since[req[r].caller] <= req[r].wait
    BY <2>1 DEF ReadAge
  <2> QED
    BY <1>7, <2>1, <2>2
<1>9. EntryAge'
  <2> SUFFICES ASSUME NEW u \in Users, entry'[u].left > 0, entry'[u].is
               PROVE  since'[u] + entry'[u].left <= MaxAge
    BY DEF EntryAge
  <2>1. entry[u].is /\ entry[u].left > 0 /\ entry'[u].left = entry[u].left - 1
        /\ entry[u].left \in Nat
    BY <1>1, <1>2, <1>3 DEF GuardTypeOK
  <2>2. since[u] + entry[u].left <= MaxAge
    BY <2>1 DEF EntryAge
  <2> QED
    BY <1>2, <1>7, <2>1, <2>2
<1>10. Counted'
  BY <1>1, <1>4 DEF Counted, EnabledAdmins
<1> QED
  BY <1>5, <1>6, <1>8, <1>9, <1>10

THEOREM GuardInductive ==
    GuardInv /\ [GuardNext]_guardVars => GuardInv'
<1> SUFFICES ASSUME GuardInv, [GuardNext]_guardVars PROVE GuardInv'
  OBVIOUS
<1>1. ASSUME NEW r \in Reqs, NEW u \in Users, Arrive(r, u) PROVE GuardInv'
  BY <1>1, ArriveKeeps
<1>2. ASSUME NEW r \in Reqs, Lookup(r) PROVE GuardInv'
  BY <1>2, LookupKeeps
<1>3. ASSUME NEW r \in Reqs, Store(r) PROVE GuardInv'
  BY <1>3, StoreKeeps
<1>4. ASSUME NEW r \in Reqs, NEW t \in Users, NEW op \in Ops[r], Guard(r, op, t) PROVE GuardInv'
  <2>1. op \in Verbs
    BY OpsAssumption
  <2> QED
    BY <1>4, <2>1, GuardKeeps
<1>5. ASSUME NEW r \in Reqs, GetUser(r) PROVE GuardInv'
  BY <1>5, GetUserKeeps
<1>6. ASSUME NEW r \in Reqs, Apply(r) PROVE GuardInv'
  BY <1>6, ApplyKeeps
<1>7. ASSUME NEW r \in Reqs, Invalidate(r) PROVE GuardInv'
  BY <1>7, InvalidateKeeps
<1>8. ASSUME NEW t \in Users, ChangeOutOfBand(t) PROVE GuardInv'
  BY <1>8, ChangeOutOfBandKeeps
<1>9. CASE Tick
  BY <1>9, TickKeeps
<1>10. CASE UNCHANGED guardVars
  BY <1>10 DEF guardVars, GuardInv, GuardTypeOK, Named, RoleIsFresh, ReadAge, EntryAge,
               TakenIsTaken, Counted, EnabledAdmins
<1> QED
  BY <1>1, <1>2, <1>3, <1>4, <1>5, <1>6, <1>7, <1>8, <1>9, <1>10 DEF GuardNext

THEOREM GuardInvariant == GuardSpec => []GuardInv
BY GuardInitial, GuardInductive, PTL DEF GuardSpec

(* Every reachable state of a request, a cached verdict and a user is of   *)
(* the declared shape: a cached answer never outlives TTL, a read never    *)
(* waits past the upstream timeout, a deleted user keeps no role           *)
(* (CachedAdminChecker.entries, RequireLiveAdmin, UpdateUser).             *)
THEOREM GuardTypeCorrect == GuardSpec => []GuardTypeOK
<1>1. GuardInv => GuardTypeOK
  BY DEF GuardInv
<1> QED
  BY <1>1, GuardInvariant, PTL

-----------------------------------------------------------------------------
\* A request moves by its own steps only.
LEMMA OwnSteps ==
    ASSUME GuardInv, [GuardNext]_guardVars, NEW r \in Reqs
    PROVE  \/ req'[r].pc = req[r].pc
           \/ \E u \in Users : Arrive(r, u)
           \/ Lookup(r) \/ Store(r)
           \/ \E t \in Users, op \in Ops[r] : Guard(r, op, t)
           \/ GetUser(r) \/ Apply(r) \/ Invalidate(r)
<1>1. req \in [Reqs -> Requests]
  BY ReqFacts
<1>2. ASSUME NEW p \in Reqs, p # r,
             \/ \E u \in Users : Arrive(p, u)
             \/ Lookup(p) \/ Store(p)
             \/ \E t \in Users, op \in Ops[p] : Guard(p, op, t)
             \/ GetUser(p) \/ Invalidate(p)
      PROVE  req'[r].pc = req[r].pc
  <2>1. req'[r] = req[r]
    <3>1. CASE \E u \in Users : Arrive(p, u)
      BY <1>1, <1>2, <3>1 DEF Arrive, Decide, Miss
    <3>2. CASE Lookup(p) \/ Store(p)
      BY <1>1, <1>2, <3>2 DEF Lookup, Refuse, Store, Decide
    <3>3. CASE \E t \in Users, op \in Ops[p] : Guard(p, op, t)
      BY <1>1, <1>2, <3>3 DEF Guard, Refuse
    <3>4. CASE GetUser(p) \/ Invalidate(p)
      BY <1>1, <1>2, <3>4 DEF GetUser, Refuse, Invalidate, Answer
    <3> QED
      BY <1>2, <3>1, <3>2, <3>3, <3>4
  <2> QED
    BY <2>1
<1>3. ASSUME NEW p \in Reqs, p # r, Apply(p) PROVE req'[r].pc = req[r].pc
  <2>1. Outrun \in [Reqs -> Requests] /\ Outrun[r].pc = req[r].pc
    BY OutrunFacts
  <2>2. CASE Refuse(p)
    BY <1>1, <1>3, <2>2 DEF Refuse
  <2>3. CASE ~Refuse(p)
    <3>1. PICK d : req' = [Outrun EXCEPT ![p] = d]
      BY <1>3, <2>3 DEF Apply
    <3> QED
      BY <1>3, <2>1, <3>1
  <2> QED
    BY <2>2, <2>3
<1>4. ASSUME NEW t \in Users, ChangeOutOfBand(t) PROVE req'[r].pc = req[r].pc
  BY <1>4, OutrunFacts DEF ChangeOutOfBand
<1>5. CASE Tick
  <2>1. req'[r] = IF req[r].pc = "store" THEN [req[r] EXCEPT !.wait = @ + 1] ELSE req[r]
    BY <1>5 DEF Tick
  <2>2. req[r] \in Requests
    BY <1>1
  <2> QED
    BY <2>1, <2>2 DEF Requests
<1>6. CASE UNCHANGED guardVars
  BY <1>6 DEF guardVars
<1> QED
  BY <1>2, <1>3, <1>4, <1>5, <1>6 DEF GuardNext

\* The two ways in: a cached verdict that is still fresh, and the one just read.
LEMMA WaysIn ==
    ASSUME GuardInv, [GuardNext]_guardVars, NEW r \in Reqs, Admits(r)
    PROVE  \/ \E u \in Users : /\ entry[u].left > 0 /\ entry[u].is
                               /\ req'[r].caller = u /\ req[r].pc = "idle"
           \/ /\ req[r].pc = "store" /\ req[r].is
              /\ req'[r].caller = req[r].caller /\ req[r].caller \in Users
<1>1. req \in [Reqs -> Requests] /\ req[r].pc # req'[r].pc
  BY ReqFacts DEF Admits
<1>2. CASE \E u \in Users : Arrive(r, u)
  <2>1. PICK u \in Users : Arrive(r, u)
    BY <1>2
  <2> DEFINE in == [NoReq EXCEPT !.pc = "guard", !.caller = u]
             ask == [NoReq EXCEPT !.pc = "lookup", !.caller = u, !.out = out[u]]
  <2>2. in.caller = u /\ ask.pc = "lookup"
    BY DEF NoReq
  <2>3. req'[r].pc = "guard" /\ req[r].pc = "idle"
    BY <2>1 DEF Arrive, Admits
  <2>4. CASE entry[u].left > 0 /\ Decide(r, u, entry[u].is)
    <3>1. req'[r] = IF entry[u].is THEN in ELSE NoReq
      BY <1>1, <2>4 DEF Decide
    <3> HIDE DEF in
    <3> QED
      BY <2>2, <2>3, <2>4, <3>1, NoReqTyped
  <2>5. CASE Miss(r, u)
    <3>1. req'[r] = ask
      BY <1>1, <2>5 DEF Miss
    <3> HIDE DEF ask
    <3> QED
      BY <2>2, <2>3, <3>1
  <2> QED
    BY <2>1, <2>4, <2>5 DEF Arrive
<1>3. CASE Store(r)
  <2> DEFINE in == [NoReq EXCEPT !.pc = "guard", !.caller = req[r].caller]
  <2>1. req'[r] = IF req[r].is THEN in ELSE NoReq
    BY <1>1, <1>3 DEF Store, Decide
  <2>2. in.caller = req[r].caller
    BY DEF NoReq
  <2>3. req'[r].pc = "guard" /\ req[r].pc = "store" /\ req[r].caller \in Users
    BY <1>3, ReqFacts DEF Store, Admits
  <2> HIDE DEF in
  <2> QED
    BY <2>1, <2>2, <2>3, NoReqTyped
<1>4. ~Lookup(r) /\ ~GetUser(r) /\ ~Apply(r) /\ ~Invalidate(r)
      /\ ~\E t \in Users, op \in Ops[r] : Guard(r, op, t)
  BY DEF Admits, Lookup, GetUser, Apply, Invalidate, Answer, Guard
<1> QED
  BY <1>1, <1>2, <1>3, <1>4, OwnSteps

(* A caller that is admitted held the admin role less than one TTL and one *)
(* upstream timeout ago, for any users, requests and times                 *)
(* (CachedAdminChecker.IsAdmin, RequireLiveAdmin).                         *)
THEOREM VerdictsAge == GuardSpec => StalenessBounded
<1>1. GuardInv /\ [GuardNext]_guardVars =>
        [\A r \in Reqs : Admits(r) => since[req'[r].caller] < MaxAge]_guardVars
  <2> SUFFICES ASSUME GuardInv, [GuardNext]_guardVars, NEW r \in Reqs, Admits(r)
               PROVE  since[req'[r].caller] < MaxAge
    OBVIOUS
  <2>1. TTL \in Nat /\ TTL >= 1 /\ Latency \in Nat /\ MaxAge = TTL + Latency
    BY TimesAssumption DEF MaxAge
  <2>2. CASE \E u \in Users : entry[u].left > 0 /\ entry[u].is /\ req'[r].caller = u
    <3>1. PICK u \in Users : entry[u].left > 0 /\ entry[u].is /\ req'[r].caller = u
      BY <2>2
    <3>2. since[u] + entry[u].left <= MaxAge /\ entry[u].left \in Nat /\ since[u] \in Nat
      BY <2>1, <3>1 DEF GuardInv, EntryAge, GuardTypeOK
    <3> QED
      BY <2>1, <3>1, <3>2
  <2>3. CASE /\ req[r].pc = "store" /\ req[r].is
             /\ req'[r].caller = req[r].caller /\ req[r].caller \in Users
    <3>1. since[req[r].caller] <= req[r].wait /\ since[req[r].caller] \in Nat
      BY <2>1, <2>3 DEF GuardInv, ReadAge, GuardTypeOK
    <3>2. req[r].wait \in 0 .. Latency
      BY ReqFacts DEF Requests
    <3> QED
      BY <2>1, <2>3, <3>1, <3>2
  <2> QED
    BY <2>2, <2>3, WaysIn
<1> QED
  BY <1>1, GuardInvariant, PTL DEF GuardSpec, StalenessBounded

(* Nobody who was answered for as having lost the role is admitted again   *)
(* by a verdict of before: the cache dropped it, and no check is about to  *)
(* store it (handler.go UnassignRoleFromUser, DeleteUser).                 *)
THEOREM RevokedStaysOut == GuardSpec => RevokedIsRefused
<1>1. GuardInv /\ [GuardNext]_guardVars =>
        [\A r \in Reqs : Admits(r) => ~StillOwed(r)]_guardVars
  <2> SUFFICES ASSUME GuardInv, [GuardNext]_guardVars, NEW r \in Reqs, Admits(r)
               PROVE  ~out[req'[r].caller]
    BY DEF StillOwed
  <2> QED
    BY WaysIn DEF GuardInv, TakenIsTaken
<1> QED
  BY <1>1, GuardInvariant, PTL DEF GuardSpec, RevokedIsRefused

(* A counting verb leaves an enabled admin behind if nothing outran its    *)
(* count, however many other verbs are in flight (assertNotLastAdmin).     *)
THEOREM AnAdminRemains == GuardSpec => LastAdminIsKept
<1>1. GuardInv /\ [GuardNext]_guardVars =>
        [\A r \in Reqs :
            /\ req[r].pc = "apply" /\ req'[r].pc # "apply"
            /\ req[r].op \in Counting /\ req[r].fresh
            /\ EnabledAdmins # {}
            => EnabledAdmins' # {}]_guardVars
  <2> SUFFICES ASSUME GuardInv, [GuardNext]_guardVars, NEW r \in Reqs,
                      req[r].pc = "apply", req'[r].pc # "apply",
                      req[r].op \in Counting, req[r].fresh, EnabledAdmins # {}
               PROVE  EnabledAdmins' # {}
    OBVIOUS
  <2>1. Apply(r)
    BY OwnSteps DEF Arrive, Lookup, Store, Guard, GetUser, Invalidate, Answer
  <2>2. PICK u \in EnabledAdmins : u # req[r].target
    BY DEF GuardInv, Counted
  <2>3. user'[u] = user[u]
    <3>1. user \in [Users -> UserRows] /\ req[r].target \in Users
      BY ReqFacts
    <3> QED
      BY <2>1, <2>2, <3>1 DEF Apply, Refuse, RealmChanges, EnabledAdmins
  <2> QED
    BY <2>2, <2>3 DEF EnabledAdmins
<1> QED
  BY <1>1, GuardInvariant, PTL DEF GuardSpec, LastAdminIsKept
=============================================================================
