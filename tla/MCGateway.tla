----------------------------- MODULE MCGateway -----------------------------
(* An instance of Gateway for TLC.  A behaviour is watched under one of four  *)
(* mixes of traffic, chosen at the start: every route, one request at a time; *)
(* two requests at once at the edge of /v1; the console alone; and operators  *)
(* archiving one workspace and its project at the same time.                  *)
EXTENDS Gateway, TLC

CONSTANTS r1, r2, a1, wA, wB, reader, writer

CredentialBound == reader :> wA @@ writer :> wA

CredentialScopes ==
    reader :> {"users:read", "invitations:read"} @@ writer :> AllScopes

\* The limiters do not look at a route beyond its seam.
FourMixes ==
    << [routes |-> V1Routes \cup AdminRoutes, slots |-> 1, ticks |-> 0, places |-> {wA, wB},
        callers |-> {"anonymous", "operator", reader, writer}],
       [routes |-> {ListUsers}, slots |-> 2, ticks |-> 5, places |-> {wA},
        callers |-> {"operator", writer}],
       [routes |-> {AdminListEvents}, slots |-> 1, ticks |-> 5, places |-> {wA},
        callers |-> {"operator"}],
       [routes |-> {ArchiveWorkspace, ArchiveProject}, slots |-> 2, ticks |-> 1,
        places |-> {wA}, callers |-> {"operator"}] >>

Slots == Permutations(Reqs)

=============================================================================
