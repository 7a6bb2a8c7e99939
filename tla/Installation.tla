----------------------------- MODULE Installation -----------------------------
(***************************************************************************)
(* The files an installation is configured by, and the three programs that *)
(* write them: scripts/init.sh, `make init` and `make regen`               *)
(* (cmd/bootstrap over internal/bootstrap).  Each is a sequence of reads   *)
(* and writes of whole files that may be killed between any two of them,   *)
(* while the operator edits the same files.                                *)
(*                                                                         *)
(* A file is its variables.  SECRETS_KEYRING and POSTGRES_PASSWORD stand   *)
(* for the operator-owned ones, the identity admin client for what         *)
(* project.json decides and .env keeps the secret of.  "" is a variable    *)
(* that is unset or empty, which parseEnvFile and keep treat alike.        *)
(***************************************************************************)
EXTENDS Naturals

CONSTANT Keyrings       \* the keyrings an operator may configure

ASSUME KeyringAssumption == "" \notin Keyrings

VARIABLES
    managed,        \* project.json: features.identity_management
    env,            \* .env
    example,        \* .env.example
    export,         \* realm-export.json: the identity admin client and its secret
    run,            \* the program that is writing, what it has read, and (history) whether
                    \* nobody has edited a file since it started
    mine,           \* history: the operator-owned values as the operator last saved them
    lost,           \* history: a write of .env was cut, or an edit was made under a run
    settled         \* history: the last thing to happen to the files is a regen that ended

installVars == <<managed, env, example, export, run, mine, lost, settled>>

Owned == [keyring : Keyrings \cup {""}, password : {"", "postgres", "own"}]

NoOwned == [keyring |-> "", password |-> ""]

\* What .env holds when it holds nothing: it is absent, or was truncated and not written.
NoFile(how) == [file |-> how, owned |-> NoOwned, dburl |-> "", adminId |-> FALSE,
                secret |-> ""]

NoExport == [managed |-> FALSE, secret |-> ""]

Idle == [by |-> "none", pc |-> "idle", managed |-> FALSE,
         secret |-> "", kept |-> NoOwned, alone |-> TRUE]

\* defaultSecrets
DefaultSecret == "dev"

\* The default of each operator-owned variable.
Defaults == [keyring |-> "", password |-> "postgres"]

\* Mutant: the fixed list of variables that came before Preserved.
FixedList(found) == Defaults

\* Preserved.keep: what .env said wins over the default.
Keep(found) ==
    [keyring  |-> IF found.keyring # "" THEN found.keyring ELSE Defaults.keyring,
     password |-> IF found.password # "" THEN found.password ELSE Defaults.password]

\* writeEnv: the variables of project.json, the secrets, and the operator's own.
Generated(m, secret, found) ==
    [file |-> "whole", owned |-> Keep(found), dburl |-> Keep(found).password,
     adminId |-> m, secret |-> IF m THEN secret ELSE ""]

\* writeRealmExport: the identity admin client is registered if the feature is on.
Exported(m, secret) == [managed |-> m, secret |-> IF m THEN secret ELSE ""]

InstallInit ==
    /\ managed \in BOOLEAN
    /\ env = NoFile("absent")
    /\ example = Generated(managed, DefaultSecret, NoOwned)
    /\ export = Exported(managed, DefaultSecret)
    /\ run = Idle /\ mine = NoOwned
    /\ lost = FALSE /\ settled = FALSE

-----------------------------------------------------------------------------
Unsettled == settled' = FALSE

\* Mutant: a secret that is set to nothing is a secret.
SecretAsFound(f) == IF f.file = "whole" THEN f.secret ELSE DefaultSecret

\* LoadSecrets: an empty value leaves the default.
LoadSecret(f) == IF f.secret # "" THEN f.secret ELSE DefaultSecret

\* cmd/bootstrap reads project.json and the secrets in .env.
StartRun(by) ==
    /\ run.pc = "idle"
    /\ run' = [Idle EXCEPT !.by = by, !.pc = IF by = "init" THEN "prompt" ELSE "generate",
                           !.managed = managed, !.secret = LoadSecret(env)]
    /\ UNCHANGED <<managed, env, example, export, mine, lost>> /\ Unsettled

\* Prompter.Run asks for three of the four secrets and not for this feature; Save writes back
\* the project.json it read.
Prompt ==
    /\ run.pc = "prompt"
    /\ run' = [run EXCEPT !.pc = "generate", !.secret = ""]
    /\ managed' = run.managed
    /\ UNCHANGED <<env, example, export, mine, lost>> /\ Unsettled

LoadPreserved ==
    /\ run.pc = "generate"
    /\ run' = [run EXCEPT !.pc = "truncate", !.kept = env.owned]
    /\ UNCHANGED <<managed, env, example, export, mine, lost>> /\ Unsettled

\* os.WriteFile empties the file before it fills it.
TruncateEnv ==
    /\ run.pc = "truncate"
    /\ run' = [run EXCEPT !.pc = "env"]
    /\ env' = NoFile("torn")
    /\ UNCHANGED <<managed, example, export, mine, lost>> /\ Unsettled

WriteEnv ==
    /\ run.pc = "env"
    /\ run' = [run EXCEPT !.pc = "example"]
    /\ env' = Generated(run.managed, run.secret, run.kept)
    /\ UNCHANGED <<managed, example, export, mine, lost>> /\ Unsettled

\* The example is written from the defaults alone.
WriteExample ==
    /\ run.pc = "example"
    /\ run' = [run EXCEPT !.pc = "export"]
    /\ example' = Generated(run.managed, DefaultSecret, NoOwned)
    /\ UNCHANGED <<managed, env, export, mine, lost>> /\ Unsettled

WriteRealmExport ==
    /\ run.pc = "export"
    /\ run' = Idle
    /\ export' = Exported(run.managed, run.secret)
    /\ settled' = (run.by = "regen" /\ run.alone)
    /\ UNCHANGED <<managed, env, example, mine, lost>>

-----------------------------------------------------------------------------
\* init.sh leaves an existing .env alone, whatever is in it.
CopyExample ==
    /\ run.pc = "idle" /\ env.file = "absent"
    /\ run' = [Idle EXCEPT !.by = "sh", !.pc = "setKeyring"]
    /\ env' = example /\ lost' = FALSE
    /\ UNCHANGED <<managed, example, export, mine>> /\ Unsettled

\* setvar replaces one line of the file, if the line is there: a torn example was copied
\* with no line in it.  Without a file the script stops.
SetVar(step, next, file) ==
    /\ run.pc = step /\ env.file # "absent"
    /\ run' = IF next = "idle" THEN Idle ELSE [run EXCEPT !.pc = next]
    /\ env' = IF env.file = "whole" THEN file ELSE env
    /\ UNCHANGED <<managed, example, export, lost>> /\ Unsettled

SetKeyring ==
    \E k \in Keyrings :
        /\ SetVar("setKeyring", "setPassword", [env EXCEPT !.owned.keyring = k])
        /\ mine' = [mine EXCEPT !.keyring = env'.owned.keyring]

SetPassword ==
    /\ SetVar("setPassword", "setUrl", [env EXCEPT !.owned.password = "own"])
    /\ mine' = [mine EXCEPT !.password = env'.owned.password]

\* --keycloak-url goes on to switch the identity admin client off.
SetDbUrl ==
    \E next \in {"idle", "setAdminId"} :
        /\ SetVar("setUrl", next, [env EXCEPT !.dburl = "own"])
        /\ UNCHANGED mine

SetAdminId ==
    SetVar("setAdminId", "setAdminSecret", [env EXCEPT !.adminId = FALSE]) /\ UNCHANGED mine

SetAdminSecret ==
    SetVar("setAdminSecret", "idle", [env EXCEPT !.secret = ""]) /\ UNCHANGED mine

-----------------------------------------------------------------------------
\* The program is killed; what it was writing stays empty.
KillRun ==
    /\ run.pc # "idle" /\ run' = Idle
    /\ lost' = (lost \/ run.pc = "env")
    /\ \/ UNCHANGED <<example, export>>
       \/ run.pc = "example" /\ example' = NoFile("torn") /\ UNCHANGED export
       \/ run.pc = "export" /\ export' = NoExport /\ UNCHANGED example
    /\ UNCHANGED <<managed, env, mine>> /\ Unsettled

Disturb == run' = [run EXCEPT !.alone = (run.pc = "idle")]

\* The operator saves .env, or deletes it; a run that has read it will not notice.
EditEnv ==
    /\ \/ /\ env.file # "absent"
          /\ \E o \in Owned, s \in {"", "own"} :
                /\ o.password # ""
                /\ env' = [env EXCEPT !.file = "whole", !.owned = o, !.secret = s,
                                      !.adminId = (s # "")]
                /\ mine' = o
       \/ env' = NoFile("absent") /\ mine' = NoOwned
    /\ lost' = (run.pc \in {"truncate", "env"})
    /\ Disturb
    /\ UNCHANGED <<managed, example, export>> /\ Unsettled

EditProject ==
    /\ managed' = ~managed
    /\ Disturb
    /\ UNCHANGED <<env, example, export, mine, lost>> /\ Unsettled

InstallNext ==
    \/ StartRun("init") \/ StartRun("regen") \/ Prompt \/ LoadPreserved
    \/ TruncateEnv \/ WriteEnv \/ WriteExample \/ WriteRealmExport
    \/ CopyExample \/ SetKeyring \/ SetPassword \/ SetDbUrl \/ SetAdminId \/ SetAdminSecret
    \/ KillRun \/ EditEnv \/ EditProject

InstallSpec == InstallInit /\ [][InstallNext]_installVars

-----------------------------------------------------------------------------
\* The operator's variables: in .env, or in what the program that emptied it will write.
InHand == IF run.pc = "env" THEN run.kept ELSE env.owned

(* What an operator configured survives every regeneration, init and re-run*)
(* of init.sh, killed half-way or not: the sealed credentials stay         *)
(* readable and the database password in use.  Two windows are the         *)
(* exception: .env emptied and not yet filled again, and an edit saved     *)
(* after a run read the file (generate.go:67 "a regeneration must NOT      *)
(* invent"; init.sh:32 "an existing .env is left exactly as it is").       *)
OperatorValuesSurvive ==
    ~lost => /\ mine.keyring # "" => InHand.keyring = mine.keyring
             /\ mine.password # "" => InHand.password = mine.password

(* Validate: the identity admin client is configured as a pair.            *)
Paired(f) == f.adminId <=> f.secret # ""

(* A regen that ends leaves files that agree, whatever was killed before   *)
(* it and whatever `make init` wrote: the API does not refuse the pair,    *)
(* the realm registers the admin client with the secret .env holds, and    *)
(* DB_URL carries the database's password (generate.go:141,                *)
(* validate.go:179).                                                       *)
RegenAgrees ==
    settled =>
        /\ Paired(env)
        /\ export = [managed |-> env.adminId, secret |-> env.secret]
        /\ env.dburl = env.owned.password
=============================================================================
