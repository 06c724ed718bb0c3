----------------------------- MODULE ClientDeploy -----------------------------
(***************************************************************************)
(* The user's command line (cli/src/freepod): deploy, deploy --recreate,   *)
(* deploy --no-build, delete and init --force, run from a checkout whose   *)
(* .freepod.json is the only place that knows the project's deployment.    *)
(*                                                                         *)
(* One command runs at a time.  Every request to the platform and every    *)
(* write of the file is a step, and the command may be interrupted, time   *)
(* out or fail between any two of them.  Meanwhile the platform reconciles *)
(* and builds, and other people use the same deployments from the web      *)
(* interface or another checkout.                                          *)
(***************************************************************************)
EXTENDS Naturals, Sequences, FiniteSets

CONSTANTS
  Envs,            \* environments, each a platform of its own
  DefaultEnv,      \* the environment a file that names none belongs to
  Hosts,           \* hostnames
  ArchiveSize,     \* chunks in a packed archive
  LogSize,         \* bytes a build writes
  MaxApps,         \* bound: deployments ever created
  MaxCommands,     \* bound: commands ever started
  MaxOutside       \* bound: requests made by others

ASSUME ClientAssumption ==
  /\ DefaultEnv \in Envs
  /\ ArchiveSize \in Nat \ {0} /\ LogSize \in Nat
  /\ MaxApps \in Nat /\ MaxCommands \in Nat /\ MaxOutside \in Nat

VARIABLES
  projectFile,   \* .freepod.json: environment, deployment pointer, hostname value
  apps,          \* the deployments of all environments, by order of creation
  clientBuilds,  \* the builds this checkout started
  command,       \* the running command
  letGo,         \* deployments the user gave up, or lost in the one known window
  spent          \* how many commands were started and requests made by others

clientVars == <<projectFile, apps, clientBuilds, command, letGo, spent>>

NoApp == 0
Project == [env : Envs, app : 0 .. MaxApps, host : Hosts \union {"none"}]

\* A deployment: its rollouts so far, the last one being its generation's.  A
\* rollout installs the placeholder, the image of one of this checkout's builds,
\* or an image that somebody else built.
Placeholder == 0
OthersImage == 99
Rollout == [build : Nat, outcome : {"running", "ok", "failed"}]
App == [env : Envs, host : Hosts, rolls : Seq(Rollout), deletion : {"no", "asked", "failed", "done"}]

Steps == {"idle", "read", "values", "create", "record", "upload", "submit", "build", "follow",
          "settle", "put", "rollout", "confirm", "request", "forget", "gone"}

ClientBuild == [app : 1 .. MaxApps, status : {"open", "succeeded", "failed"},
                log : 0 .. LogSize, archive : 0 .. ArchiveSize]
ClientCommand == [kind : {"none", "deploy", "roll", "delete"}, step : Steps, env : Envs,
            recreate : BOOLEAN, project : Project, app : 0 .. MaxApps, settled : BOOLEAN,
            build : Nat, printed : 0 .. LogSize, reader : 0 .. ArchiveSize, tries : 0 .. 2,
            generation : Nat, report : {"none", "live"}]

Idle == [kind |-> "none", step |-> "idle", env |-> DefaultEnv, recreate |-> FALSE,
         project |-> [env |-> DefaultEnv, app |-> NoApp, host |-> "none"],
         app |-> NoApp, settled |-> FALSE, build |-> 0, printed |-> 0,
         reader |-> 0, tries |-> 0, generation |-> 0, report |-> "none"]

\* The type invariant of the client and of what it sees of the platform.
ClientTypeOK ==
  /\ projectFile \in Project
  /\ apps \in Seq(App) /\ Len(apps) <= MaxApps
  /\ clientBuilds \in Seq(ClientBuild)
  /\ command \in ClientCommand
  /\ letGo \subseteq 1 .. MaxApps
  /\ spent \in [commands : 0 .. MaxCommands, outside : 0 .. MaxOutside]

ClientInit ==
  /\ \E h \in Hosts \union {"none"} :
       projectFile = [env |-> DefaultEnv, app |-> NoApp, host |-> h]
  /\ apps = << >>
  /\ clientBuilds = << >>
  /\ command = Idle
  /\ letGo = {}
  /\ spent = [commands |-> 0, outside |-> 0]

-----------------------------------------------------------------------------
(* The platform, as a client sees it.                                      *)

Generation(a) == Len(apps[a].rolls)
Latest(a) == apps[a].rolls[Generation(a)]

\* A read answers 404 for a deployment of another environment and for one
\* whose teardown is over.
Readable(env, a) == a # NoApp /\ apps[a].env = env /\ apps[a].deletion # "done"

\* SETTLED_STATUSES: ready or error, which a failed teardown is too.
Settled(a) == apps[a].deletion \in {"no", "failed"} /\ Latest(a).outcome # "running"

HostTaken(env, h, a) ==
  \E b \in DOMAIN apps : b # a /\ apps[b].env = env /\ apps[b].host = h
                         /\ apps[b].deletion # "done"

\* The image that runs: that of the last rollout that succeeded.
AppliedBuild(a) ==
  LET ok == {g \in DOMAIN apps[a].rolls : apps[a].rolls[g].outcome = "ok"}
  IN IF ok = {} THEN Placeholder ELSE apps[a].rolls[CHOOSE g \in ok : \A f \in ok : f <= g].build

\* update_deployment on the platform: guarded by the status, the generation
\* moves on.
Updated(a, h, b) ==
  [apps EXCEPT ![a].rolls = Append(@, [build |-> b, outcome |-> "running"]),
               ![a].host = h]

\* The reconciler ends the rollout or the teardown in progress.  A deployment
\* whose deletion was asked for is never rolled out again.
Reconcile(a) ==
  /\ \E ok \in BOOLEAN :
       \/ /\ Latest(a).outcome = "running"
          /\ ok => apps[a].deletion = "no"
          /\ apps' = [apps EXCEPT ![a].rolls[Generation(a)].outcome = IF ok THEN "ok" ELSE "failed"]
       \/ /\ apps[a].deletion = "asked"
          /\ apps' = [apps EXCEPT ![a].deletion = IF ok THEN "done" ELSE "failed"]
  /\ UNCHANGED <<projectFile, clientBuilds, command, letGo, spent>>

\* Somebody else deletes or updates the deployment.
SomebodyElse(a) ==
  /\ spent.outside < MaxOutside
  /\ Settled(a)
  /\ apps' \in {[apps EXCEPT ![a].deletion = "asked"], Updated(a, apps[a].host, OthersImage)}
  /\ spent' = [spent EXCEPT !.outside = @ + 1]
  /\ UNCHANGED <<projectFile, clientBuilds, command, letGo>>

\* The build writes a byte, or ends; status and log are served together.
BuildProceeds(b) ==
  /\ clientBuilds[b].status = "open"
  /\ \/ /\ clientBuilds[b].log < LogSize
        /\ clientBuilds' = [clientBuilds EXCEPT ![b].log = @ + 1]
     \/ \E status \in {"succeeded", "failed"} :
          clientBuilds' = [clientBuilds EXCEPT ![b].status = status]
  /\ UNCHANGED <<projectFile, apps, command, letGo, spent>>

-----------------------------------------------------------------------------
(* Starting a command: require_project and the checks on the environment.  *)

At(step) == command.step = step

\* The command goes on, or ends with an error message.
Goto(step) == command' = [command EXCEPT !.step = step]
Fail == command' = Idle

\* The user edits the hostname in the file, or removes it.
EditFile(h) ==
  /\ At("idle")
  /\ spent.outside < MaxOutside
  /\ projectFile' = [projectFile EXCEPT !.host = h]
  /\ spent' = [spent EXCEPT !.outside = @ + 1]
  /\ UNCHANGED <<apps, clientBuilds, command, letGo>>

\* May this command use the pointer from this environment?  Only a recreating
\* deploy may leave the recorded environment.
EnvFits(kind, env, recreate) ==
  \/ projectFile.env = env
  \/ projectFile.app = NoApp /\ kind = "deploy"
  \/ recreate

StartCommand(kind, env, recreate) ==
  /\ At("idle")
  /\ spent.commands < MaxCommands
  /\ EnvFits(kind, env, recreate)
  /\ recreate => kind = "deploy"
  /\ kind = "delete" => projectFile.app # NoApp
  /\ command' = [Idle EXCEPT !.kind = kind, !.env = env, !.recreate = recreate,
                             !.project = projectFile, !.step = "read"]
  /\ spent' = [spent EXCEPT !.commands = @ + 1]
  /\ UNCHANGED <<projectFile, apps, clientBuilds, letGo>>

\* init --force: a fresh file, for the environment of the command, with the
\* hostname just asked for.
InitForce(env, h) ==
  /\ At("idle")
  /\ spent.commands < MaxCommands
  /\ projectFile' = [env |-> env, app |-> NoApp, host |-> h]
  /\ letGo' = letGo \union ({projectFile.app} \ {NoApp})
  /\ spent' = [spent EXCEPT !.commands = @ + 1]
  /\ UNCHANGED <<apps, clientBuilds, command>>

-----------------------------------------------------------------------------
(* deploy: preflight.                                                      *)

\* _read_deployment.  `--recreate' asks nothing; a pointer to a deployment
\* that is gone ends the deploy.  release_current takes the image from here.
ReadDeployment ==
  /\ At("read") /\ command.kind # "delete"
  /\ LET a == command.project.app IN
       IF a = NoApp \/ command.recreate
       THEN IF command.kind = "roll" THEN Fail ELSE Goto("values")
       ELSE IF ~Readable(command.env, a) THEN Fail
       ELSE IF command.kind = "roll" /\ AppliedBuild(a) = Placeholder THEN Fail
       ELSE command' = [command EXCEPT !.step = "values", !.app = a, !.settled = Settled(a),
                          !.build = IF command.kind = "roll" THEN AppliedBuild(a) ELSE 0]
  /\ UNCHANGED <<projectFile, apps, clientBuilds, letGo, spent>>

AfterValues ==
  IF command.app = NoApp THEN "create"
  ELSE IF command.kind = "roll" THEN "settle" ELSE "upload"

\* The hostname check: only a new or changed one is looked up.
HostUsable(h) ==
  \/ command.app # NoApp /\ apps[command.app].host = h
  \/ ~HostTaken(command.env, h, NoApp)

\* _settle_values: a required value the file lacks is asked for, and the whole
\* project is saved before the deploy goes on.
SettleValues ==
  /\ At("values")
  /\ IF command.project.host # "none"
     THEN /\ IF HostUsable(command.project.host) THEN Goto(AfterValues) ELSE Fail
          /\ UNCHANGED projectFile
     ELSE \E h \in Hosts :
            LET project == [command.project EXCEPT !.host = h] IN
              /\ HostUsable(h)
              /\ projectFile' = project
              /\ command' = [command EXCEPT !.project = project, !.step = AfterValues]
  /\ UNCHANGED <<apps, clientBuilds, letGo, spent>>

\* ensure_deployment: create_deployment, which the platform refuses while the
\* hostname is held ...
CreateApp ==
  /\ At("create")
  /\ IF HostTaken(command.env, command.project.host, NoApp)
     THEN Fail /\ UNCHANGED apps
     ELSE /\ Len(apps) < MaxApps
          /\ apps' = Append(apps, [env |-> command.env, host |-> command.project.host,
                       rolls |-> <<[build |-> Placeholder, outcome |-> "running"]>>, deletion |-> "no"])
          /\ command' = [command EXCEPT !.step = "record", !.app = Len(apps) + 1]
  /\ UNCHANGED <<projectFile, clientBuilds, letGo, spent>>

\* ... and record_deployment: pointer and environment in one write.
RecordDeployment ==
  /\ At("record")
  /\ LET project == [command.project EXCEPT !.app = command.app, !.env = command.env] IN
       /\ projectFile' = project
       /\ letGo' = letGo \union ({projectFile.app} \ {NoApp})
       /\ command' = [command EXCEPT !.project = project, !.step = "upload"]
  /\ UNCHANGED <<apps, clientBuilds, spent>>

-----------------------------------------------------------------------------
(* deploy: upload and build.                                               *)

\* pack and mint_slot: the archive is packed once, a slot is minted for each
\* submission.
MintSlot ==
  /\ At("upload")
  /\ command' = [command EXCEPT !.step = "submit", !.tries = @ + 1]
  /\ UNCHANGED <<projectFile, apps, clientBuilds, letGo, spent>>

\* Mutant of Rewound: a submission sends what the last one left.
Rewound_Left(position) == position

\* Where a submission starts to read the archive, whose position is `position':
\* _submit rewinds it, and so does httpx, which finds `seek' on _ProgressReader.
Rewound(position) == 0

\* _submit, and create_build once the store took the body, which may not be
\* empty.  Or the store refuses the slot with 403, after any part of the body was
\* read; that is retried once.
SubmitArchive ==
  /\ At("submit")
  /\ LET from == Rewound(command.reader) IN
       \/ /\ from < ArchiveSize
          /\ clientBuilds' = Append(clientBuilds, [app |-> command.app, status |-> "open",
                                log |-> 0, archive |-> ArchiveSize - from])
          /\ command' = [command EXCEPT !.step = "follow", !.reader = 0, !.tries = 0,
                                        !.build = Len(clientBuilds) + 1]
       \/ /\ \E n \in from .. ArchiveSize :
               command' = IF command.tries = 1 THEN [command EXCEPT !.step = "upload", !.reader = n]
                          ELSE Idle
          /\ UNCHANGED clientBuilds
  /\ UNCHANGED <<projectFile, apps, letGo, spent>>

\* follow_build: the bytes past the offset arrive with the status; a terminal
\* status ends it.
FollowBuild ==
  /\ At("follow")
  /\ LET build == clientBuilds[command.build] IN
       command' = IF build.status = "failed" THEN Idle
                  ELSE [command EXCEPT !.printed = build.log,
                          !.step = IF build.status = "succeeded" THEN "settle" ELSE "follow"]
  /\ UNCHANGED <<projectFile, apps, clientBuilds, letGo, spent>>

-----------------------------------------------------------------------------
(* deploy: release.                                                        *)

\* wait_until_settled, which trusts the status that preflight read.
WaitUntilSettled ==
  /\ At("settle")
  /\ \/ command.settled /\ Goto("put")
     \/ ~command.settled /\ Readable(command.env, command.app) /\ Settled(command.app)
        /\ Goto("put")
     \/ ~command.settled /\ (~Readable(command.env, command.app)
                             \/ apps[command.app].deletion = "asked") /\ Fail
  /\ UNCHANGED <<projectFile, apps, clientBuilds, letGo, spent>>

\* update_deployment: accepted or refused by the platform, as it is now.
PutRelease ==
  /\ At("put")
  /\ LET a == command.app IN
       IF Readable(command.env, a) /\ Settled(a) /\ ~HostTaken(command.env, command.project.host, a)
       THEN /\ apps' = Updated(a, command.project.host, command.build)
            /\ command' = [command EXCEPT !.step = "rollout", !.generation = Generation(a) + 1]
       ELSE Fail /\ UNCHANGED apps
  /\ UNCHANGED <<projectFile, clientBuilds, letGo, spent>>

\* follow_rollout, and what release makes of its end: status error, which a
\* deployment has whose deletion failed, too, is a failed rollout.
FollowRollout ==
  /\ At("rollout")
  /\ LET a == command.app IN
       \/ /\ ~Readable(command.env, a) \/ apps[a].deletion = "asked"
          /\ Fail
       \/ /\ Readable(command.env, a) /\ Settled(a) /\ Generation(a) >= command.generation
          /\ IF Latest(a).outcome = "failed" \/ apps[a].deletion = "failed" THEN Fail
             ELSE command' = [Idle EXCEPT !.report = "live"]
  /\ UNCHANGED <<projectFile, apps, clientBuilds, letGo, spent>>

-----------------------------------------------------------------------------
(* delete.                                                                 *)

\* Read the deployment: one that is gone or going is forgotten, any other is
\* shown for confirmation.
ReadForDeletion ==
  /\ At("read") /\ command.kind = "delete"
  /\ LET a == command.project.app IN
       command' = [command EXCEPT !.app = a, !.step =
         IF ~Readable(command.env, a) \/ apps[a].deletion = "asked" THEN "forget" ELSE "confirm"]
  /\ UNCHANGED <<projectFile, apps, clientBuilds, letGo, spent>>

\* The user confirms.  (Declining is an end like an interrupt.)
Confirm == /\ At("confirm")
           /\ Goto("request")
           /\ UNCHANGED <<projectFile, apps, clientBuilds, letGo, spent>>

\* request_deletion: a 404 is as good as a success; a rollout in progress is
\* refused, its job being open.
RequestDeletion ==
  /\ At("request")
  /\ LET a == command.app IN
       IF ~Readable(command.env, a) \/ apps[a].deletion = "asked"
       THEN Goto("forget") /\ UNCHANGED apps
       ELSE IF ~Settled(a) THEN Fail /\ UNCHANGED apps
       ELSE /\ apps' = [apps EXCEPT ![a].deletion = "asked"]
            /\ Goto("forget")
  /\ UNCHANGED <<projectFile, clientBuilds, letGo, spent>>

\* _forget: the pointer is dropped, the rest of the file stays.
Forget ==
  /\ At("forget")
  /\ projectFile' = [command.project EXCEPT !.app = NoApp]
  /\ Goto("gone")
  /\ UNCHANGED <<apps, clientBuilds, letGo, spent>>

\* wait_until_gone: to the end of the teardown, or to its failure.
WaitUntilGone ==
  /\ At("gone")
  /\ \/ ~Readable(command.env, command.app) /\ command' = Idle
     \/ Readable(command.env, command.app) /\ Settled(command.app) /\ Fail
  /\ UNCHANGED <<projectFile, apps, clientBuilds, letGo, spent>>

\* The command is interrupted, times out, or a request fails.  Between the
\* creation and its record the new deployment is lost to the project.
Interrupt ==
  /\ ~At("idle")
  /\ Fail
  /\ letGo' = letGo \union (IF At("record") THEN {command.app} ELSE {})
  /\ UNCHANGED <<projectFile, apps, clientBuilds, spent>>

-----------------------------------------------------------------------------
ClientNext ==
  \/ \E a \in DOMAIN apps : Reconcile(a) \/ SomebodyElse(a)
  \/ \E b \in DOMAIN clientBuilds : BuildProceeds(b)
  \/ \E h \in Hosts \union {"none"} : EditFile(h)
  \/ \E env \in Envs, h \in Hosts : InitForce(env, h)
  \/ \E kind \in {"deploy", "roll", "delete"}, env \in Envs, recreate \in BOOLEAN :
       StartCommand(kind, env, recreate)
  \/ ReadDeployment \/ SettleValues \/ CreateApp \/ RecordDeployment
  \/ MintSlot \/ SubmitArchive \/ FollowBuild
  \/ WaitUntilSettled \/ PutRelease \/ FollowRollout
  \/ ReadForDeletion \/ Confirm \/ RequestDeletion \/ Forget \/ WaitUntilGone
  \/ Interrupt

ClientSpec == ClientInit /\ [][ClientNext]_clientVars

-----------------------------------------------------------------------------
(* Properties.                                                             *)

\* The pointer is never read against the wrong platform: a deployment that the
\* file records is one of the environment the file declares
\* (ensure_deployment: "the environment travels with the pointer").
PointerFits == projectFile.app # NoApp => apps[projectFile.app].env = projectFile.env

\* A deployment this project created stays addressable from it until somebody
\* asks for its deletion, whatever command was interrupted where: it is
\* recorded, unless the user chose to unlink it or the command died between
\* the answer to the creation and the write of the file.
NothingStranded ==
  \A a \in DOMAIN apps :
    \/ projectFile.app = a
    \/ apps[a].deletion # "no"
    \/ a \in letGo
    \/ At("record") /\ command.app = a

\* What is built is the whole archive, also when the first slot was refused
\* after a part of the archive had been read (_submit).
ArchivesAreWhole == \A b \in DOMAIN clientBuilds : clientBuilds[b].archive = ArchiveSize

\* A deploy goes on to release only what it has shown the whole log of: no
\* byte that arrives with the terminal status is lost (follow_build).
LogIsShown ==
  command.kind = "deploy" /\ command.step \in {"settle", "put", "rollout"} =>
    command.printed = clientBuilds[command.build].log

\* A deploy announces a live address only if its own rollout succeeded, or
\* somebody else has released since (follow_rollout, release).
AnnouncedIsLive ==
  [][command.step = "rollout" /\ command'.report = "live" =>
       LET app == apps[command.app] IN
         \/ Len(app.rolls) > command.generation
         \/ app.rolls[command.generation] = [build |-> command.build, outcome |-> "ok"]]_clientVars

\* A checkout and the deployment it points at stay together through commands
\* that are interrupted anywhere, and a command announces as live only what is.
CheckoutHolds ==
  /\ [](ClientTypeOK /\ PointerFits /\ NothingStranded /\ ArchivesAreWhole /\ LogIsShown)
  /\ AnnouncedIsLive
=============================================================================
