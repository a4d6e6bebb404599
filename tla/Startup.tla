------------------------------- MODULE Startup -------------------------------
(***************************************************************************)
(* How the two servers come up in a container (docker/entrypoint.sh) and   *)
(* go down again: the public site, which owns the migrations, reads its    *)
(* settings strictly (hemsidor24-web/src/config.rs, main.rs); the back     *)
(* office, which waits for it, leniently where mail is concerned           *)
(* (hemsidor24-admin/src/main.rs, mail.rs).  A new container, deployed     *)
(* with settings of its own, may start while an old one runs: they share   *)
(* the database and nothing else.                                          *)
(***************************************************************************)
EXTENDS Naturals, FiniteSets

CONSTANTS
  Container,
  Environments,   \* the settings an operator of this instance may deploy with
  Migrations,     \* how many files migrations/ has
  TRIES,          \* how often the entrypoint asks for /health
  MaxFaults       \* bound on statements, sockets and servers that fail

MailVars == {"SMTP_HOST", "SMTP_USER", "SMTP_PASSWORD", "NOTIFY_TO", "NOTIFY_FROM"}
Var == MailVars \cup {"SMTP_PORT", "BIND_ADDR", "PORT", "DATABASE_URL", "IP_HASH_SALT",
                      "ADMIN_BIND_ADDR", "ADMIN_PORT", "ADMIN_EMAIL", "ADMIN_PASSWORD"}

\* "bad" does not parse, is too short or cannot be used; "other" can, but is not
\* what the entrypoint, or an earlier start, was given.
Value == {"unset", "blank", "bad", "good", "other"}

ASSUME StartupAssumption ==
  /\ Environments \subseteq [Var -> Value] /\ Environments # {}
  /\ Migrations \in Nat /\ TRIES \in Nat \ {0} /\ MaxFaults \in Nat

VARIABLES
  env,        \* the settings each container is deployed with
  schema,     \* migrations applied
  accounts,   \* the panel's accounts: the password of each address, if there is one
  script,     \* the entrypoint of each container
  tries,
  web, admin, \* where each server is
  notifier,   \* the mail each public site was started with
  mail,       \* the mail each back office was started with
  tested,     \* history: --send-test-mail went through with a container's settings
  faults

vars == <<env, schema, accounts, script, tries, web, admin, notifier, mail, tested, faults>>

NoMail == [smtp |-> FALSE, studio |-> "unset", from |-> "unset", port |-> "unset"]
Address == Value \cup {"hej@hemsidor24.se"}
Mail == [smtp : BOOLEAN, studio : Address, from : Address, port : Value]

Addresses == {"bad", "good", "other"}

Init ==
  /\ env \in [Container -> Environments]
  /\ schema = 0
  /\ accounts = [a \in Addresses |-> "unset"]
  /\ script = [c \in Container |-> "down"]
  /\ tries = [c \in Container |-> 0]
  /\ web = [c \in Container |-> "off"] /\ admin = [c \in Container |-> "off"]
  /\ notifier = [c \in Container |-> NoMail] /\ mail = [c \in Container |-> NoMail]
  /\ tested = [c \in Container |-> FALSE]
  /\ faults = 0

-----------------------------------------------------------------------------
(* Settings *)

\* required, optional: present and not blank.
Present(c, v) == env[c][v] \notin {"unset", "blank"}

\* Unset has a default; set to nonsense is an error, and blank is nonsense.
Parses(c, v) == env[c][v] \notin {"blank", "bad"}

Given(c) == {v \in MailVars : Present(c, v)}

\* Mutant: half a mail configuration is none.
SmtpIsFine_OrAbsent(c) == Given(c) = MailVars => Parses(c, "SMTP_PORT")

\* smtp_from_env: all five, or none; half a mail configuration is a typo.
SmtpIsFine(c) == Given(c) = {} \/ (Given(c) = MailVars /\ Parses(c, "SMTP_PORT"))

\* Config::from_env.
ConfigIsFine(c) ==
  /\ Parses(c, "BIND_ADDR") /\ Parses(c, "PORT")
  /\ Present(c, "DATABASE_URL")
  /\ Present(c, "IP_HASH_SALT") /\ env[c]["IP_HASH_SALT"] # "bad"
  /\ SmtpIsFine(c)

Unsent(studio, from) == [smtp |-> FALSE, studio |-> studio, from |-> from, port |-> "unset"]

\* The public site has SMTP or, with none of it set, the notifier that prints.
Notifier(c) ==
  IF Given(c) = {} THEN Unsent("hej@hemsidor24.se", "hej@hemsidor24.se")
  ELSE [smtp |-> TRUE, studio |-> env[c]["NOTIFY_TO"], from |-> env[c]["NOTIFY_FROM"],
        port |-> env[c]["SMTP_PORT"]]

\* mail::init: whatever is wrong with the settings, the back office starts, able
\* to address a message if not to send it.
Mailer(c) ==
  LET studio == IF Present(c, "NOTIFY_TO") THEN env[c]["NOTIFY_TO"] ELSE "hej@hemsidor24.se"
      from   == IF Present(c, "NOTIFY_FROM") THEN env[c]["NOTIFY_FROM"] ELSE studio
  IN  IF Given(c) = MailVars /\ env[c]["SMTP_HOST"] # "bad"
      THEN [smtp |-> TRUE, studio |-> studio, from |-> from,
            port |-> IF Parses(c, "SMTP_PORT") THEN env[c]["SMTP_PORT"] ELSE "unset"]
      ELSE Unsent(studio, from)

-----------------------------------------------------------------------------
Fault == faults < MaxFaults /\ faults' = faults + 1

Gone == {"ended", "failed"}

WebGoes(c, pc) == web' = [web EXCEPT ![c] = pc]
AdminGoes(c, pc) == admin' = [admin EXCEPT ![c] = pc]

\* What the steps of one server leave alone.
OnlyWeb   == UNCHANGED <<env, accounts, script, tries, admin, mail, tested>>
OnlyAdmin == UNCHANGED <<env, schema, script, tries, web, notifier, tested>>

(* The public site *)

WebConfig(c) ==
  /\ web[c] = "config"
  /\ WebGoes(c, IF ConfigIsFine(c) THEN "connect" ELSE "failed")
  /\ UNCHANGED <<schema, notifier, faults>> /\ OnlyWeb

WebConnect(c) ==
  /\ web[c] = "connect"
  /\ \/ WebGoes(c, "migrate") /\ UNCHANGED faults
     \/ WebGoes(c, "failed") /\ Fault
  /\ UNCHANGED <<schema, notifier>> /\ OnlyWeb

\* The migrator waits for a lock that one session has at a time.
WebLock(c) ==
  /\ web[c] = "migrate"
  /\ \A d \in Container : web[d] # "migrating"
  /\ WebGoes(c, "migrating")
  /\ UNCHANGED <<schema, notifier, faults>> /\ OnlyWeb

\* Mutant: migrations run in the background while the site comes up.
WebMigrate_Behind(c) ==
  /\ web[c] = "migrating"
  /\ schema' \in {schema, IF schema < Migrations THEN schema + 1 ELSE schema}
  /\ WebGoes(c, "notifier")
  /\ UNCHANGED <<faults, notifier>> /\ OnlyWeb

\* What is missing is applied, one transaction each; a failure leaves the ones
\* before it, and the next start goes on from there.
WebMigrate(c) ==
  /\ web[c] = "migrating"
  /\ \/ schema < Migrations /\ schema' = schema + 1 /\ UNCHANGED <<web, faults>>
     \/ schema = Migrations /\ WebGoes(c, "notifier") /\ UNCHANGED <<schema, faults>>
     \/ WebGoes(c, "failed") /\ Fault /\ UNCHANGED schema
  /\ UNCHANGED notifier /\ OnlyWeb

\* Settings that are all there and cannot be used stop the site, after all.
WebNotifier(c) ==
  /\ web[c] = "notifier"
  /\ IF Given(c) # {} /\ env[c]["SMTP_HOST"] = "bad"
     THEN WebGoes(c, "failed") /\ UNCHANGED notifier
     ELSE WebGoes(c, "bind") /\ notifier' = [notifier EXCEPT ![c] = Notifier(c)]
  /\ UNCHANGED <<schema, faults>> /\ OnlyWeb

WebBind(c) ==
  /\ web[c] = "bind"
  /\ \/ WebGoes(c, "serving") /\ UNCHANGED faults
     \/ WebGoes(c, "failed") /\ Fault
  /\ UNCHANGED <<schema, notifier>> /\ OnlyWeb

\* A signal, or no way of listening for SIGINT, ends it; so may an error.
WebStops(c) ==
  /\ web[c] = "serving"
  /\ \E how \in Gone : WebGoes(c, how)
  /\ Fault
  /\ UNCHANGED <<schema, notifier>> /\ OnlyWeb

(* The back office *)

AdminMail(c) ==
  /\ admin[c] = "mail"
  /\ mail' = [mail EXCEPT ![c] = Mailer(c)]
  /\ AdminGoes(c, "cell")
  /\ UNCHANGED <<accounts, faults>> /\ OnlyAdmin

\* signing::init, which Handover models; the image is built without it.
AdminCell(c) ==
  /\ admin[c] = "cell"
  /\ \/ AdminGoes(c, "config") /\ UNCHANGED faults
     \/ AdminGoes(c, "failed") /\ Fault
  /\ UNCHANGED <<accounts, mail>> /\ OnlyAdmin

AdminConfig(c) ==
  /\ admin[c] = "config"
  /\ AdminGoes(c, IF Present(c, "DATABASE_URL") /\ Parses(c, "ADMIN_BIND_ADDR") /\ Parses(c, "ADMIN_PORT")
                  THEN "connect" ELSE "failed")
  /\ UNCHANGED <<accounts, mail, faults>> /\ OnlyAdmin

\* Connect, and make sure of the framework's own tables.
AdminConnect(c) ==
  /\ admin[c] = "connect"
  /\ \/ AdminGoes(c, "find") /\ UNCHANGED faults
     \/ AdminGoes(c, "failed") /\ Fault
  /\ UNCHANGED <<accounts, mail>> /\ OnlyAdmin

Wanted(c) == Present(c, "ADMIN_EMAIL") /\ Present(c, "ADMIN_PASSWORD")

\* Mutant: any password will do.
FindAdministrator_AnyLength(c) ==
  /\ admin[c] = "find"
  /\ AdminGoes(c, IF Wanted(c) /\ accounts[env[c]["ADMIN_EMAIL"]] = "unset" THEN "create" ELSE "listen")
  /\ UNCHANGED <<accounts, mail, faults>> /\ OnlyAdmin

\* ensure_first_administrator: nothing to do unless both are set; a short
\* password is refused, also when the account is there.
FindAdministrator(c) ==
  /\ admin[c] = "find"
  /\ \/ ~Wanted(c) /\ AdminGoes(c, "listen") /\ UNCHANGED faults
     \/ Wanted(c) /\ env[c]["ADMIN_PASSWORD"] = "bad" /\ AdminGoes(c, "failed") /\ UNCHANGED faults
     \/ /\ Wanted(c) /\ env[c]["ADMIN_PASSWORD"] # "bad"
        /\ \/ /\ AdminGoes(c, IF accounts[env[c]["ADMIN_EMAIL"]] = "unset" THEN "create" ELSE "listen")
              /\ UNCHANGED faults
           \/ AdminGoes(c, "failed") /\ Fault
  /\ UNCHANGED <<accounts, mail>> /\ OnlyAdmin

\* Mutant: an account that cannot be made is logged.
CreateAdministrator_LogsTheError(c) ==
  LET create == accounts' = [accounts EXCEPT ![env[c]["ADMIN_EMAIL"]] = env[c]["ADMIN_PASSWORD"]]
  IN  /\ admin[c] = "create"
      /\ \/ accounts[env[c]["ADMIN_EMAIL"]] = "unset" /\ create /\ UNCHANGED faults
         \/ UNCHANGED accounts /\ Fault
      /\ AdminGoes(c, "listen")
      /\ UNCHANGED mail /\ OnlyAdmin

\* Mutant: whoever writes last has the account.
CreateAdministrator_Overwrites(c) ==
  /\ admin[c] = "create"
  /\ accounts' = [accounts EXCEPT ![env[c]["ADMIN_EMAIL"]] = env[c]["ADMIN_PASSWORD"]]
  /\ AdminGoes(c, "listen")
  /\ UNCHANGED <<mail, faults>> /\ OnlyAdmin

\* Somebody else may have made it since; an address has one account.
CreateAdministrator(c) ==
  LET free   == accounts[env[c]["ADMIN_EMAIL"]] = "unset"
      create == accounts' = [accounts EXCEPT ![env[c]["ADMIN_EMAIL"]] = env[c]["ADMIN_PASSWORD"]]
  IN  /\ admin[c] = "create"
      /\ \/ free /\ create /\ AdminGoes(c, "listen") /\ UNCHANGED faults
         \/ ~free /\ AdminGoes(c, "failed") /\ UNCHANGED <<accounts, faults>>
         \/ free /\ (create \/ UNCHANGED accounts) /\ AdminGoes(c, "failed") /\ Fault
      /\ UNCHANGED mail /\ OnlyAdmin

AdminListen(c) ==
  /\ admin[c] = "listen"
  /\ \/ AdminGoes(c, "serving") /\ UNCHANGED faults
     \/ AdminGoes(c, "failed") /\ Fault
  /\ UNCHANGED <<accounts, mail>> /\ OnlyAdmin

AdminStops(c) ==
  /\ admin[c] = "serving"
  /\ \E how \in Gone : AdminGoes(c, how)
  /\ Fault
  /\ UNCHANGED <<accounts, mail>> /\ OnlyAdmin

\* --send-test-mail goes through the same init, and exits.  That a message was
\* refused, or that there is no SMTP, is said and changes nothing.
SendTestMail(c) ==
  /\ Mailer(c).smtp /\ tested' = [tested EXCEPT ![c] = TRUE]
  /\ UNCHANGED <<env, schema, accounts, script, tries, web, admin, notifier, mail, faults>>

-----------------------------------------------------------------------------
(* The container *)

Launch(c) ==
  /\ script[c] = "down"
  /\ script' = [script EXCEPT ![c] = "poll"]
  /\ tries' = [tries EXCEPT ![c] = 0]
  /\ WebGoes(c, "config")
  /\ UNCHANGED <<env, schema, accounts, admin, notifier, mail, tested, faults>>

\* The entrypoint is the container's first process: with it everything ends.
Down(c) ==
  /\ script' = [script EXCEPT ![c] = "down"]
  /\ WebGoes(c, "off") /\ AdminGoes(c, "off")
  /\ notifier' = [notifier EXCEPT ![c] = NoMail] /\ mail' = [mail EXCEPT ![c] = NoMail]
  /\ UNCHANGED tries

StartAdmin(c) ==
  /\ script' = [script EXCEPT ![c] = "wait"]
  /\ AdminGoes(c, "mail")
  /\ UNCHANGED <<web, notifier, mail, tries>>

\* curl http://127.0.0.1:3000/health, wherever the site was told to listen.
Healthy(c) ==
  web[c] = "serving" /\ {env[c]["BIND_ADDR"], env[c]["PORT"]} \subseteq {"unset", "good"}

\* Mutant: the back office does not wait.
Poll_Starts(c) ==
  /\ script[c] = "poll"
  /\ StartAdmin(c)
  /\ UNCHANGED <<env, schema, accounts, tested, faults>>

\* One round of the loop.  It is left when the site answers, and after TRIES.
Poll(c) ==
  /\ script[c] = "poll"
  /\ \/ (Healthy(c) \/ tries[c] = TRIES) /\ StartAdmin(c)
     \/ web[c] \in Gone /\ tries[c] < TRIES /\ Down(c)
     \/ /\ ~Healthy(c) /\ web[c] \notin Gone /\ tries[c] < TRIES
        /\ tries' = [tries EXCEPT ![c] = @ + 1]
        /\ UNCHANGED <<script, web, admin, notifier, mail>>
  /\ UNCHANGED <<env, schema, accounts, tested, faults>>

\* Mutant: wait without -n.
Wait_ForBoth(c) ==
  /\ script[c] = "wait"
  /\ web[c] \in Gone /\ admin[c] \in Gone
  /\ Down(c)
  /\ UNCHANGED <<env, schema, accounts, tested, faults>>

\* wait -n: with an error status set -e ends the script at once; without, it
\* kills the other first.
Wait(c) ==
  /\ script[c] = "wait"
  /\ web[c] \in Gone \/ admin[c] \in Gone
  /\ Down(c)
  /\ UNCHANGED <<env, schema, accounts, tested, faults>>

\* docker stop, or worse.
Kill(c) ==
  /\ script[c] # "down"
  /\ Down(c) /\ Fault
  /\ UNCHANGED <<env, schema, accounts, tested>>

\* A container is deployed again, with other settings, whatever the others run with.
Reconfigure(c) ==
  /\ script[c] = "down"
  /\ \E settings \in Environments : env' = [env EXCEPT ![c] = settings]
  /\ tested' = [tested EXCEPT ![c] = FALSE]
  /\ UNCHANGED <<schema, accounts, script, tries, web, admin, notifier, mail, faults>>

Public(c) ==
  \/ WebConfig(c) \/ WebConnect(c) \/ WebMigrate(c) \/ WebNotifier(c) \/ WebBind(c)

Panel(c) ==
  \/ AdminMail(c) \/ AdminCell(c) \/ AdminConfig(c) \/ AdminConnect(c)
  \/ FindAdministrator(c) \/ CreateAdministrator(c) \/ AdminListen(c)

Entrypoint(c) == Poll(c) \/ Wait(c)

Environment ==
  \E c \in Container :
    \/ Launch(c) \/ Kill(c) \/ WebStops(c) \/ AdminStops(c)
    \/ SendTestMail(c) \/ Reconfigure(c)

Next ==
  \/ \E c \in Container : WebLock(c) \/ Public(c) \/ Panel(c) \/ Entrypoint(c)
  \/ Environment

Spec == Init /\ [][Next]_vars

\* Processes run; Postgres serves those that wait for a lock in turn.
FairSpec ==
  /\ Spec
  /\ \A c \in Container :
       WF_vars(Public(c)) /\ SF_vars(WebLock(c)) /\ WF_vars(Panel(c)) /\ WF_vars(Entrypoint(c))

-----------------------------------------------------------------------------
(* Properties *)

WebPlace == {"off", "config", "connect", "migrate", "migrating", "notifier", "bind",
             "serving"} \cup Gone
AdminPlace == {"off", "mail", "cell", "config", "connect", "find", "create", "listen",
               "serving"} \cup Gone

TypeOK ==
  /\ env \in [Container -> Environments]
  /\ schema \in 0 .. Migrations
  /\ accounts \in [Addresses -> {"unset", "good", "other"}]
  /\ script \in [Container -> {"down", "poll", "wait"}]
  /\ tries \in [Container -> 0 .. TRIES]
  /\ web \in [Container -> WebPlace] /\ admin \in [Container -> AdminPlace]
  /\ notifier \in [Container -> Mail] /\ mail \in [Container -> Mail]
  /\ tested \in [Container -> BOOLEAN]
  /\ faults \in Nat

\* entrypoint.sh:11 "the back office waits for it. Otherwise the first admin page
\* load races the schema": whichever container migrates, and however often a
\* migration is cut short, nothing serves over a schema that is not complete,
\* unless the entrypoint has waited in vain for as long as it waits.
PagesFollowTheSchema ==
  \A c \in Container :
    /\ web[c] = "serving" => schema = Migrations
    /\ admin[c] # "off" => schema = Migrations \/ tries[c] = TRIES

\* mail.rs:3 "reads these five variables and builds the same notifier": where
\* both servers of a container serve, both mail, to and from the same addresses
\* through the same port, or neither does.  mail.rs:27 "a check against a different
\* configuration would prove nothing about the one that runs": once a test message
\* was accepted with a container's settings, its back office runs with mail.
SameMail ==
  \A c \in Container : admin[c] = "serving" =>
    /\ web[c] = "serving" => notifier[c] = mail[c]
    /\ tested[c] => mail[c].smtp

\* main.rs:176 "restarting the panel never resets a password": nor does another
\* container that starts at the same moment with another password, and has looked
\* for the account before there was one.
PasswordsStay ==
  [][\A a \in Addresses : accounts[a] # "unset" => accounts'[a] = accounts[a]]_vars

\* A panel that serves, and was to have an administrator, has one.
PanelHasItsAdministrator ==
  \A c \in Container :
    admin[c] = "serving" /\ Wanted(c) => accounts[env[c]["ADMIN_EMAIL"]] # "unset"

\* entrypoint.sh:29 "If either dies the container must die too, rather than serve
\* half a demo": a container is down or serves both, again and again, and never
\* stays in between.
NeverHalfADemo ==
  \A c \in Container :
    []<>(script[c] = "down" \/ (web[c] = "serving" /\ admin[c] = "serving"))
=============================================================================
