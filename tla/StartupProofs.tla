---------------------------- MODULE StartupProofs ----------------------------
(***************************************************************************)
(* What starting promises for any number of containers, environments,      *)
(* migrations, tries and faults.                                           *)
(***************************************************************************)
EXTENDS Startup, TLAPS

Configured == {"connect", "migrate", "migrating", "notifier", "bind", "serving"}
Migrated == {"notifier", "bind", "serving"}

\* What one container and its servers rely on, at each place of each.
Sound(c) ==
  /\ script[c] = "down" => web[c] = "off" /\ admin[c] = "off"
  /\ script[c] = "poll" => admin[c] = "off"
  /\ web[c] \in Configured => ConfigIsFine(c)
  /\ web[c] \in Migrated => schema = Migrations
  /\ web[c] \in {"bind", "serving"} =>
       notifier[c] = Notifier(c) /\ (Given(c) = {} \/ env[c]["SMTP_HOST"] # "bad")
  /\ admin[c] # "off" => schema = Migrations \/ tries[c] = TRIES
  /\ admin[c] \notin {"off", "mail"} => mail[c] = Mailer(c)
  /\ admin[c] = "create" => Wanted(c) /\ env[c]["ADMIN_PASSWORD"] # "bad"
  /\ admin[c] \in {"listen", "serving"} /\ Wanted(c) => accounts[env[c]["ADMIN_EMAIL"]] # "unset"
  /\ tested[c] => Mailer(c).smtp

Inv ==
  /\ TypeOK
  /\ \A c \in Container : Sound(c)

\* What is asked of the accounts at every step.
Kept == \A a \in Addresses : accounts[a] # "unset" => accounts'[a] = accounts[a]

-----------------------------------------------------------------------------
(* Settings *)

LEMMA EnvTypes ==
  ASSUME TypeOK, NEW c \in Container
  PROVE  /\ env[c] \in [Var -> Value]
         /\ Notifier(c) \in Mail /\ Mailer(c) \in Mail /\ NoMail \in Mail
         /\ Present(c, "ADMIN_EMAIL") => env[c]["ADMIN_EMAIL"] \in Addresses
         /\ Present(c, "ADMIN_PASSWORD") /\ env[c]["ADMIN_PASSWORD"] # "bad"
              => env[c]["ADMIN_PASSWORD"] \in {"good", "other"}
<1>1. env[c] \in [Var -> Value]
  BY StartupAssumption DEF TypeOK
<1>2. \A v \in Var : env[c][v] \in Value
  BY <1>1
<1>3. /\ env[c]["NOTIFY_TO"] \in Value /\ env[c]["NOTIFY_FROM"] \in Value /\ env[c]["SMTP_PORT"] \in Value
      /\ env[c]["ADMIN_EMAIL"] \in Value /\ env[c]["ADMIN_PASSWORD"] \in Value
  BY <1>2 DEF Var, MailVars
<1>4. Notifier(c) \in Mail
  BY <1>3 DEF Notifier, Unsent, Mail, Address, Value
<1>5. Mailer(c) \in Mail
  BY <1>3 DEF Mailer, Unsent, Mail, Address, Value
<1>6. NoMail \in Mail
  BY DEF NoMail, Mail, Address, Value
<1> QED BY <1>1, <1>3, <1>4, <1>5, <1>6 DEF Present, Addresses, Value

\* Whatever depends on a container's environment alone stays with it.
LEMMA SameSettings ==
  ASSUME NEW c \in Container, env'[c] = env[c]
  PROVE  /\ ConfigIsFine(c)' <=> ConfigIsFine(c)
         /\ Wanted(c)' <=> Wanted(c)
         /\ Given(c)' = Given(c) /\ Notifier(c)' = Notifier(c) /\ Mailer(c)' = Mailer(c)
<1>1. Given(c)' = Given(c)
  BY DEF Given, Present
<1>2. ConfigIsFine(c)' <=> ConfigIsFine(c)
  BY <1>1 DEF ConfigIsFine, SmtpIsFine, Present, Parses
<1>3. Wanted(c)' <=> Wanted(c)
  BY DEF Wanted, Present
<1>4. Notifier(c)' = Notifier(c)
  BY <1>1 DEF Notifier, Unsent
<1>5. Mailer(c)' = Mailer(c)
  BY <1>1 DEF Mailer, Unsent, Present, Parses
<1> QED BY <1>1, <1>2, <1>3, <1>4, <1>5

\* Settings the public site serves with give the back office the same mail.
LEMMA Alike ==
  ASSUME NEW c \in Container, ConfigIsFine(c), Given(c) = {} \/ env[c]["SMTP_HOST"] # "bad"
  PROVE  Notifier(c) = Mailer(c)
<1>1. "NOTIFY_TO" \in MailVars /\ "NOTIFY_FROM" \in MailVars
  BY DEF MailVars
<1>2. CASE Given(c) = {}
  <2>1. ~Present(c, "NOTIFY_TO") /\ ~Present(c, "NOTIFY_FROM") /\ Given(c) # MailVars
    BY <1>1, <1>2 DEF Given
  <2> QED BY <1>2, <2>1 DEF Notifier, Mailer
<1>3. CASE Given(c) # {}
  <2>1. Given(c) = MailVars /\ Parses(c, "SMTP_PORT") /\ env[c]["SMTP_HOST"] # "bad"
    BY <1>3 DEF ConfigIsFine, SmtpIsFine
  <2>2. Present(c, "NOTIFY_TO") /\ Present(c, "NOTIFY_FROM")
    BY <1>1, <2>1 DEF Given
  <2> QED BY <1>3, <2>1, <2>2 DEF Notifier, Mailer
<1> QED BY <1>2, <1>3

-----------------------------------------------------------------------------
(* One container's step *)

Elsewhere(c) ==
  \A d \in Container \ {c} :
    /\ env'[d] = env[d] /\ tested'[d] = tested[d]
    /\ script'[d] = script[d] /\ tries'[d] = tries[d]
    /\ web'[d] = web[d] /\ admin'[d] = admin[d]
    /\ notifier'[d] = notifier[d] /\ mail'[d] = mail[d]

LEMMA OneContainer ==
  ASSUME Inv, NEW c \in Container, TypeOK', Sound(c)', Elsewhere(c), Kept,
         schema = Migrations => schema' = Migrations
  PROVE  Inv'
<1>1. ASSUME NEW d \in Container, d # c PROVE Sound(d)'
  <2>1. /\ script'[d] = script[d] /\ tries'[d] = tries[d] /\ web'[d] = web[d]
        /\ admin'[d] = admin[d] /\ notifier'[d] = notifier[d] /\ mail'[d] = mail[d]
        /\ env'[d] = env[d] /\ tested'[d] = tested[d]
    BY <1>1 DEF Elsewhere
  <2>2. Sound(d)
    BY DEF Inv
  <2>3. Wanted(d) /\ accounts[env[d]["ADMIN_EMAIL"]] # "unset" => accounts'[env[d]["ADMIN_EMAIL"]] # "unset"
    BY EnvTypes DEF Inv, Kept, Wanted
  <2>4. Configured' = Configured /\ Migrated' = Migrated
    BY DEF Configured, Migrated
  <2> QED BY <2>1, <2>2, <2>3, <2>4, SameSettings DEF Sound
<1> QED BY <1>1 DEF Inv

\* A step of the public site: it moves, and may set the schema and its mail.
LEMMA WebStep ==
  ASSUME Inv, NEW c \in Container, NEW pc \in WebPlace, WebGoes(c, pc), OnlyWeb,
         script[c] # "down" \/ pc = "off",
         schema' \in 0 .. Migrations, schema = Migrations => schema' = Migrations,
         faults' \in Nat,
         NEW m \in Mail, notifier' = [notifier EXCEPT ![c] = m],
         pc \in Configured => ConfigIsFine(c),
         pc \in Migrated => schema' = Migrations,
         pc \in {"bind", "serving"} => m = Notifier(c) /\ (Given(c) = {} \/ env[c]["SMTP_HOST"] # "bad")
  PROVE  Inv'
<1>1. /\ web \in [Container -> WebPlace] /\ notifier \in [Container -> Mail]
      /\ Sound(c)
  BY DEF Inv, TypeOK
<1>2. /\ web' = [web EXCEPT ![c] = pc] /\ env' = env /\ accounts' = accounts /\ script' = script
      /\ tries' = tries /\ admin' = admin /\ mail' = mail /\ tested' = tested
  BY DEF WebGoes, OnlyWeb
<1>3. web'[c] = pc /\ notifier'[c] = m
  BY <1>1, <1>2
<1>4. TypeOK'
  BY <1>1, <1>2 DEF Inv, TypeOK
<1>5. Elsewhere(c)
  BY <1>1, <1>2 DEF Elsewhere
<1>6. Sound(c)'
  <2>1. Configured' = Configured /\ Migrated' = Migrated
    BY DEF Configured, Migrated
  <2> QED BY <1>1, <1>2, <1>3, <2>1, SameSettings DEF Sound
<1>7. Kept
  BY <1>2 DEF Kept
<1> QED BY <1>2, <1>4, <1>5, <1>6, <1>7, OneContainer

LEMMA WebPlaces ==
  ASSUME Inv, NEW c \in Container, web[c] # "off"
  PROVE  /\ script[c] # "down"
         /\ notifier[c] \in Mail /\ notifier = [notifier EXCEPT ![c] = notifier[c]]
         /\ schema \in 0 .. Migrations /\ schema \in Nat /\ faults \in Nat
         /\ Sound(c)
BY StartupAssumption DEF Inv, TypeOK, Sound

LEMMA WebConfigKeeps == ASSUME Inv, NEW c \in Container, WebConfig(c) PROVE Inv'
<1> DEFINE pc == IF ConfigIsFine(c) THEN "connect" ELSE "failed"
<1>1. WebGoes(c, pc) /\ OnlyWeb /\ schema' = schema /\ notifier' = notifier /\ faults' = faults
  BY DEF WebConfig
<1>2. pc \in WebPlace /\ pc \notin Migrated /\ pc \notin {"bind", "serving"}
      /\ (pc \in Configured => ConfigIsFine(c))
  BY DEF WebPlace, Gone, Migrated, Configured
<1>3. web[c] # "off"
  BY DEF WebConfig
<1> HIDE DEF pc
<1> QED BY <1>1, <1>2, <1>3, WebPlaces, WebStep

LEMMA WebConnectKeeps == ASSUME Inv, NEW c \in Container, WebConnect(c) PROVE Inv'
<1>1. PICK pc \in {"migrate", "failed"} : WebGoes(c, pc)
  BY DEF WebConnect
<1>2. pc \in WebPlace /\ pc \notin Migrated /\ pc \notin {"bind", "serving"}
  BY <1>1 DEF WebPlace, Gone, Migrated
<1>3. web[c] = "connect" /\ OnlyWeb /\ schema' = schema /\ notifier' = notifier
      /\ (faults' = faults \/ faults' = faults + 1)
  BY DEF WebConnect, Fault
<1>4. ConfigIsFine(c)
  BY <1>3, WebPlaces DEF Sound, Configured
<1>5. faults' \in Nat
  BY <1>3, WebPlaces
<1> QED BY <1>1, <1>2, <1>3, <1>4, <1>5, WebPlaces, WebStep

LEMMA WebLockKeeps == ASSUME Inv, NEW c \in Container, WebLock(c) PROVE Inv'
<1>1. WebGoes(c, "migrating") /\ OnlyWeb /\ web[c] = "migrate"
      /\ schema' = schema /\ notifier' = notifier /\ faults' = faults
  BY DEF WebLock
<1>2. ConfigIsFine(c)
  BY <1>1, WebPlaces DEF Sound, Configured
<1>3. "migrating" \in WebPlace /\ "migrating" \notin Migrated
  BY DEF WebPlace, Migrated
<1> QED BY <1>1, <1>2, <1>3, WebPlaces, WebStep

LEMMA WebMigrateKeeps == ASSUME Inv, NEW c \in Container, WebMigrate(c) PROVE Inv'
<1>1. web[c] = "migrating" /\ OnlyWeb /\ notifier' = notifier
  BY DEF WebMigrate
<1>2. ConfigIsFine(c) /\ web \in [Container -> WebPlace]
  BY <1>1, WebPlaces DEF Sound, Configured, Inv, TypeOK
<1>3. /\ "migrating" \in WebPlace /\ "notifier" \in WebPlace /\ "failed" \in WebPlace
      /\ "migrating" \notin Migrated /\ "failed" \notin Migrated
  BY DEF WebPlace, Gone, Migrated
<1>4. CASE schema < Migrations /\ schema' = schema + 1 /\ UNCHANGED <<web, faults>>
  <2>1. WebGoes(c, "migrating")
    BY <1>1, <1>2, <1>4 DEF WebGoes
  <2>2. schema' \in 0 .. Migrations /\ (schema = Migrations => schema' = Migrations)
    BY <1>1, <1>4, WebPlaces, StartupAssumption
  <2> QED BY <1>1, <1>2, <1>3, <1>4, <2>1, <2>2, WebPlaces, WebStep
<1>5. CASE schema = Migrations /\ WebGoes(c, "notifier") /\ UNCHANGED <<schema, faults>>
  BY <1>1, <1>2, <1>3, <1>5, WebPlaces, WebStep
<1>6. CASE WebGoes(c, "failed") /\ Fault /\ UNCHANGED schema
  <2>1. faults' \in Nat
    BY <1>1, <1>6, WebPlaces DEF Fault
  <2> QED BY <1>1, <1>2, <1>3, <1>6, <2>1, WebPlaces, WebStep
<1> QED BY <1>4, <1>5, <1>6 DEF WebMigrate

LEMMA WebNotifierKeeps == ASSUME Inv, NEW c \in Container, WebNotifier(c) PROVE Inv'
<1>1. web[c] = "notifier" /\ OnlyWeb /\ schema' = schema /\ faults' = faults
  BY DEF WebNotifier
<1>2. ConfigIsFine(c) /\ schema = Migrations
  BY <1>1, WebPlaces DEF Sound, Configured, Migrated
<1>3. /\ "bind" \in WebPlace /\ "failed" \in WebPlace
      /\ "failed" \notin Migrated /\ "failed" \notin Configured
  BY DEF WebPlace, Gone, Migrated, Configured
<1>4. CASE Given(c) # {} /\ env[c]["SMTP_HOST"] = "bad"
  BY <1>1, <1>2, <1>3, <1>4, WebPlaces, WebStep DEF WebNotifier
<1>5. CASE ~(Given(c) # {} /\ env[c]["SMTP_HOST"] = "bad")
  <2>1. WebGoes(c, "bind") /\ notifier' = [notifier EXCEPT ![c] = Notifier(c)]
    BY <1>5 DEF WebNotifier
  <2>2. Notifier(c) \in Mail
    BY EnvTypes DEF Inv
  <2> QED BY <1>1, <1>2, <1>3, <1>5, <2>1, <2>2, WebPlaces, WebStep
<1> QED BY <1>4, <1>5

LEMMA WebBindKeeps == ASSUME Inv, NEW c \in Container, WebBind(c) PROVE Inv'
<1>1. web[c] = "bind" /\ OnlyWeb /\ schema' = schema /\ notifier' = notifier
  BY DEF WebBind
<1>2. PICK pc \in {"serving", "failed"} : WebGoes(c, pc)
  BY DEF WebBind
<1>3. /\ ConfigIsFine(c) /\ schema = Migrations /\ notifier[c] = Notifier(c)
      /\ Given(c) = {} \/ env[c]["SMTP_HOST"] # "bad"
  BY <1>1, WebPlaces DEF Sound, Configured, Migrated
<1>4. pc \in WebPlace
  BY <1>2 DEF WebPlace, Gone
<1>5. faults' \in Nat
  BY <1>1, WebPlaces DEF WebBind, Fault
<1> QED BY <1>1, <1>2, <1>3, <1>4, <1>5, WebPlaces, WebStep

LEMMA WebStopsKeeps == ASSUME Inv, NEW c \in Container, WebStops(c) PROVE Inv'
<1>1. web[c] = "serving" /\ OnlyWeb /\ schema' = schema /\ notifier' = notifier /\ Fault
  BY DEF WebStops
<1>2. PICK how \in Gone : WebGoes(c, how)
  BY DEF WebStops
<1>3. how \in WebPlace /\ how \notin Configured /\ how \notin Migrated /\ how \notin {"bind", "serving"}
  BY <1>2 DEF WebPlace, Gone, Configured, Migrated
<1>4. faults' \in Nat
  BY <1>1, WebPlaces DEF Fault
<1> QED BY <1>1, <1>2, <1>3, <1>4, WebPlaces, WebStep

-----------------------------------------------------------------------------
(* The back office *)

\* A step of the back office: it moves, and may read its mail or make an account.
LEMMA AdminStep ==
  ASSUME Inv, NEW c \in Container, NEW pc \in AdminPlace, AdminGoes(c, pc), OnlyAdmin,
         admin[c] # "off", pc # "off",
         accounts' \in [Addresses -> {"unset", "good", "other"}], Kept, faults' \in Nat,
         NEW m \in Mail, mail' = [mail EXCEPT ![c] = m],
         pc # "mail" => m = Mailer(c),
         pc = "create" => Wanted(c) /\ env[c]["ADMIN_PASSWORD"] # "bad",
         pc \in {"listen", "serving"} /\ Wanted(c) => accounts'[env[c]["ADMIN_EMAIL"]] # "unset"
  PROVE  Inv'
<1>1. /\ admin \in [Container -> AdminPlace] /\ mail \in [Container -> Mail]
      /\ Sound(c)
  BY DEF Inv, TypeOK
<1>2. /\ admin' = [admin EXCEPT ![c] = pc] /\ env' = env /\ schema' = schema /\ script' = script
      /\ tries' = tries /\ web' = web /\ notifier' = notifier /\ tested' = tested
  BY DEF AdminGoes, OnlyAdmin
<1>3. admin'[c] = pc /\ mail'[c] = m
  BY <1>1, <1>2
<1>4. TypeOK'
  BY <1>1, <1>2 DEF Inv, TypeOK
<1>5. Elsewhere(c)
  BY <1>1, <1>2 DEF Elsewhere
<1>6. Sound(c)'
  <2>1. Configured' = Configured /\ Migrated' = Migrated
    BY DEF Configured, Migrated
  <2> QED BY <1>1, <1>2, <1>3, <2>1, SameSettings DEF Sound
<1> QED BY <1>2, <1>4, <1>5, <1>6, OneContainer

LEMMA AdminPlaces ==
  ASSUME Inv, NEW c \in Container, admin[c] # "off"
  PROVE  /\ Sound(c) /\ faults \in Nat
         /\ mail[c] \in Mail /\ mail = [mail EXCEPT ![c] = mail[c]]
         /\ accounts \in [Addresses -> {"unset", "good", "other"}]
BY DEF Inv, TypeOK

\* A step that leaves mail and accounts alone.
LEMMA AdminMoves ==
  ASSUME Inv, NEW c \in Container, NEW pc \in AdminPlace, AdminGoes(c, pc), OnlyAdmin,
         UNCHANGED <<accounts, mail>>, admin[c] \notin {"off", "mail"}, pc \notin {"off", "mail"},
         faults' = faults \/ Fault,
         pc = "create" => Wanted(c) /\ env[c]["ADMIN_PASSWORD"] # "bad",
         pc \in {"listen", "serving"} /\ Wanted(c) => accounts[env[c]["ADMIN_EMAIL"]] # "unset"
  PROVE  Inv'
<1>1. mail[c] = Mailer(c) /\ mail[c] \in Mail /\ mail' = [mail EXCEPT ![c] = mail[c]]
  BY AdminPlaces DEF Sound
<1>2. faults' \in Nat /\ accounts' \in [Addresses -> {"unset", "good", "other"}] /\ Kept
  BY AdminPlaces DEF Fault, Kept
<1> QED BY <1>1, <1>2, AdminStep

LEMMA AdminMailKeeps == ASSUME Inv, NEW c \in Container, AdminMail(c) PROVE Inv'
<1>1. /\ admin[c] = "mail" /\ mail' = [mail EXCEPT ![c] = Mailer(c)] /\ AdminGoes(c, "cell")
      /\ accounts' = accounts /\ faults' = faults /\ OnlyAdmin
  BY DEF AdminMail
<1>2. "cell" \in AdminPlace /\ Mailer(c) \in Mail /\ Kept
  BY <1>1, EnvTypes DEF AdminPlace, Kept, Inv
<1> QED BY <1>1, <1>2, AdminPlaces, AdminStep

LEMMA AdminCellKeeps == ASSUME Inv, NEW c \in Container, AdminCell(c) PROVE Inv'
<1>1. PICK pc \in {"config", "failed"} : AdminGoes(c, pc)
  BY DEF AdminCell
<1>2. pc \in AdminPlace
  BY <1>1 DEF AdminPlace, Gone
<1> QED BY <1>1, <1>2, AdminMoves DEF AdminCell

LEMMA AdminConfigKeeps == ASSUME Inv, NEW c \in Container, AdminConfig(c) PROVE Inv'
<1>1. PICK pc \in {"connect", "failed"} : AdminGoes(c, pc)
  BY DEF AdminConfig
<1>2. pc \in AdminPlace
  BY <1>1 DEF AdminPlace, Gone
<1> QED BY <1>1, <1>2, AdminMoves DEF AdminConfig

LEMMA AdminConnectKeeps == ASSUME Inv, NEW c \in Container, AdminConnect(c) PROVE Inv'
<1>1. PICK pc \in {"find", "failed"} : AdminGoes(c, pc)
  BY DEF AdminConnect
<1>2. pc \in AdminPlace
  BY <1>1 DEF AdminPlace, Gone
<1> QED BY <1>1, <1>2, AdminMoves DEF AdminConnect

LEMMA FindAdministratorKeeps == ASSUME Inv, NEW c \in Container, FindAdministrator(c) PROVE Inv'
<1> USE DEF FindAdministrator
<1>1. "listen" \in AdminPlace /\ "failed" \in AdminPlace /\ "create" \in AdminPlace
  BY DEF AdminPlace, Gone
<1>2. CASE ~Wanted(c) /\ AdminGoes(c, "listen") /\ UNCHANGED faults
  BY <1>1, <1>2, AdminMoves
<1>3. CASE AdminGoes(c, "failed") /\ (UNCHANGED faults \/ Fault)
  BY <1>1, <1>3, AdminMoves
<1>4. CASE /\ Wanted(c) /\ env[c]["ADMIN_PASSWORD"] # "bad" /\ UNCHANGED faults
           /\ AdminGoes(c, IF accounts[env[c]["ADMIN_EMAIL"]] = "unset" THEN "create" ELSE "listen")
  <2>1. CASE accounts[env[c]["ADMIN_EMAIL"]] = "unset"
    BY <1>1, <1>4, <2>1, AdminMoves
  <2>2. CASE accounts[env[c]["ADMIN_EMAIL"]] # "unset"
    BY <1>1, <1>4, <2>2, AdminMoves
  <2> QED BY <2>1, <2>2
<1> QED BY <1>2, <1>3, <1>4

LEMMA CreateAdministratorKeeps ==
  ASSUME Inv, NEW c \in Container, CreateAdministrator(c)
  PROVE  Inv' /\ Kept
<1> DEFINE email == env[c]["ADMIN_EMAIL"]
           password == env[c]["ADMIN_PASSWORD"]
<1>1. /\ admin[c] = "create" /\ OnlyAdmin /\ mail' = mail
      /\ accounts \in [Addresses -> {"unset", "good", "other"}]
      /\ Sound(c) /\ mail[c] \in Mail /\ mail = [mail EXCEPT ![c] = mail[c]]
  BY AdminPlaces DEF CreateAdministrator
<1>2. email \in Addresses /\ password \in {"good", "other"} /\ mail[c] = Mailer(c)
  BY <1>1, EnvTypes DEF Inv, Sound, Wanted
<1>3. "listen" \in AdminPlace /\ "failed" \in AdminPlace
  BY DEF AdminPlace, Gone
<1>4. faults' \in Nat
  BY <1>1, AdminPlaces DEF CreateAdministrator, Fault
<1>5. CASE accounts[email] = "unset" /\ accounts' = [accounts EXCEPT ![email] = password]
  <2>1. /\ accounts' \in [Addresses -> {"unset", "good", "other"}]
        /\ accounts'[email] # "unset" /\ Kept
    BY <1>1, <1>2, <1>5 DEF Kept
  <2>2. PICK pc \in {"listen", "failed"} : AdminGoes(c, pc)
    BY DEF CreateAdministrator
  <2> QED BY <1>1, <1>2, <1>3, <1>4, <2>1, <2>2, AdminStep
<1>6. CASE accounts' = accounts /\ AdminGoes(c, "failed")
  <2>1. Kept
    BY <1>6 DEF Kept
  <2> QED BY <1>1, <1>2, <1>3, <1>4, <1>6, <2>1, AdminStep
<1> QED BY <1>5, <1>6 DEF CreateAdministrator

LEMMA AdminListenKeeps == ASSUME Inv, NEW c \in Container, AdminListen(c) PROVE Inv'
<1>1. PICK pc \in {"serving", "failed"} : AdminGoes(c, pc)
  BY DEF AdminListen
<1>2. pc \in AdminPlace
  BY <1>1 DEF AdminPlace, Gone
<1>3. Wanted(c) => accounts[env[c]["ADMIN_EMAIL"]] # "unset"
  BY AdminPlaces DEF AdminListen, Sound
<1> QED BY <1>1, <1>2, <1>3, AdminMoves DEF AdminListen

LEMMA AdminStopsKeeps == ASSUME Inv, NEW c \in Container, AdminStops(c) PROVE Inv'
<1>1. PICK how \in Gone : AdminGoes(c, how)
  BY DEF AdminStops
<1>2. how \in AdminPlace /\ how \notin {"off", "mail", "create", "listen", "serving"}
  BY <1>1 DEF AdminPlace, Gone
<1> QED BY <1>1, <1>2, AdminMoves DEF AdminStops

-----------------------------------------------------------------------------
(* The container *)

LEMMA ContainerTypes ==
  ASSUME Inv, NEW c \in Container
  PROVE  /\ Sound(c) /\ tries[c] \in 0 .. TRIES /\ TRIES \in Nat \ {0} /\ faults \in Nat
         /\ script \in [Container -> {"down", "poll", "wait"}]
         /\ web \in [Container -> WebPlace] /\ admin \in [Container -> AdminPlace]
         /\ notifier \in [Container -> Mail] /\ mail \in [Container -> Mail]
         /\ tries \in [Container -> 0 .. TRIES] /\ NoMail \in Mail
BY StartupAssumption, EnvTypes DEF Inv, TypeOK

\* Nothing is asked of a container that is down.
LEMMA DownKeeps ==
  ASSUME Inv, NEW c \in Container, Down(c), faults' \in Nat,
         UNCHANGED <<env, schema, accounts, tested>>
  PROVE  Inv'
<1>1. /\ script' = [script EXCEPT ![c] = "down"]
      /\ web' = [web EXCEPT ![c] = "off"] /\ admin' = [admin EXCEPT ![c] = "off"]
      /\ notifier' = [notifier EXCEPT ![c] = NoMail] /\ mail' = [mail EXCEPT ![c] = NoMail]
      /\ tries' = tries
  BY DEF Down, WebGoes, AdminGoes
<1>2. "off" \in WebPlace /\ "off" \in AdminPlace
  BY DEF WebPlace, AdminPlace
<1>3. TypeOK'
  BY <1>1, <1>2, ContainerTypes DEF Inv, TypeOK
<1>4. Elsewhere(c)
  BY <1>1, ContainerTypes DEF Elsewhere
<1>5. Sound(c)'
  <2>1. script'[c] = "down" /\ web'[c] = "off" /\ admin'[c] = "off"
    BY <1>1, ContainerTypes
  <2>2. tested'[c] => Mailer(c)'.smtp
    BY ContainerTypes, SameSettings DEF Sound
  <2> QED BY <2>1, <2>2 DEF Sound, Configured, Migrated
<1>6. Kept
  BY DEF Kept
<1> QED BY <1>3, <1>4, <1>5, <1>6, OneContainer

LEMMA LaunchKeeps == ASSUME Inv, NEW c \in Container, Launch(c) PROVE Inv'
<1>1. /\ script' = [script EXCEPT ![c] = "poll"] /\ tries' = [tries EXCEPT ![c] = 0]
      /\ web' = [web EXCEPT ![c] = "config"] /\ script[c] = "down"
      /\ UNCHANGED <<env, schema, accounts, admin, notifier, mail, tested, faults>>
  BY DEF Launch, WebGoes
<1>2. "config" \in WebPlace /\ "config" \notin Configured /\ "config" \notin Migrated
  BY DEF WebPlace, Configured, Migrated
<1>3. TypeOK'
  BY <1>1, <1>2, ContainerTypes DEF Inv, TypeOK
<1>4. Elsewhere(c)
  BY <1>1, ContainerTypes DEF Elsewhere
<1>5. Sound(c)'
  <2>1. /\ script'[c] = "poll" /\ web'[c] = "config" /\ admin'[c] = "off"
    BY <1>1, ContainerTypes DEF Sound
  <2>2. tested'[c] => Mailer(c)'.smtp
    BY <1>1, ContainerTypes, SameSettings DEF Sound
  <2> QED BY <2>1, <2>2 DEF Sound, Configured, Migrated
<1>6. Kept
  BY <1>1 DEF Kept
<1> QED BY <1>1, <1>3, <1>4, <1>5, <1>6, OneContainer

LEMMA PollKeeps == ASSUME Inv, NEW c \in Container, Poll(c) PROVE Inv'
<1>1. /\ script[c] = "poll" /\ UNCHANGED <<env, schema, accounts, tested, faults>>
      /\ admin[c] = "off" /\ Kept
  BY ContainerTypes DEF Poll, Sound, Kept
<1>2. CASE Down(c)
  BY <1>1, <1>2, ContainerTypes, DownKeeps
<1>3. CASE (Healthy(c) \/ tries[c] = TRIES) /\ StartAdmin(c)
  <2>1. /\ script' = [script EXCEPT ![c] = "wait"] /\ admin' = [admin EXCEPT ![c] = "mail"]
        /\ UNCHANGED <<web, notifier, mail, tries>>
    BY <1>3 DEF StartAdmin, AdminGoes
  <2>2. schema = Migrations \/ tries[c] = TRIES
    BY <1>3, ContainerTypes DEF Healthy, Sound, Migrated
  <2>3. TypeOK'
    <3>1. "mail" \in AdminPlace
      BY DEF AdminPlace
    <3> QED BY <1>1, <2>1, <3>1, ContainerTypes DEF Inv, TypeOK
  <2>4. Elsewhere(c)
    BY <1>1, <2>1, ContainerTypes DEF Elsewhere
  <2>5. Sound(c)'
    <3>1. script'[c] = "wait" /\ admin'[c] = "mail"
      BY <2>1, ContainerTypes
    <3>2. Configured' = Configured /\ Migrated' = Migrated
      BY DEF Configured, Migrated
    <3> QED BY <1>1, <2>1, <2>2, <3>1, <3>2, ContainerTypes, SameSettings DEF Sound
  <2> QED BY <1>1, <2>3, <2>4, <2>5, OneContainer
<1>4. CASE /\ tries[c] < TRIES /\ tries' = [tries EXCEPT ![c] = @ + 1]
           /\ UNCHANGED <<script, web, admin, notifier, mail>>
  <2>1. tries[c] + 1 \in 0 .. TRIES
    BY <1>4, ContainerTypes
  <2>2. TypeOK'
    BY <1>1, <1>4, <2>1, ContainerTypes DEF Inv, TypeOK
  <2>3. Elsewhere(c)
    BY <1>1, <1>4, ContainerTypes DEF Elsewhere
  <2>4. Sound(c)'
    <3>1. Configured' = Configured /\ Migrated' = Migrated
      BY DEF Configured, Migrated
    <3> QED BY <1>1, <1>4, <3>1, ContainerTypes, SameSettings DEF Sound
  <2> QED BY <1>1, <2>2, <2>3, <2>4, OneContainer
<1> QED BY <1>2, <1>3, <1>4 DEF Poll

LEMMA SendTestMailKeeps == ASSUME Inv, NEW c \in Container, SendTestMail(c) PROVE Inv'
<1>1. /\ Mailer(c).smtp /\ env' = env /\ tested' = [tested EXCEPT ![c] = TRUE]
      /\ UNCHANGED <<schema, accounts, script, tries, web, admin, notifier, mail, faults>>
      /\ tested \in [Container -> BOOLEAN]
  BY DEF SendTestMail, Inv, TypeOK
<1>2. TypeOK'
  BY <1>1 DEF Inv, TypeOK
<1>3. Elsewhere(c)
  BY <1>1 DEF Elsewhere
<1>4. Sound(c)'
  <2>1. Configured' = Configured /\ Migrated' = Migrated
    BY DEF Configured, Migrated
  <2> QED BY <1>1, <2>1, SameSettings DEF Inv, Sound
<1>5. Kept
  BY <1>1 DEF Kept
<1> QED BY <1>1, <1>2, <1>3, <1>4, <1>5, OneContainer

LEMMA ReconfigureKeeps == ASSUME Inv, NEW c \in Container, Reconfigure(c) PROVE Inv'
<1>1. PICK settings \in Environments : env' = [env EXCEPT ![c] = settings]
  BY DEF Reconfigure
<1>2. /\ script[c] = "down" /\ tested' = [tested EXCEPT ![c] = FALSE]
      /\ UNCHANGED <<schema, accounts, script, tries, web, admin, notifier, mail, faults>>
      /\ env \in [Container -> Environments] /\ tested \in [Container -> BOOLEAN]
  BY DEF Reconfigure, Inv, TypeOK
<1>3. TypeOK'
  BY <1>1, <1>2 DEF Inv, TypeOK
<1>4. Elsewhere(c)
  BY <1>1, <1>2 DEF Elsewhere
<1>5. Sound(c)'
  <2>1. script'[c] = "down" /\ web'[c] = "off" /\ admin'[c] = "off" /\ ~tested'[c]
    BY <1>2 DEF Inv, Sound
  <2> QED BY <2>1 DEF Sound, Configured, Migrated
<1>6. Kept
  BY <1>2 DEF Kept
<1> QED BY <1>2, <1>3, <1>4, <1>5, <1>6, OneContainer

LEMMA StutterKeeps == ASSUME Inv, UNCHANGED vars PROVE Inv'
<1>1. Configured' = Configured /\ Migrated' = Migrated
  BY DEF Configured, Migrated
<1>2. \A c \in Container : Sound(c)'
  BY <1>1, SameSettings DEF vars, Inv, Sound
<1>3. TypeOK'
  BY DEF vars, Inv, TypeOK
<1> QED BY <1>2, <1>3 DEF Inv

-----------------------------------------------------------------------------
(* Theorems *)

LEMMA Starts == Init => Inv
<1> SUFFICES ASSUME Init PROVE Inv
  OBVIOUS
<1>1. TypeOK
  <2>1. NoMail \in Mail
    BY DEF NoMail, Mail, Address, Value
  <2>2. schema \in 0 .. Migrations /\ tries \in [Container -> 0 .. TRIES] /\ faults \in Nat
    BY StartupAssumption DEF Init
  <2>3. web \in [Container -> WebPlace] /\ admin \in [Container -> AdminPlace]
    BY DEF Init, WebPlace, AdminPlace
  <2>4. notifier \in [Container -> Mail] /\ mail \in [Container -> Mail]
    BY <2>1 DEF Init
  <2> QED BY <2>2, <2>3, <2>4 DEF Init, TypeOK
<1>2. \A c \in Container : Sound(c)
  BY DEF Init, Sound, Configured, Migrated
<1> QED BY <1>1, <1>2 DEF Inv

LEMMA Keeps == Inv /\ [Next]_vars => Inv'
<1> SUFFICES ASSUME Inv, [Next]_vars PROVE Inv'
  OBVIOUS
<1>1. ASSUME NEW c \in Container, WebLock(c) \/ Public(c) PROVE Inv'
  BY <1>1, WebLockKeeps, WebConfigKeeps, WebConnectKeeps, WebMigrateKeeps, WebNotifierKeeps,
     WebBindKeeps DEF Public
<1>2. ASSUME NEW c \in Container, Panel(c) PROVE Inv'
  BY <1>2, AdminMailKeeps, AdminCellKeeps, AdminConfigKeeps, AdminConnectKeeps,
     FindAdministratorKeeps, CreateAdministratorKeeps, AdminListenKeeps DEF Panel
<1>3. ASSUME NEW c \in Container, Wait(c) PROVE Inv'
  BY <1>3, ContainerTypes, DownKeeps DEF Wait
<1>4. ASSUME NEW c \in Container, Kill(c) PROVE Inv'
  BY <1>4, ContainerTypes, DownKeeps DEF Kill, Fault
<1>5. CASE Environment
  BY <1>4, <1>5, LaunchKeeps, WebStopsKeeps, AdminStopsKeeps, SendTestMailKeeps, ReconfigureKeeps
     DEF Environment
<1> QED BY <1>1, <1>2, <1>3, <1>5, PollKeeps, StutterKeeps DEF Next, Entrypoint

LEMMA Always == Spec => []Inv
BY Starts, Keeps, PTL DEF Spec

\* The settings, the schema, the accounts, both servers and what they mail with
\* are what their types say, however containers start, fail and are replaced.
THEOREM TypeCorrect == Spec => []TypeOK
<1>1. Inv => TypeOK
  BY DEF Inv
<1> QED BY <1>1, Always, PTL

\* entrypoint.sh:11: nothing serves over a schema that is not complete, unless the
\* entrypoint has given up waiting; with any number of migrations and containers
\* that start, are killed and take over from each other.
THEOREM SchemaFirst == Spec => []PagesFollowTheSchema
<1>1. Inv => PagesFollowTheSchema
  BY DEF Inv, Sound, PagesFollowTheSchema, Migrated
<1> QED BY <1>1, Always, PTL

\* mail.rs:3, 27: whatever the environment, if both servers of a container come
\* up, their two readings of it agree, and so does a test message's.
THEOREM SameMailInBoth == Spec => []SameMail
<1>1. Inv => SameMail
  <2> SUFFICES ASSUME Inv, NEW c \in Container, web[c] = "serving", admin[c] = "serving"
               PROVE  notifier[c] = mail[c]
    BY DEF Inv, Sound, SameMail
  <2>1. /\ ConfigIsFine(c) /\ notifier[c] = Notifier(c) /\ mail[c] = Mailer(c)
        /\ Given(c) = {} \/ env[c]["SMTP_HOST"] # "bad"
    BY DEF Inv, Sound, Configured
  <2> QED BY <2>1, Alike
<1> QED BY <1>1, Always, PTL

\* main.rs:168: a panel that serves, and was to have an administrator, has one.
THEOREM SomebodyCanLogIn == Spec => []PanelHasItsAdministrator
<1>1. Inv => PanelHasItsAdministrator
  BY DEF Inv, Sound, PanelHasItsAdministrator
<1> QED BY <1>1, Always, PTL

\* main.rs:176: no start resets the password of an account, nor do two at once that
\* were given different ones and both found no account.
THEOREM PasswordsAreNeverReset == Spec => PasswordsStay
<1>1. Inv /\ [Next]_vars => [Kept]_vars
  <2> SUFFICES ASSUME Inv, Next PROVE Kept
    OBVIOUS
  <2>1. CASE \E c \in Container : CreateAdministrator(c)
    BY <2>1, CreateAdministratorKeeps
  <2>2. CASE accounts' = accounts
    BY <2>2 DEF Kept
  <2>3. ASSUME NEW c \in Container, Panel(c) PROVE CreateAdministrator(c) \/ accounts' = accounts
    BY <2>3 DEF Panel, AdminMail, AdminCell, AdminConfig, AdminConnect, FindAdministrator,
                AdminListen
  <2>4. ASSUME NEW c \in Container, WebLock(c) \/ Public(c) PROVE accounts' = accounts
    BY <2>4 DEF WebLock, Public, WebConfig, WebConnect, WebMigrate, WebNotifier, WebBind, OnlyWeb
  <2>5. ASSUME NEW c \in Container, Entrypoint(c) PROVE accounts' = accounts
    BY <2>5 DEF Entrypoint, Poll, Wait
  <2>6. ASSUME Environment PROVE accounts' = accounts
    BY <2>6 DEF Environment, Launch, Kill, WebStops, AdminStops, SendTestMail, Reconfigure,
                OnlyWeb
  <2> QED BY <2>1, <2>2, <2>3, <2>4, <2>5, <2>6 DEF Next
<1> QED BY <1>1, Always, PTL DEF Spec, PasswordsStay, Kept
=============================================================================
