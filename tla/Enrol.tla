------------------------------- MODULE Enrol --------------------------------
(* How the device joins a pog Home: components/pogdev/pogdev_enrol.c and     *)
(* pogdev_discovery.c, started from main.c.  The device announces itself     *)
(* with a claim secret, a person adopts it, and it collects credentials the  *)
(* server hands out once.  Secrets and credentials are numbers, 0 is none.   *)
(* The server side (home) is external: it is what the requests and answers   *)
(* of the code take it for.                                                  *)
EXTENDS Naturals, FiniteSets

CONSTANTS Addresses,     \* places pog Home may be at
          MaxMishaps,    \* lost answers, failed writes, power cuts, moves,
                         \* revocations and requests to forget
          MaxSecrets     \* claim secrets, and credentials, ever made

VARIABLES
  nvs,      \* flash: claim secret, credentials, broker address, proof
  ram,      \* s_claim_secret, s_creds, s_forgetting
  task,     \* enrol_task: where it is, the server it talks to, the credentials
            \* it was given
  starter,  \* start_airplay_services: about to create the task, to start the
            \* bus, or past both
  found,    \* s_server: the address discovery holds, or none
  home,     \* pog Home: our row, its frozen secret, our valid credentials
  mishaps   \* how many so far

enrolVars == <<nvs, ram, task, starter, found, home, mishaps>>

Nowhere == "nowhere"
Secrets == 0 .. MaxSecrets
Blank == [claim |-> 0, creds |-> 0, host |-> Nowhere, proof |-> FALSE]
Unknown == [claim |-> 0, creds |-> 0, host |-> Nowhere, forgetting |-> FALSE]

TaskOff == [at |-> "off", srv |-> Nowhere, got |-> 0]

EnrolInit ==
  /\ nvs \in {Blank, [Blank EXCEPT !.proof = TRUE]}
  /\ ram = Unknown
  /\ task = TaskOff
  /\ starter = "create"
  /\ found = Nowhere
  /\ home \in [row : {"none"}, secret : {0}, creds : {0}, made : {0}, addr : {CHOOSE a \in Addresses : TRUE}]
  /\ mishaps = 0

Mishap == mishaps < MaxMishaps /\ mishaps' = mishaps + 1

\* start_airplay_services creates enrol_task and goes on to the bus
CreateTask ==
  /\ starter = "create"
  /\ starter' = "bus" /\ task' = [TaskOff EXCEPT !.at = "load"]
  /\ UNCHANGED <<nvs, ram, found, home, mishaps>>

\* take_result: a place on our network beats a relay, whatever the order
Score(r) == (IF r.local THEN 100 ELSE 0) + (IF r.tls THEN 0 ELSE 10) + 5
TakeResult(results) == CHOOSE r \in results : \A q \in results : Score(q) <= Score(r)

\* discovery_task: pog Home answers, and an old relay may answer with it.  The
\* first query takes seconds: the starter is long past by then.
Discover ==
  LET here == [addr |-> home.addr, local |-> TRUE, tls |-> FALSE]
      relay == [addr |-> "relay", local |-> FALSE, tls |-> TRUE] IN
  /\ starter = "done"
  /\ \E results \in {{here}, {here, relay}} : found' = TakeResult(results).addr
  /\ found' # found
  /\ UNCHANGED <<nvs, ram, task, starter, home, mishaps>>

\* load_state: credentials kept in flash end the task
Load ==
  /\ task.at = "load"
  /\ IF ram.forgetting THEN task' = [task EXCEPT !.at = "look"] /\ UNCHANGED ram
     ELSE /\ ram' = [ram EXCEPT !.claim = nvs.claim,
                     !.creds = IF nvs.creds # 0 THEN nvs.creds ELSE @,
                     !.host = IF nvs.creds # 0 THEN nvs.host ELSE @]
          /\ task' = [task EXCEPT !.at = IF nvs.creds # 0 THEN "done" ELSE "look"]
  /\ UNCHANGED <<nvs, starter, found, home, mishaps>>

Look ==
  /\ task.at = "look" /\ found # Nowhere
  /\ task' = [task EXCEPT !.at = "secret", !.srv = found]
  /\ UNCHANGED <<nvs, ram, starter, found, home, mishaps>>

\* the secrets nobody holds
FreshSecrets == (1 .. MaxSecrets) \ {nvs.claim, ram.claim, home.secret}

\* ensure_claim_secret: the secret is written before the first announcement.
\* When the write fails the task starts over, with the secret still in memory.
EnsureSecret ==
  /\ task.at = "secret"
  /\ IF ram.forgetting \/ ram.claim # 0
     THEN /\ task' = [task EXCEPT !.at = IF ram.forgetting THEN "look" ELSE "announce"]
          /\ UNCHANGED <<nvs, ram, mishaps>>
     ELSE \E s \in FreshSecrets :
          /\ \A q \in FreshSecrets : s <= q
          /\ ram' = [ram EXCEPT !.claim = s]
          /\ \/ /\ nvs' = [nvs EXCEPT !.claim = s]
                /\ task' = [task EXCEPT !.at = "announce"]
                /\ UNCHANGED mishaps
             \/ Mishap /\ task' = [task EXCEPT !.at = "look"] /\ UNCHANGED nvs
  /\ UNCHANGED <<starter, found, home>>

\* pog Home's answer to an announcement.  The first one freezes the secret of
\* the row until the row expires; a proof that holds adopts at once.
Announced(secret, adopts) ==
  IF home.row \in {"pending", "adopted"} /\ home.secret # secret THEN home
  ELSE IF home.row = "delivered" /\ home.secret = secret THEN home
  ELSE IF adopts /\ home.row # "adopted"
  THEN [home EXCEPT !.row = "adopted", !.secret = secret, !.made = @ + 1, !.creds = @ + 1]
  ELSE [home EXCEPT !.row = IF @ = "adopted" THEN @ ELSE "pending", !.secret = secret]

\* announce: a proof travels with it, and is dropped when it is refused.  No
\* answer: the wrong place was asked, or the request or the answer is lost.
Announce ==
  LET proof == nvs.proof /\ ~ram.forgetting IN
  /\ task.at = "announce"
  /\ task' = [task EXCEPT !.at = "collect"]
  /\ \/ task.srv # home.addr /\ UNCHANGED <<home, nvs, mishaps>>
     \/ Mishap /\ home' \in {home, Announced(ram.claim, proof)} /\ UNCHANGED nvs
     \/ /\ task.srv = home.addr /\ UNCHANGED mishaps
        /\ \E holds \in BOOLEAN :
             /\ home' = Announced(ram.claim, proof /\ holds)
             /\ nvs' = IF proof /\ ~holds THEN [nvs EXCEPT !.proof = FALSE] ELSE nvs
  /\ UNCHANGED <<ram, starter, found>>

\* a row that nobody collects expires
RowExpires ==
  /\ home.row \in {"pending", "adopted"} /\ home.secret # ram.claim
  /\ home' = [home EXCEPT !.row = "none", !.secret = 0]
  /\ UNCHANGED <<nvs, ram, task, starter, found, mishaps>>

\* a person adopts the device
Adopt ==
  /\ home.row = "pending"
  /\ home' = [home EXCEPT !.row = "adopted", !.made = @ + 1, !.creds = home.made + 1]
  /\ UNCHANGED <<nvs, ram, task, starter, found, mishaps>>

\* collect's request as pog Home takes it: unknown or handed out already
\* (404, 410), handed out now, or not yet
Gone(secret) == home.row = "none" \/ (home.row = "delivered" /\ home.secret = secret)
Due(secret) == home.row = "adopted" /\ home.secret = secret
HandedOut(secret) == IF Due(secret) THEN [home EXCEPT !.row = "delivered"] ELSE home

\* Mutant: the secret goes from flash and stays in memory
DropClaimInFlash ==
  IF ram.forgetting THEN UNCHANGED <<nvs, ram>>
  ELSE nvs' = [nvs EXCEPT !.claim = 0] /\ UNCHANGED ram

\* 404 or 410: the secret is worth nothing any more and goes
DropClaim ==
  IF ram.forgetting THEN UNCHANGED <<nvs, ram>>
  ELSE nvs' = [nvs EXCEPT !.claim = 0] /\ ram' = [ram EXCEPT !.claim = 0]

\* collect, up to the answer; given is what it brought, 0 for nothing
Collect(srv, given) ==
  LET secret == ram.claim IN
  \/ srv # home.addr /\ given = 0 /\ UNCHANGED <<nvs, ram, home, mishaps>>
  \/ Mishap /\ given = 0 /\ home' = HandedOut(secret) /\ UNCHANGED <<nvs, ram>>
  \/ /\ srv = home.addr /\ UNCHANGED mishaps
     /\ home' = HandedOut(secret)
     /\ given = IF Due(secret) THEN home.creds ELSE 0
     /\ IF Gone(secret) THEN DropClaim ELSE UNCHANGED <<nvs, ram>>

\* Mutant: what was asked to be forgotten is not looked at
StoreCredsAlways(srv, c) ==
  /\ nvs' = [nvs EXCEPT !.creds = c, !.host = srv]
  /\ ram' = [ram EXCEPT !.creds = c, !.host = srv]

\* store_creds: in flash first, then in memory; not while forgetting
StoreCreds(srv, c) ==
  /\ ~ram.forgetting
  /\ nvs' = [nvs EXCEPT !.creds = c, !.host = srv]
  /\ ram' = [ram EXCEPT !.creds = c, !.host = srv]

\* the write fails, or the device is forgetting: the answer is lost
StoreRefused ==
  /\ UNCHANGED <<nvs, ram>>
  /\ \/ ram.forgetting /\ UNCHANGED mishaps
     \/ Mishap

\* enrol_task collects, waits for its next round, or has what it wanted
TaskCollects ==
  /\ task.at = "collect"
  /\ \E c \in Secrets :
       /\ Collect(task.srv, c)
       /\ task' = [task EXCEPT !.at = IF c = 0 THEN "look" ELSE "store", !.got = c]
  /\ UNCHANGED <<starter, found>>

TaskStores ==
  /\ task.at = "store"
  /\ \/ StoreCreds(task.srv, task.got) /\ task' = [task EXCEPT !.at = "clear", !.got = 0] /\ UNCHANGED mishaps
     \/ StoreRefused /\ task' = [task EXCEPT !.at = "look", !.got = 0]
  /\ UNCHANGED <<starter, found, home>>

\* pogdev_provisioning_clear, then the callback starts the bus
TaskClears ==
  /\ task.at = "clear"
  /\ nvs' = [nvs EXCEPT !.proof = FALSE]
  /\ task' = [task EXCEPT !.at = "adopted"]
  /\ UNCHANGED <<ram, starter, found, home, mishaps>>

\* pogdev_enrol_get
EnrolGet == ram.creds # 0 /\ ~ram.forgetting

\* pogdev_enrol_update_host
HostMoved == found # Nowhere /\ EnrolGet /\ ram.host # found

UpdateHost ==
  /\ HostMoved
  /\ nvs' = [nvs EXCEPT !.host = found]
  /\ ram' = [ram EXCEPT !.host = found]

\* pogdev_forget, then the restart its caller owes; a failed erase forgets
\* nothing
Forget ==
  /\ starter = "done" /\ ~ram.forgetting /\ Mishap
  /\ \/ nvs' = Blank /\ ram' = [Unknown EXCEPT !.forgetting = TRUE]
     \/ UNCHANGED <<nvs, ram>>
  /\ UNCHANGED <<task, starter, found, home>>

\* pog Home moves, takes the credentials back, or drops the device
Moves ==
  /\ Mishap
  /\ \/ \E a \in Addresses \ {home.addr} : home' = [home EXCEPT !.addr = a]
     \/ /\ home.row = "delivered"
        /\ home' \in {[home EXCEPT !.row = "pending", !.creds = 0],
                      [home EXCEPT !.row = "none", !.secret = 0, !.creds = 0]}
  /\ UNCHANGED <<nvs, ram, task, starter, found>>

Booted ==
  /\ ram' = Unknown /\ task' = TaskOff
  /\ starter' = "create" /\ found' = Nowhere

\* Once the device is told to forget, nothing of pog Home is kept in flash, not
\* even what a request under way brings (pogdev_forget against store_creds,
\* ensure_claim_secret, collect and pogdev_enrol_update_host).
ForgottenStaysForgotten ==
  ram.forgetting => nvs.creds = 0 /\ nvs.claim = 0 /\ nvs.host = Nowhere
=============================================================================
