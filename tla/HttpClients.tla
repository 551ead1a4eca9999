---------------------------- MODULE HttpClients ----------------------------
(***************************************************************************)
(* The ways in which requests reach the API: a resource service or an      *)
(* owner's tool (Enforcement), the console in a browser (ConsoleSession),  *)
(* the shared demo account (DemoAccount), and a client that refreshes its  *)
(* tokens (RefreshRotation); and the seed script (DemoSeed), a client of   *)
(* the same services in process.  They share no state that these models    *)
(* keep; a behaviour follows one client.                                   *)
(***************************************************************************)
EXTENDS Enforcement, ConsoleSession, DemoAccount, DemoSeed, RefreshRotation

VARIABLE client      \* "service", "browser", "demo", "refresher" or "seed"

clientVars == <<client, enforcementVars, consoleVars, demoVars,
                refreshVars, seedVars>>

AtRest(c) ==
  /\ c # "service" => EnforcementInit /\ allows
  /\ c # "browser" => ConsoleInit /\ mfa.on
  /\ c # "demo" => DemoInit /\ seeded = 0

ClientsInit ==
  /\ client \in {"service", "browser", "demo", "refresher", "seed"}
  /\ EnforcementInit /\ ConsoleInit /\ DemoInit /\ RefreshInit /\ SeedInit
  /\ AtRest(client)

ClientsNext ==
  /\ \/ /\ client = "service"
        /\ EnforcementNext
        /\ UNCHANGED <<consoleVars, demoVars, refreshVars, seedVars>>
     \/ /\ client = "browser"
        /\ ConsoleNext
        /\ UNCHANGED <<enforcementVars, demoVars, refreshVars, seedVars>>
     \/ /\ client = "demo"
        /\ DemoNext
        /\ UNCHANGED <<enforcementVars, consoleVars, refreshVars, seedVars>>
     \/ /\ client = "refresher"
        /\ RefreshNext
        /\ UNCHANGED <<enforcementVars, consoleVars, demoVars, seedVars>>
     \/ /\ client = "seed"
        /\ SeedNext
        /\ UNCHANGED <<enforcementVars, consoleVars, demoVars, refreshVars>>
  /\ UNCHANGED client

ClientsSpec ==
  ClientsInit /\ [][ClientsNext]_clientVars /\ ConsoleFairness

(***************************************************************************)
(* The demo is ready for strangers: however seeds and lookups interleave,  *)
(* there is one demo organization, complete, and once the account exists   *)
(* its restriction takes hold.                                             *)
(***************************************************************************)
DemoIsReady == SeedIsRepeatable /\ DemoLockTakesHold
=============================================================================
