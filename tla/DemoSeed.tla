------------------------------ MODULE DemoSeed ------------------------------
(***************************************************************************)
(* The seed script: the demo user, its organization (TenancyService) and   *)
(* what is written into it, one write after another with no transaction    *)
(* around them.  Deployments may run it side by side, it may die anywhere  *)
(* and be run again, and the address may have been registered before.      *)
(***************************************************************************)
EXTENDS Naturals, FiniteSets

CONSTANTS
  Seeders,       \* runs of the script
  SeedWrites,    \* namespaces, tuples and policies that it writes
  MaxDeaths      \* bound: runs that die

VARIABLES
  demoUser,      \* who saved the row of the demo address, or "none"
  personalOrgs,  \* organizations of the demo user
  content,       \* the writes that the organization has
  seeder,        \* where each run is, and whether it found the user
  deaths,        \* runs that have died so far
  abandoned      \* history: a run died between the organization and its last write

deathVars == <<deaths, abandoned>>
seedVars == <<demoUser, personalOrgs, content, seeder, deathVars>>

ASSUME SeedAssumption == SeedWrites \in Nat \ {0} /\ MaxDeaths \in Nat

Off == [step |-> "off", found |-> FALSE, next |-> 1]

SeedInit ==
  /\ demoUser = "none"
  /\ personalOrgs = {}
  /\ content = {}
  /\ seeder = [s \in Seeders |-> Off]
  /\ deaths = 0
  /\ abandoned = FALSE

Move(s, step) == seeder' = [seeder EXCEPT ![s].step = step]

(* users.findByEmail, the first statement of a run. *)
FindDemoUser(s) ==
  /\ seeder[s].step = "off"
  /\ seeder' = [seeder EXCEPT ![s].found = demoUser # "none",
                              ![s].step = IF demoUser = "none" THEN "save" ELSE "org"]
  /\ UNCHANGED <<demoUser, personalOrgs, content, deathVars>>

(* findActiveOrganization: with one, the seed counts as applied. *)
FindActiveOrganization(s) ==
  /\ seeder[s].step = "org"
  /\ Move(s, IF personalOrgs # {} THEN "already" ELSE "provision")
  /\ UNCHANGED <<demoUser, personalOrgs, content, deathVars>>

(* users.save of a new verified user; the address is unique. *)
SaveUser(s) ==
  /\ seeder[s].step = "save"
  /\ \/ demoUser = "none" /\ demoUser' = "seed" /\ Move(s, "provision")
     \/ demoUser # "none" /\ UNCHANGED demoUser /\ Move(s, "failed")
  /\ UNCHANGED <<personalOrgs, content, deathVars>>

(* RegisterUserHandler, for somebody who takes the address. *)
RegisterAddress ==
  /\ demoUser = "none"
  /\ demoUser' = "visitor"
  /\ UNCHANGED <<personalOrgs, content, seeder, deathVars>>

(* The slug of a personal organization is made from the user and unique. *)
SlugIsFree == personalOrgs = {}

(* provisionPersonalOrganization: the organization and its owner together. *)
ProvisionPersonalOrganization(s) ==
  /\ seeder[s].step = "provision"
  /\ \/ SlugIsFree /\ personalOrgs' = personalOrgs \cup {s} /\ Move(s, "write")
     \/ ~SlugIsFree /\ UNCHANGED personalOrgs /\ Move(s, "failed")
  /\ UNCHANGED <<demoUser, content, deathVars>>

(* The next namespace, tuple or policy: transactions of the writers. *)
WriteNext(s) ==
  LET n == seeder[s].next IN
  /\ seeder[s].step = "write"
  /\ content' = content \cup {n}
  /\ seeder' = [seeder EXCEPT ![s].next = n + 1,
                              ![s].step = IF n = SeedWrites THEN "applied" ELSE "write"]
  /\ UNCHANGED <<demoUser, personalOrgs, deathVars>>

Ended == {"applied", "already", "failed"}

(* The process exits; the script may be run again. *)
Exit(s) ==
  /\ seeder[s].step \in Ended
  /\ seeder' = [seeder EXCEPT ![s] = Off]
  /\ UNCHANGED <<demoUser, personalOrgs, content, deathVars>>

(* A write fails or the process dies; what was committed stays. *)
DieSeeding(s) ==
  /\ seeder[s].step \notin Ended \cup {"off"}
  /\ deaths < MaxDeaths
  /\ deaths' = deaths + 1
  /\ abandoned' = (abandoned \/ seeder[s].step = "write")
  /\ seeder' = [seeder EXCEPT ![s] = Off]
  /\ UNCHANGED <<demoUser, personalOrgs, content>>

SeedNext ==
  \/ RegisterAddress
  \/ \E s \in Seeders :
       \/ FindDemoUser(s)
       \/ FindActiveOrganization(s)
       \/ SaveUser(s)
       \/ ProvisionPersonalOrganization(s)
       \/ WriteNext(s)
       \/ Exit(s)
       \/ DieSeeding(s)

-----------------------------------------------------------------------------
(***************************************************************************)
(* Re-running the seed is safe: whatever runs overlap there is one         *)
(* organization, and a run that reports the seed as applied, now or        *)
(* before, leaves a complete demo or another run that is still writing it. *)
(* A run that died between creating the organization and its last write is *)
(* the exception: no later run completes what it left.  One that died      *)
(* before leaves nothing that a later run cannot finish.                   *)
(***************************************************************************)
SeedIsRepeatable ==
  /\ Cardinality(personalOrgs) <= 1
  /\ \A s \in Seeders :
       seeder[s].step \in {"applied", "already"} =>
         \/ content = 1 .. SeedWrites
         \/ abandoned
         \/ \E q \in Seeders : seeder[q].step = "write"
=============================================================================
