------------------------------ MODULE MCServices ------------------------------
(***************************************************************************)
(* TLC instance of what surrounds the queue: the brake before it, the run  *)
(* of one job after it, and the two scripts of a deployment, the migrator  *)
(* and the Stripe set-up.  They share no state: a behaviour is of one, and *)
(* the others have ended.                                                  *)
(***************************************************************************)
EXTENDS JobPipeline, Migrator, Provisioning, SubmissionThrottle, TLC

CONSTANTS
  tiny, pair, bomb, big, many, twins, mixed, linked, nested, dense, crowd, empty, fat,
  m1, m2

MCArchives == {tiny, pair, bomb, big, many, twins, mixed, linked, nested, dense, crowd, empty, fat}

File(key, size, packed) ==
  [path |-> <<"repo", key>>, key |-> key, hostile |-> FALSE, directory |-> FALSE,
   mode |-> "regular", extension |-> "ts", size |-> size, packed |-> packed]
Dir(name) == [File(name, 0, 0) EXCEPT !.directory = TRUE, !.mode = "none"]
Wrapper == [Dir("repo") EXCEPT !.path = <<"repo">>]
In(name, e) == [e EXCEPT !.path = <<"repo", name, e.key>>]

MCEntries ==
  tiny :> <<Wrapper, File("a", 1, 1)>>
  @@ pair :> <<File("a", 2, 2), File("b", 1, 1)>>
  @@ bomb :> <<File("a", 2, 2), File("b", 2, 2)>>
  @@ big :> <<File("a", 3, 3)>>
  @@ many :> <<File("a", 1, 1), File("b", 1, 1), File("c", 1, 1)>>
  @@ twins :> <<File("a", 1, 1), [File("a", 2, 1) EXCEPT !.path = <<"repo", "A">>]>>
  @@ mixed :> <<Dir("src"), In("src", File("a", 1, 1)), In("node_modules", File("b", 2, 1)),
                [File("c", 1, 1) EXCEPT !.extension = "archive"],
                [File("d", 1, 1) EXCEPT !.extension = "other"], File("t", 1, 1)>>
  @@ linked :> <<File("a", 1, 1), [File("b", 1, 1) EXCEPT !.mode = "link"]>>
  @@ nested :> <<[File("c", 1, 1) EXCEPT !.extension = "archive"]>>
  @@ dense :> <<File("a", 2, 1)>>
  @@ crowd :> [i \in 1 .. 7 |-> Dir("src")]
  @@ empty :> <<>>
  @@ fat :> <<File("a", 1, 1)>>

MCSize == [a \in MCArchives |-> CASE a = empty -> 0 [] a = fat -> 3 [] a = pair -> 2 [] OTHER -> 1]

\* Pushes go to and fro between two commits.
MCPushed ==
  [a \in MCArchives |-> CASE a = tiny -> pair [] a = pair -> tiny [] a = bomb -> mixed
                          [] a = mixed -> bomb [] OTHER -> a]

File1(name, checksum) == [name |-> name, checksum |-> checksum]

\* The second release adds a file and has another text of the first one's last.
MCRelease ==
  m1 :> <<File1(1, "a"), File1(2, "b")>>
  @@ m2 :> <<File1(1, "a"), File1(2, "edited"), File1(3, "c")>>

------------------------------------------------------------------------------
\* What has ended takes no step.
NoJob == JobStart("over") /\ source = "zip" /\ upload = tiny
NoMigrator == MigratorStart(MaxRuns)
NoScript ==
  /\ ProvisioningStart(MaxScriptRuns)
  /\ \A p \in Products : product[p] = NoProduct
  /\ \A e \in Endpoints : endpoint[e] = "none"
  /\ portal = "none"

NoCalls == ThrottleStart(MaxTime)

allServiceVars == <<jobVars, migratorVars, scriptVars, throttleVars>>

ServicesInit ==
  \/ JobInit /\ NoMigrator /\ NoScript /\ NoCalls
  \/ MigratorInit /\ NoJob /\ NoScript /\ NoCalls
  \/ ProvisioningInit /\ NoJob /\ NoMigrator /\ NoCalls
  \/ ThrottleInit /\ NoJob /\ NoMigrator /\ NoScript

ServicesNext ==
  \/ JobNext /\ UNCHANGED <<migratorVars, scriptVars, throttleVars>>
  \/ MigratorNext /\ UNCHANGED <<jobVars, scriptVars, throttleVars>>
  \/ ProvisioningNext /\ UNCHANGED <<jobVars, migratorVars, throttleVars>>
  \/ ThrottleNext /\ UNCHANGED <<jobVars, migratorVars, scriptVars>>

Spec == ServicesInit /\ [][ServicesNext]_allServiceVars /\ JobFairness
=============================================================================
