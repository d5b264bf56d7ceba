------------------------------- MODULE Services -------------------------------
(***************************************************************************)
(* The services around the durable tasks, one instance each, under one     *)
(* roof: their constants, their variables and what each promises.  None    *)
(* uses the state of another.                                              *)
(***************************************************************************)
EXTENDS Integers, FiniteSets

CONSTANTS Nobody,
          Clients, Singles, Arrays, MaxRequests,               \* JobTracking
          Watches, WatchDaemons, WatchedTasks,                 \* JobWatch
          Daemons,                                             \* DaemonLife, with Clients
          RunClients, MaxLog, Budget,                          \* DetachedRun
          Actors, Followers, Facts, MaxEvents, MaxKept, Limit, \* ActivityLog
          Workers, Files, Inodes, MaxOps,                      \* FileOps
          Groups, MaxState, MaxCommits, Window, UnitPages,     \* CampaignRecovery
          MaxSpaceClock, MaxInspections,                       \* Workspace
          HostTasks, MaxHostClock                              \* Discovery

ASSUME ServicesAssumption ==
  /\ Nobody \notin Daemons
  /\ MaxEvents \in Nat
  /\ MaxKept \in Nat
  /\ Limit \in Nat \ {0}

ASSUME JobsAssumption ==
  /\ Nobody \notin Clients
  /\ Singles \intersect Arrays = {}

ASSUME WatchAssumption ==
  /\ Nobody \notin WatchDaemons
  /\ IsFiniteSet(WatchedTasks)

ASSUME RunAssumption ==
  Budget \in Nat \ {0}

ASSUME FileAssumption ==
  /\ Files \subseteq Nat
  /\ 1 \in Inodes
  /\ 0 \notin Inodes

ASSUME RecoveryAssumption ==
  /\ Groups \subseteq Nat
  /\ IsFiniteSet(Groups)
  /\ Window \in Nat
  /\ UnitPages \in Nat \ {0}

ASSUME SpaceAssumption ==
  /\ MaxSpaceClock \in Nat \ {0}
  /\ MaxInspections \in Nat

ASSUME DiscoveryAssumption ==
  /\ 1 \in HostTasks
  /\ MaxHostClock \in Nat \ {0}

VARIABLES jobSubject, jobRequests, jobTasks, jobAccounted, jobOver, jobRegistry, jobLock, jobClient, jobKept, jobTold
jobs == <<jobSubject, jobRequests, jobTasks, jobAccounted, jobOver, jobRegistry, jobLock, jobClient, jobKept, jobTold>>

J == INSTANCE JobTracking WITH
       subject <- jobSubject, requests <- jobRequests, tasks <- jobTasks, accounted <- jobAccounted,
       overJobs <- jobOver, registry <- jobRegistry, regLock <- jobLock, client <- jobClient,
       kept <- jobKept, toldOver <- jobTold

VARIABLES jobOf, watchFate, watchSacct, condition, row, monitor, monitorLock, told, answered, sighted
watches == <<jobOf, watchFate, watchSacct, condition, row, monitor, monitorLock, told, answered, sighted>>

W == INSTANCE JobWatch WITH
       Daemons <- WatchDaemons, Tasks <- WatchedTasks, fate <- watchFate, sacct <- watchSacct

VARIABLES socket, owner, daemon, daemonClient, running, orphans
daemons == <<socket, owner, daemon, daemonClient, running, orphans>>

D == INSTANCE DaemonLife WITH client <- daemonClient

VARIABLES record, wrapper, others, rc, reaper, log, logStart, runClient, cut
runs == <<record, wrapper, others, rc, reaper, log, logStart, runClient, cut>>

R == INSTANCE DetachedRun WITH Clients <- RunClients, client <- runClient

VARIABLES events, last, pruned, inScope, operation, checkpoint, follower
journal == <<events, last, pruned, inScope, operation, checkpoint, follower>>

A == INSTANCE ActivityLog

VARIABLES file, inode, debris, worker, fileAsked
files == <<file, inode, debris, worker, fileAsked>>

F == INSTANCE FileOps WITH asked <- fileAsked

VARIABLES head, ledger, cp, recoverer, imported, known, cached, swept
recovery == <<head, ledger, cp, recoverer, imported, known, cached, swept>>

C == INSTANCE CampaignRecovery WITH observer <- recoverer

VARIABLES spaceClock, spaceEnded, space, view, sample, spaceObserver, requests, spaceAsked
spaces == <<spaceClock, spaceEnded, space, view, sample, spaceObserver, requests, spaceAsked>>

S == INSTANCE Workspace WITH
       MaxClock <- MaxSpaceClock, MaxRequests <- MaxInspections,
       clock <- spaceClock, ended <- spaceEnded, observer <- spaceObserver, asked <- spaceAsked

VARIABLES hostClock, hostTasks, hostFate, hostEnded, hostSacct, doc, discoverer, news, quiet
hosts == <<hostClock, hostTasks, hostFate, hostEnded, hostSacct, doc, discoverer, news, quiet>>

H == INSTANCE Discovery WITH
       Tasks <- HostTasks, MaxClock <- MaxHostClock,
       clock <- hostClock, tasks <- hostTasks, fate <- hostFate, ended <- hostEnded, sacct <- hostSacct,
       observer <- discoverer

------------------------------------------------------------------------------
(* Properties *)

\* A recorded job stays in the registry until it is pruned, whichever processes
\* write it, and no client is told that a job is over that is not.
JobsAreTracked == J!NoLostRecord /\ J!TerminalIsReal

\* A watch notifies once whatever daemons die and take over, and no watch for
\* the end of jobs fires while one of their tasks lives.
WatchesAreHonest == W!ToldOnce /\ W!FinishIsTrue

\* A daemon that serves is the one its socket leads to, unless a client has
\* removed that socket.
DaemonReachable == D!Reachable

\* A run is reported as vanished only if it was killed, and waiting for a line of
\* its log misses no line that was there.
RunsAreToldTruly == R!GoneIsKilled /\ R!NoMissedLine

\* Whoever follows the journal by its cursors sees every event of its scope, or
\* is told to start again.
FollowersMissNothing == A!FollowerSeesAll

\* Readers see a file as some writer left it, and a listing in pages names what
\* was there all the time.
FilesAreWhole == F!WholeVersions /\ F!ListedWhole

\* A recovery that calls itself complete has imported all of the campaign's
\* ledger and commits it set out with.
RecoveryIsWhole == C!RecoveryIsWhole

\* Views, and answers about files, are no older than they say, and a view ends a
\* job only when it ended.
WorkspaceIsHonest == S!FreshIsRecent /\ S!EndIsReal /\ S!AnsweredFromAfter

\* Discovery never shows a job as running past its end, finds every end that
\* accounting tells in time, and tells it once.
DiscoveryIsHonest == H!RunningIsRecent /\ H!EndIsReal /\ H!EndIsFound /\ H!EndIsToldOnce
==============================================================================
