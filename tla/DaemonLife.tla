----------------------------- MODULE DaemonLife -----------------------------
(***************************************************************************)
(* The local broker (src/remoteslurm/daemon.py).  Clients find a daemon by *)
(* the path of its socket, spawn one when nobody answers there, and send   *)
(* their calls to whoever listens.  A daemon holds a flock for life; it    *)
(* makes the socket after taking it and removes the socket before giving   *)
(* it back.  A client removes the socket too, once it gets no answer.      *)
(***************************************************************************)
EXTENDS Naturals, FiniteSets

CONSTANTS Clients, Daemons,  \* processes; a daemon's slot is used again
          Nobody

VARIABLES socket,   \* the daemon that made the socket file, if there is one
          owner,    \* the holder of the flock beside it
          daemon,   \* the daemons: where each is in its life
          client,   \* the clients
          running,  \* the daemon that runs each client's operation
          orphans   \* history: daemons whose socket a client removed

daemonVars == <<socket, owner, daemon, client, running, orphans>>

Idle == [pc |-> "idle", asked |-> Nobody]

DaemonInit ==
  /\ socket \in {Nobody} \union Daemons  \* none, or that of a daemon long dead
  /\ owner = Nobody
  /\ daemon = [d \in Daemons |-> "off"]
  /\ client = [c \in Clients |-> Idle]
  /\ running = [c \in Clients |-> Nobody]
  /\ orphans = {}

Serves(d) == d \in Daemons /\ daemon[d] = "serving"

------------------------------------------------------------------------------
(* A daemon's life *)

Enters(d, phase) == daemon' = [daemon EXCEPT ![d] = phase]

\* The loser of a race to spawn finds the flock taken, and exits.
TakeLock(d) ==
  /\ daemon[d] = "spawned"
  /\ IF owner = Nobody THEN owner' = d /\ Enters(d, "locked")
     ELSE Enters(d, "off") /\ UNCHANGED owner
  /\ UNCHANGED <<socket, client, running, orphans>>

\* What lies at the path is removed unseen; it can only be a dead one's.
RemoveOld(d) ==
  /\ daemon[d] = "locked"
  /\ socket' = Nobody
  /\ Enters(d, "clear")
  /\ UNCHANGED <<owner, client, running, orphans>>

Bind(d) ==
  /\ daemon[d] = "clear"
  /\ socket' = d
  /\ Enters(d, "serving")
  /\ orphans' = orphans \ {d}
  /\ UNCHANGED <<owner, client, running>>

\* Four idle hours without a watch, or a request to stop.  The hours count from
\* the last request received: an operation or stream under way does not count.
Closes(d) ==
  /\ Serves(d)
  /\ Enters(d, "exit 1")
  /\ UNCHANGED <<socket, owner, client, running, orphans>>

\* A bug: the flock is given back first.
LockFirst == <<"unlock", "unlink">>

ExitSteps == <<"unlink", "unlock">>

\* Sessions are closed, and with them their operations; then the path is
\* unlinked, whatever is there, and the flock released.
Exits(d, n) ==
  /\ daemon[d] = IF n = 1 THEN "exit 1" ELSE "exit 2"
  /\ running' = [c \in Clients |-> IF running[c] = d THEN Nobody ELSE running[c]]
  /\ socket' = IF ExitSteps[n] = "unlink" THEN Nobody ELSE socket
  /\ orphans' = IF ExitSteps[n] = "unlink" THEN orphans \ {d} ELSE orphans
  /\ owner' = IF ExitSteps[n] = "unlock" /\ owner = d THEN Nobody ELSE owner
  /\ Enters(d, IF n = 1 THEN "exit 2" ELSE "off")
  /\ UNCHANGED client

\* The kernel closes what the process held; the socket file stays.
Killed(d) ==
  /\ daemon[d] # "off"
  /\ Enters(d, "off")
  /\ owner' = IF owner = d THEN Nobody ELSE owner
  /\ running' = [c \in Clients |-> IF running[c] = d THEN Nobody ELSE running[c]]
  /\ orphans' = orphans \ {d}
  /\ UNCHANGED <<socket, client>>

------------------------------------------------------------------------------
(* Clients *)

Goes(c, pc) == client' = [client EXCEPT ![c] = [pc |-> pc, asked |-> Nobody]]

\* daemon_available, and spawn_daemon's polling: somebody at the path is asked.
Probe(c, from, to) ==
  /\ client[c].pc = from
  /\ socket # Nobody
  /\ client' = [client EXCEPT ![c] = [pc |-> to, asked |-> socket]]
  /\ UNCHANGED <<socket, owner, daemon, running, orphans>>

Hears(c, from) ==
  /\ client[c].pc = from
  /\ Serves(client[c].asked)
  /\ Goes(c, "ready")
  /\ UNCHANGED <<socket, owner, daemon, running, orphans>>

\* Refused, closed, or no answer within the timeout, which a live daemon that
\* is slow to read its configuration, or just now starts, may cause as well.
HearsNothing(c) ==
  /\ client[c].pc = "probing"
  /\ Goes(c, "unlink")
  /\ UNCHANGED <<socket, owner, daemon, running, orphans>>

\* The path is unlinked then, though another daemon may be there by now.
UnlinkStale(c) ==
  /\ client[c].pc = "unlink"
  /\ orphans' = IF Serves(socket) THEN orphans \union {socket} ELSE orphans
  /\ socket' = Nobody
  /\ Goes(c, "spawn")
  /\ UNCHANGED <<owner, daemon, running>>

FindsNone(c) ==
  /\ client[c].pc = "idle"
  /\ socket = Nobody
  /\ Goes(c, "spawn")
  /\ UNCHANGED <<socket, owner, daemon, running, orphans>>

spawn_daemon(c, d) ==
  /\ client[c].pc = "spawn"
  /\ daemon[d] = "off"
  /\ socket # d /\ \A k \in Clients : client[k].asked # d  \* a new process, not the old one
  /\ Enters(d, "spawned")
  /\ Goes(c, "waiting")
  /\ UNCHANGED <<socket, owner, running, orphans>>

\* Asked in vain, the new daemon is asked again; after eight seconds the client
\* goes without one.
NotYet(c) ==
  /\ client[c].pc = "polling"
  /\ Goes(c, "waiting")
  /\ UNCHANGED <<socket, owner, daemon, running, orphans>>

GoesWithout(c) ==
  /\ client[c].pc = "waiting"
  /\ Goes(c, "idle")
  /\ UNCHANGED <<socket, owner, daemon, running, orphans>>

\* A call or stream, through whoever is at the path by now.  A daemon of another
\* build or configuration is refused before that.
call(c) ==
  /\ client[c].pc = "ready"
  /\ IF Serves(socket)
       THEN /\ running' = [running EXCEPT ![c] = socket]
            /\ client' = [client EXCEPT ![c] = [pc |-> "called", asked |-> socket]]
       ELSE Goes(c, "idle") /\ UNCHANGED running
  /\ UNCHANGED <<socket, owner, daemon, orphans>>

Refused(c) ==
  /\ client[c].pc = "ready"
  /\ Goes(c, "idle")
  /\ UNCHANGED <<socket, owner, daemon, running, orphans>>

\* The reply or last frame; a daemon that dies closes the connection.
Answer(c) ==
  /\ client[c].pc = "called"
  /\ running' = [running EXCEPT ![c] = Nobody]
  /\ Goes(c, "idle")
  /\ UNCHANGED <<socket, owner, daemon, orphans>>

\* A timeout, an interrupt, or a stream left early.
GivesUp(c) ==
  /\ client[c].pc = "called"
  /\ Goes(c, "cancel")
  /\ UNCHANGED <<socket, owner, daemon, running, orphans>>

\* On a second connection, and through whoever is at the path by now; nothing
\* tells the client that it was the wrong one, or that the first was orphaned.
cancel(c) ==
  /\ client[c].pc = "cancel"
  /\ running' = IF Serves(socket) /\ running[c] = socket THEN [running EXCEPT ![c] = Nobody] ELSE running
  /\ Goes(c, "idle")
  /\ UNCHANGED <<socket, owner, daemon, orphans>>

\* An operation nobody waits for runs to its end.
Completes(c) ==
  /\ client[c].pc # "called"
  /\ running[c] # Nobody
  /\ running' = [running EXCEPT ![c] = Nobody]
  /\ UNCHANGED <<socket, owner, daemon, client, orphans>>

DaemonNext ==
  \/ \E d \in Daemons : \/ TakeLock(d) \/ RemoveOld(d) \/ Bind(d) \/ Closes(d) \/ Killed(d)
                        \/ \E n \in {1, 2} : Exits(d, n)
  \/ \E c \in Clients :
       \/ Probe(c, "idle", "probing") \/ Hears(c, "probing") \/ HearsNothing(c) \/ UnlinkStale(c)
       \/ FindsNone(c) \/ (\E d \in Daemons : spawn_daemon(c, d))
       \/ Probe(c, "waiting", "polling") \/ Hears(c, "polling") \/ NotYet(c) \/ GoesWithout(c)
       \/ call(c) \/ Refused(c) \/ Answer(c) \/ GivesUp(c) \/ cancel(c) \/ Completes(c)

------------------------------------------------------------------------------
(* Properties *)

\* Two daemons never serve at once, and the one that serves is found at the
\* path, unless a client that got no answer removed its socket: neither a
\* starting nor an exiting daemon takes another's away.
Reachable ==
  \A d \in Daemons : daemon[d] = "serving" => owner = d /\ (socket = d \/ d \in orphans)
==============================================================================
