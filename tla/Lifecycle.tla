------------------------------- MODULE Lifecycle -------------------------------
(***************************************************************************)
(* How daemons of one data directory come and go: the commands that spawn,   *)
(* stop, repair and restart one (memlayer-cli: autospawn.rs, cmd_daemon.rs,   *)
(* cmd_hook.rs) and the daemon's own start and shutdown (memlayer-daemon:     *)
(* server.rs, lifecycle.rs, signals.rs). They share three files: the socket,  *)
(* the pid file, and daemon.lock, on which commands take an flock while they  *)
(* spawn and a daemon takes one for life. The kernel frees the flock of a     *)
(* process that ends; socket and pid file stay.                               *)
(*                                                                          *)
(* Every command spawns at most one daemon, which goes by the command's name. *)
(* Unix sockets only: a TCP daemon has no socket file. Timers (the 5 s budget *)
(* of the poll and of the wait for the socket to vanish, the probe's 500 ms)  *)
(* may run out at any time.                                                   *)
(* An operator whose comment starts with "Mutant" is a slip the properties    *)
(* must catch; no action uses it.                                             *)
(***************************************************************************)
EXTENDS Naturals

CONSTANTS
    Commands,   \* running CLI processes
    Services,   \* daemons started in the foreground by a user or a service manager
    NoOne,
    MaxCrashes  \* bound on daemons killed, for model checking

Verbs == {"open", "start", "stop", "restart", "force", "hook"}

ASSUME LifecycleAssumption ==
    /\ Commands \cap Services = {} /\ NoOne \notin Commands \cup Services
    /\ NoOne \notin ({"cli"} \X Commands) \cup ({"daemon"} \X (Commands \cup Services))
    /\ MaxCrashes \in Nat

Daemons == Commands \cup Services

VARIABLES
    verb,     \* what each command does
    cli,      \* where each command is
    daemon,   \* where each daemon is
    holder,   \* who holds the flock on daemon.lock: <<"cli" or "daemon", process>>
    sock,     \* the daemon that bound the socket file, if there is one
    pid,      \* the daemon named by the pid file, if there is one
    crashes

lifecycleVars == <<verb, cli, daemon, holder, sock, pid, crashes>>

Ended == {"connected", "already", "stopped", "refused", "timeout"}
Alive == {"starting", "locked", "booting", "serving", "draining", "closed",
          "unlinked", "exiting"}

LifecycleTypeOK ==
    /\ verb \in [Commands -> Verbs]
    /\ cli \in [Commands -> {"idle", "start", "remove", "ensure", "vanish", "locking", "checking",
                             "spawned", "polling"} \cup Ended]
    /\ daemon \in [Daemons -> Alive \cup {"unborn", "dead"}]
    /\ holder \in {NoOne} \cup ({"cli"} \X Commands) \cup ({"daemon"} \X Daemons)
    /\ sock \in Daemons \cup {NoOne}
    /\ pid \in Daemons \cup {NoOne}
    /\ crashes \in 0..MaxCrashes
    /\ \A c \in Commands : cli[c] \in {"checking", "spawned"} => holder = <<"cli", c>>

LifecycleInit ==
    /\ verb \in [Commands -> Verbs]
    /\ cli = [c \in Commands |-> "idle"]
    /\ daemon = [d \in Daemons |-> "unborn"]
    /\ holder = NoOne /\ sock = NoOne /\ pid = NoOne
    /\ crashes = 0

shared == <<holder, sock, pid>>

------------------------------------------------------------------------------
\* Commands.

At(c, place) == cli' = [cli EXCEPT ![c] = place]

\* A daemon answers RPCs until its listener is closed, also while it drains.
Answers == sock # NoOne /\ daemon[sock] \in {"serving", "draining"}

\* ensure_running: a socket file is taken for a running daemon.
EnsureRunning(c) == At(c, IF sock # NoOne THEN "connected" ELSE "locking")

\* open_client of every ordinary verb, and the hook after its probe.
Open(c) ==
    /\ cli[c] = "ensure" \/ (cli[c] = "idle" /\ verb[c] = "open")
    /\ EnsureRunning(c)
    /\ UNCHANGED <<verb, daemon, shared, crashes>>

\* daemon start; also the second half of restart and force-start.
StartCommand(c) ==
    /\ cli[c] = "start" \/ (cli[c] = "idle" /\ verb[c] = "start")
    /\ At(c, IF sock # NoOne THEN "already" ELSE "locking")
    /\ UNCHANGED <<verb, daemon, shared, crashes>>

\* daemon stop and daemon restart send the Shutdown RPC when there is a socket.
Shutdown(c) ==
    /\ cli[c] = "idle" /\ verb[c] \in {"stop", "restart"}
    /\ IF sock = NoOne
       THEN /\ At(c, IF verb[c] = "stop" THEN "already" ELSE "start")
            /\ UNCHANGED daemon
       ELSE \/ /\ Answers
               /\ daemon' = [daemon EXCEPT ![sock] = "draining"]
               /\ At(c, "vanish")
            \/ /\ ~Answers
               /\ At(c, "refused")
               /\ UNCHANGED daemon
    /\ UNCHANGED <<verb, shared, crashes>>

\* wait_for_socket_to_vanish: gone, or five seconds over.
Vanish(c) ==
    /\ cli[c] = "vanish"
    /\ At(c, IF verb[c] = "stop" THEN "stopped" ELSE "start")
    /\ UNCHANGED <<verb, daemon, shared, crashes>>

\* The session-start hook probes the daemon; the probe of a slow one times out.
Probe(c) ==
    /\ cli[c] = "idle" /\ verb[c] = "hook"
    /\ \/ Answers /\ At(c, "connected")
       \/ sock # NoOne /\ At(c, "remove")
       \/ sock = NoOne /\ At(c, "ensure")
    /\ UNCHANGED <<verb, daemon, shared, crashes>>

ForceStart(c) ==
    /\ cli[c] = "idle" /\ verb[c] = "force"
    /\ At(c, IF sock # NoOne THEN "remove" ELSE "start")
    /\ UNCHANGED <<verb, daemon, shared, crashes>>

\* force_start and the hook remove a socket file they think stale; the hook goes on
\* when that fails, as it does when the file has gone since.
RemoveSocket(c) ==
    /\ cli[c] = "remove"
    /\ \/ /\ sock # NoOne \/ verb[c] = "hook"
          /\ sock' = NoOne
          /\ At(c, IF verb[c] = "force" THEN "start" ELSE "ensure")
       \/ /\ At(c, IF verb[c] = "force" THEN "refused" ELSE "ensure")
          /\ UNCHANGED sock
    /\ UNCHANGED <<verb, daemon, holder, pid, crashes>>

\* lock_exclusive blocks while anyone else holds the lock, a running daemon included.
LockSpawn(c) ==
    /\ cli[c] = "locking" /\ holder = NoOne
    /\ holder' = <<"cli", c>>
    /\ At(c, "checking")
    /\ UNCHANGED <<verb, daemon, sock, pid, crashes>>

\* The second look at the socket, and spawn_detached, which may fail: then the lock is
\* given back with the file handle.
Recheck(c) ==
    /\ cli[c] = "checking"
    /\ \/ sock # NoOne /\ holder' = NoOne /\ At(c, "connected") /\ UNCHANGED daemon
       \/ /\ sock = NoOne
          /\ daemon' = [daemon EXCEPT ![c] = "starting"]
          /\ At(c, "spawned")
          /\ UNCHANGED holder
       \/ sock = NoOne /\ holder' = NoOne /\ At(c, "refused") /\ UNCHANGED daemon
    /\ UNCHANGED <<verb, sock, pid, crashes>>

Unlock(c) ==
    /\ cli[c] = "spawned"
    /\ holder' = NoOne
    /\ At(c, "polling")
    /\ UNCHANGED <<verb, daemon, sock, pid, crashes>>

\* Mutant: the poll has no deadline.
PollForever(c) ==
    /\ cli[c] = "polling" /\ sock # NoOne
    /\ At(c, "connected")
    /\ UNCHANGED <<verb, daemon, shared, crashes>>

\* poll_socket, within its budget or not.
Poll(c) ==
    /\ cli[c] = "polling"
    /\ At(c, IF sock # NoOne THEN "connected" ELSE "timeout")
    /\ UNCHANGED <<verb, daemon, shared, crashes>>

------------------------------------------------------------------------------
\* Daemons.

Goes(d, place) == daemon' = [daemon EXCEPT ![d] = place]

\* Somebody runs daemon start --foreground.
StartService(d) ==
    /\ d \in Services /\ daemon[d] = "unborn"
    /\ Goes(d, "starting")
    /\ UNCHANGED <<verb, cli, shared, crashes>>

\* Mutant: a daemon that finds the lock taken goes on.
TryLockIgnored(d) ==
    /\ daemon[d] = "starting"
    /\ holder' = <<"daemon", d>> /\ Goes(d, "locked")
    /\ UNCHANGED <<verb, cli, sock, pid, crashes>>

\* acquire_lock_and_pid does not wait: a daemon that finds the lock taken exits.
TryLock(d) ==
    /\ daemon[d] = "starting"
    /\ IF holder = NoOne
       THEN holder' = <<"daemon", d>> /\ Goes(d, "locked")
       ELSE Goes(d, "dead") /\ UNCHANGED holder
    /\ UNCHANGED <<verb, cli, sock, pid, crashes>>

WritePid(d) ==
    /\ daemon[d] = "locked"
    /\ pid' = d /\ Goes(d, "booting")
    /\ UNCHANGED <<verb, cli, holder, sock, crashes>>

\* check_embed_model_on_disk or TokenStore::open fails: no LifecycleGuard exists yet,
\* the pid file stays.
BootFails(d) ==
    /\ daemon[d] = "booting"
    /\ holder' = NoOne /\ Goes(d, "dead")
    /\ UNCHANGED <<verb, cli, sock, pid, crashes>>

\* unlink_stale_socket and bind.
Bind(d) ==
    /\ daemon[d] = "booting"
    /\ sock' = d /\ Goes(d, "serving")
    /\ UNCHANGED <<verb, cli, holder, pid, crashes>>

\* bind or chmod fails after the stale socket is gone: the guard still cleans up.
BindFails(d) ==
    /\ daemon[d] = "booting"
    /\ sock' = NoOne /\ Goes(d, "closed")
    /\ UNCHANGED <<verb, cli, holder, pid, crashes>>

\* SIGTERM or SIGINT. One that comes earlier takes effect after the bind.
Term(d) ==
    /\ daemon[d] = "serving"
    /\ Goes(d, "draining")
    /\ UNCHANGED <<verb, cli, shared, crashes>>

\* Five seconds later the server stops, and run drops its LifecycleGuard.
Close(d) ==
    /\ daemon[d] = "draining"
    /\ Goes(d, "closed")
    /\ UNCHANGED <<verb, cli, shared, crashes>>

\* Mutant: the guard gives the lock back before it removes the files.
UnlinkSocketUnlocked(d) ==
    \/ /\ daemon[d] = "closed" /\ holder = <<"daemon", d>>
       /\ holder' = NoOne
       /\ UNCHANGED <<verb, cli, daemon, sock, pid, crashes>>
    \/ /\ daemon[d] = "closed" /\ holder # <<"daemon", d>>
       /\ sock' = NoOne /\ Goes(d, "unlinked")
       /\ UNCHANGED <<verb, cli, holder, pid, crashes>>

UnlinkSocket(d) ==
    /\ daemon[d] = "closed"
    /\ sock' = NoOne /\ Goes(d, "unlinked")
    /\ UNCHANGED <<verb, cli, holder, pid, crashes>>

UnlinkPid(d) ==
    /\ daemon[d] = "unlinked"
    /\ pid' = NoOne /\ Goes(d, "exiting")
    /\ UNCHANGED <<verb, cli, holder, sock, crashes>>

ExitDaemon(d) ==
    /\ daemon[d] = "exiting"
    /\ holder' = NoOne /\ Goes(d, "dead")
    /\ UNCHANGED <<verb, cli, sock, pid, crashes>>

\* SIGKILL, a panic (panic = "abort"), a power cut.
Crash(d) ==
    /\ daemon[d] \in Alive /\ crashes < MaxCrashes
    /\ Goes(d, "dead")
    /\ holder' = IF holder = <<"daemon", d>> THEN NoOne ELSE holder
    /\ crashes' = crashes + 1
    /\ UNCHANGED <<verb, cli, sock, pid>>

CommandStep(c) ==
    \/ Open(c) \/ StartCommand(c) \/ Shutdown(c) \/ Vanish(c) \/ Probe(c) \/ ForceStart(c)
    \/ RemoveSocket(c) \/ LockSpawn(c) \/ Recheck(c) \/ Unlock(c) \/ Poll(c)

DaemonStep(d) ==
    \/ TryLock(d) \/ WritePid(d) \/ BootFails(d) \/ Bind(d) \/ BindFails(d)
    \/ Close(d) \/ UnlinkSocket(d) \/ UnlinkPid(d) \/ ExitDaemon(d)

LifecycleNext ==
    \/ \E c \in Commands : CommandStep(c)
    \/ \E d \in Daemons : DaemonStep(d) \/ StartService(d) \/ Term(d) \/ Crash(d)

\* Processes run, and flock is fair: a waiter gets a lock that keeps coming free.
\* Nobody is obliged to start, stop or kill a daemon.
LifecycleSpec ==
    /\ LifecycleInit /\ [][LifecycleNext]_lifecycleVars
    /\ \A c \in Commands : WF_lifecycleVars(CommandStep(c)) /\ SF_lifecycleVars(LockSpawn(c))
    /\ \A d \in Daemons : WF_lifecycleVars(DaemonStep(d))

------------------------------------------------------------------------------
\* Properties.

Owning == {"locked", "booting", "serving", "draining", "closed", "unlinked", "exiting"}

\* At most one daemon of a data directory is past its start and before its exit, and
\* only commands that are spawning stand beside it: two daemons would write one
\* database each through a thread of their own.
SingleDaemon ==
    \A d \in Daemons : daemon[d] \in Owning => holder = <<"daemon", d>>

\* What daemon stop signals is the daemon that serves.
PidNamesServer ==
    \A d \in Daemons : daemon[d] \in {"booting", "serving", "draining", "closed", "unlinked"}
                       => pid = d

\* A daemon loses its socket while it serves only to a command that takes it for
\* stale, never to a predecessor's cleanup or to a successor.
ServerKeepsSocket ==
    [][\A d \in Daemons :
          daemon[d] = "serving" /\ sock = d /\ sock' # d =>
              \E c \in Commands : cli[c] = "remove" /\ cli'[c] # "remove"]_lifecycleVars

\* A command returns, whatever happens to the daemon it waits for, or it waits for
\* the lock of a living daemon.
CommandReturns ==
    \A c \in Commands :
        cli[c] # "idle" ~> \/ cli[c] \in Ended
                           \/ cli[c] = "locking" /\ holder \in {"daemon"} \X Daemons

=============================================================================
