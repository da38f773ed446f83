------------------------------ MODULE Sessions ------------------------------
(***************************************************************************)
(* The files one session name owns (src/session.rs): a registry file that   *)
(* records a daemon by its PID and its birth time, and the socket file of   *)
(* its IPC endpoint.  Daemons start (prepare_endpoint(), the bind,          *)
(* write_registry()) and end (headless.rs serve(), main.rs TemporaryFiles,  *)
(* RegistryGuard), or die and leave their files; `vivido` commands list and *)
(* terminate sessions and reap what a dead daemon left.  All of them are    *)
(* processes of their own: each read, unlink, rename, connect and signal is *)
(* one step.  A daemon's life stands for its PID with its birth time and    *)
(* its nonce, so same_instance() is equality; the operating system hands    *)
(* the PID of a dead process to another one.  A record names the protocol   *)
(* version of the program and the endpoint it was started with (--socket),  *)
(* and is an error to who reads it with another.                            *)
(***************************************************************************)
EXTENDS Naturals

CONSTANTS
  Lives,    \* lives of daemons started under the name
  Clients,  \* `vivido list`, `vivido kill` and `vivido msg` processes
  Pids,     \* process IDs
  Paths,    \* socket files: of the session's name, or asked for
  Launches,  \* [Processes -> [build, path]]: what each process is and was started with
  Other,    \* a process that is no daemon of this session
  NoLife    \* the absence of one

VARIABLES
  registry,   \* the life the registry file records, or NoLife
  socket,     \* the life that bound each socket file, or NoLife
  holder,     \* the process each PID names now
  daemon,     \* [Lives -> [pid, headless, at]]
  client,     \* [Clients -> [at, read, pidfd]]
  rm,         \* where each process is in remove_instance(), and what it expects
  launched,     \* one of Launches
  signalled,  \* [read, got] of the last SIGTERM sent
  overlapped  \* two processes were at once starting, ending or reaping under the name

vars == <<registry, socket, holder, daemon, client, rm, launched, signalled, overlapped>>

Processes == Lives \cup Clients
NoSignal  == [read |-> NoLife, got |-> NoLife]

Init ==
  /\ registry = NoLife /\ socket = [p \in Paths |-> NoLife]
  /\ launched \in Launches
  /\ holder = [p \in Pids |-> NoLife]
  /\ daemon \in [Lives -> {[pid |-> 0, headless |-> h, at |-> "unborn"] : h \in BOOLEAN}]
  /\ client = [c \in Clients |-> [at |-> "idle", read |-> NoLife, pidfd |-> NoLife]]
  /\ rm = [a \in Processes |-> [at |-> "idle", expected |-> NoLife]]
  /\ signalled = NoSignal
  /\ overlapped = FALSE

(***************************************************************************)
(* Helpers.                                                                *)
(***************************************************************************)
\* Mutant: only the PID is compared.
registry_process_matches_mut(l) == holder[daemon[l].pid] # NoLife

\* The process the recorded PID names was born when the record says: a life never returns.
registry_process_matches(l) == holder[daemon[l].pid] = l

Live(l) == daemon[l].at \notin {"unborn", "gone", "refused", "stuck", "barred"}

\* The socket file of a daemon, the life that bound it, and its removal.
Path(l) == launched[l].path
Bound(l) == socket[Path(l)]
Unlinked(l) == socket' = [socket EXCEPT ![Path(l)] = NoLife]

\* read_registry(): process a, for endpoint path, decodes record l and finds it its own.
SameBuild(a, l) == launched[a].build = launched[l].build
validate_identity(a, l, path) == SameBuild(a, l) /\ Path(l) = path

\* Process a is between two steps of a start, of its end or of remove_instance().
Busy(a) == rm[a].at # "idle" \/ (a \in Lives /\ Live(a) /\ daemon[a].at # "running")

NoteOverlap ==
  overlapped' = (overlapped \/ \E a, b \in Processes : a # b /\ Busy(a)' /\ Busy(b)')

\* A connect() to the socket file finds a listener.
Answers(l) == Live(l) /\ daemon[l].at \in {"bound", "running", "files", "guard"}

\* Process l is over and its PID is free.
Leaves(l, at) ==
  /\ daemon' = [daemon EXCEPT ![l].at = at]
  /\ holder' = [holder EXCEPT ![daemon[l].pid] = NoLife]

EndLife(l) == Leaves(l, "gone")

\* A start that fails, with another daemon of the name about or with none.
Refuse(l) == Leaves(l, IF \E m \in Lives \ {l} : Live(m) THEN "refused" ELSE "stuck")

Goes(l, at) == daemon' = [daemon EXCEPT ![l].at = at] /\ holder' = holder

(***************************************************************************)
(* remove_instance(): read, compare, read again, unlink the socket, read    *)
(* again, unlink the registry.  RmDone is what its caller does next.        *)
(***************************************************************************)
remove_instance(a, l) == rm' = [rm EXCEPT ![a] = [at |-> "first", expected |-> l]]

RmDone(a, failed) ==
  /\ rm' = [rm EXCEPT ![a] = [at |-> "idle", expected |-> NoLife]]
  /\ \/ /\ a \in Clients
        /\ client' = [client EXCEPT ![a] = [at |-> "idle", read |-> NoLife, pidfd |-> NoLife]]
        /\ UNCHANGED <<daemon, holder>>
     \/ /\ a \in Lives
        /\ CASE daemon[a].at = "prepare" /\ failed  -> Refuse(a)
             [] daemon[a].at = "prepare" /\ ~failed -> Goes(a, "bind")
             [] daemon[a].at = "guard" /\ daemon[a].headless  -> EndLife(a)
             [] daemon[a].at = "guard" /\ ~daemon[a].headless -> Goes(a, "files")
        /\ UNCHANGED client

\* The three reads; what was read is acted on in a later step.  An error, which a file that is
\* gone is not, fails the first and only ends the others.
RmRead(a) ==
  /\ rm[a].at \in {"first", "second", "third"}
  /\ IF registry = rm[a].expected
     THEN /\ rm' = [rm EXCEPT ![a].at = CASE rm[a].at = "first"  -> "second"
                                          [] rm[a].at = "second" -> "socket"
                                          [] rm[a].at = "third"  -> "registry"]
          /\ UNCHANGED <<daemon, holder, client>>
     ELSE RmDone(a, /\ rm[a].at = "first" /\ registry # NoLife
                    /\ ~validate_identity(a, registry, Path(rm[a].expected)))
  /\ UNCHANGED <<registry, socket, signalled>>
  /\ NoteOverlap

RmSocket(a) ==
  /\ rm[a].at = "socket"
  /\ Unlinked(rm[a].expected)
  /\ rm' = [rm EXCEPT ![a].at = "third"]
  /\ UNCHANGED <<registry, holder, daemon, client, signalled>>
  /\ NoteOverlap

\* remove_file() of a registry that is gone already is an error here.
RmRegistry(a) ==
  /\ rm[a].at = "registry"
  /\ registry' = NoLife
  /\ RmDone(a, registry = NoLife)
  /\ UNCHANGED <<socket, signalled>>
  /\ NoteOverlap

(***************************************************************************)
(* A daemon starts.                                                        *)
(***************************************************************************)
\* fork and exec: the operating system gives the process a PID nobody holds.
Birth(l) ==
  /\ daemon[l].at = "unborn"
  /\ \E p \in Pids :
       /\ holder[p] = NoLife
       /\ holder' = [holder EXCEPT ![p] = l]
       /\ daemon' = [daemon EXCEPT ![l] = [@ EXCEPT !.pid = p, !.at = "prepare"]]
  /\ UNCHANGED <<registry, socket, client, rm, signalled>>
  /\ NoteOverlap

\* A record that cannot be validated is an error, whatever became of its process.
prepare_endpoint(l) ==
  /\ daemon[l].at = "prepare" /\ rm[l].at = "idle"
  /\ \/ /\ registry # NoLife /\ ~validate_identity(l, registry, Path(l))
        /\ Leaves(l, "barred") /\ UNCHANGED rm
     \/ /\ registry # NoLife /\ validate_identity(l, registry, Path(l))
        /\ registry_process_matches(registry)
        /\ Refuse(l) /\ UNCHANGED rm
     \/ /\ registry # NoLife /\ validate_identity(l, registry, Path(l))
        /\ ~registry_process_matches(registry)
        /\ remove_instance(l, registry)
        /\ UNCHANGED <<daemon, holder>>
     \/ /\ registry = NoLife
        /\ Goes(l, "probe") /\ UNCHANGED rm
  /\ UNCHANGED <<registry, socket, client, signalled>>
  /\ NoteOverlap

\* No registry: does the socket file exist, and does anyone answer a connect()?
Probe(l) ==
  /\ daemon[l].at = "probe"
  /\ CASE Bound(l) = NoLife -> Goes(l, "bind")
       [] Bound(l) # NoLife /\ Answers(Bound(l))  -> Refuse(l)
       [] Bound(l) # NoLife /\ ~Answers(Bound(l)) -> Goes(l, "unlink")
  /\ UNCHANGED <<registry, socket, client, rm, signalled>>
  /\ NoteOverlap

\* Nobody answered: the file found by its name is removed.
Unlink(l) ==
  /\ daemon[l].at = "unlink"
  /\ Unlinked(l)
  /\ Goes(l, "bind")
  /\ UNCHANGED <<registry, client, rm, signalled>>
  /\ NoteOverlap

\* LocalListener::bind(): a file of that name, whoever's it is, makes it fail.
bind(l) ==
  /\ daemon[l].at = "bind"
  /\ \/ /\ Bound(l) # NoLife
        /\ Refuse(l) /\ UNCHANGED socket
     \/ /\ Bound(l) = NoLife
        /\ socket' = [socket EXCEPT ![Path(l)] = l]
        /\ Goes(l, "bound")
  /\ UNCHANGED <<registry, client, rm, signalled>>
  /\ NoteOverlap

\* write_registry_file(): a staging file renamed over whatever is there.
write_registry(l) ==
  /\ daemon[l].at = "bound"
  /\ registry' = l
  /\ Goes(l, "running")
  /\ UNCHANGED <<socket, client, rm, signalled>>
  /\ NoteOverlap

(***************************************************************************)
(* A daemon ends.  A headless one unlinks the socket path and drops its     *)
(* guard; a headed one drops its guard and then its TemporaryFiles, which   *)
(* unlinks the socket path a second time.                                   *)
(***************************************************************************)
EndHeadless(l) ==
  /\ daemon[l].at = "running" /\ daemon[l].headless
  /\ Unlinked(l)
  /\ Goes(l, "guard") /\ remove_instance(l, l)
  /\ UNCHANGED <<registry, client, signalled>>
  /\ NoteOverlap

EndHeaded(l) ==
  /\ daemon[l].at = "running" /\ ~daemon[l].headless
  /\ Goes(l, "guard") /\ remove_instance(l, l)
  /\ UNCHANGED <<registry, socket, client, signalled>>
  /\ NoteOverlap

\* TemporaryFiles::drop(), at the end or when the registry could not be written: an unlink with
\* no look at whose the file is.
TemporaryFiles(l) ==
  /\ daemon[l].at = "files" \/ (daemon[l].at = "bound" /\ ~daemon[l].headless)
  /\ Unlinked(l)
  /\ EndLife(l)
  /\ UNCHANGED <<registry, client, rm, signalled>>
  /\ NoteOverlap

\* A crash, a SIGKILL, or an error between the bind and the registry: the files stay.
Crash(l) ==
  /\ Live(l)
  /\ EndLife(l)
  /\ rm' = [rm EXCEPT ![l] = [at |-> "idle", expected |-> NoLife]]
  /\ UNCHANGED <<registry, socket, client, signalled>>
  /\ NoteOverlap

\* The operating system gives a free PID to a process of another program, which ends.
Recycle(p) ==
  /\ \/ holder[p] = NoLife /\ holder' = [holder EXCEPT ![p] = Other]
     \/ holder[p] = Other  /\ holder' = [holder EXCEPT ![p] = NoLife]
  /\ UNCHANGED <<registry, socket, daemon, client, rm, signalled>>
  /\ NoteOverlap

(***************************************************************************)
(* The clients.                                                            *)
(***************************************************************************)
\* list_registries(), or the lookup terminate_session() starts with: both take the endpoint from
\* the record, and leave one they cannot decode alone.
ReadRegistry(c) ==
  /\ client[c].at = "idle" /\ rm[c].at = "idle" /\ registry # NoLife /\ SameBuild(c, registry)
  /\ client' = [client EXCEPT ![c] = [@ EXCEPT !.at = "read", !.read = registry]]
  /\ UNCHANGED <<registry, socket, holder, daemon, rm, signalled>>
  /\ NoteOverlap

\* A record whose process is gone is reaped; a live one is listed, or terminated if headless.
registered_instance(c) ==
  /\ client[c].at = "read"
  /\ \/ /\ ~registry_process_matches(client[c].read)
        /\ client' = [client EXCEPT ![c].at = "reaping"]
        /\ remove_instance(c, client[c].read)
     \/ /\ registry_process_matches(client[c].read)
        /\ client' = [client EXCEPT ![c].at = IF daemon[client[c].read].headless THEN "open"
                                                                              ELSE "idle"]
        /\ UNCHANGED rm
  /\ UNCHANGED <<registry, socket, holder, daemon, signalled>>
  /\ NoteOverlap

\* signal_session(): the pidfd pins whatever process holds the PID now.
OpenPidfd(c) ==
  /\ client[c].at = "open"
  /\ LET held == holder[daemon[client[c].read].pid] IN
       \/ /\ held = NoLife
          /\ client' = [client EXCEPT ![c].at = "reaping"]
          /\ remove_instance(c, client[c].read)
       \/ /\ held # NoLife
          /\ client' = [client EXCEPT ![c] = [@ EXCEPT !.at = "pinned", !.pidfd = held]]
          /\ UNCHANGED rm
  /\ UNCHANGED <<registry, socket, holder, daemon, signalled>>
  /\ NoteOverlap

\* The birth time is read again with the process pinned.
Recheck(c) ==
  /\ client[c].at = "pinned"
  /\ \/ /\ ~registry_process_matches(client[c].read)
        /\ client' = [client EXCEPT ![c].at = "reaping"]
        /\ remove_instance(c, client[c].read)
     \/ /\ registry_process_matches(client[c].read)
        /\ client' = [client EXCEPT ![c].at = "signal"]
        /\ UNCHANGED rm
  /\ UNCHANGED <<registry, socket, holder, daemon, signalled>>
  /\ NoteOverlap

\* pidfd_send_signal(): it reaches the pinned process and no other.
signal_session(c) ==
  /\ client[c].at = "signal"
  /\ signalled' = [read |-> client[c].read, got |-> client[c].pidfd]
  /\ client' = [client EXCEPT ![c] = [at |-> "idle", read |-> NoLife, pidfd |-> NoLife]]
  /\ UNCHANGED <<registry, socket, holder, daemon, rm>>
  /\ NoteOverlap

Step ==
  \/ \E a \in Processes : RmRead(a) \/ RmSocket(a) \/ RmRegistry(a)
  \/ \E l \in Lives :
       \/ Birth(l) \/ prepare_endpoint(l) \/ Probe(l) \/ Unlink(l) \/ bind(l)
       \/ write_registry(l) \/ EndHeadless(l) \/ EndHeaded(l) \/ TemporaryFiles(l) \/ Crash(l)
  \/ \E c \in Clients :
       \/ ReadRegistry(c) \/ registered_instance(c) \/ OpenPidfd(c) \/ Recheck(c)
       \/ signal_session(c)
  \/ \E p \in Pids : Recycle(p)

Next == Step /\ UNCHANGED launched

Spec == Init /\ [][Next]_vars

(***************************************************************************)
(* Properties.                                                             *)
(***************************************************************************)
\* terminate_session() never signals a process other than the daemon whose record it read,
\* however often the PID changes hands between the look-up, the pidfd and the signal.
SignalsTheRecorded == signalled.got = signalled.read

\* A published daemon that still runs keeps its endpoint: the registry records it and the
\* socket path leads to its listener, so that a client that finds one reaches the other.
EndpointKept == \A l \in Lives : daemon[l].at = "running" => registry = l /\ Bound(l) = l

\* Starts, ends and reapings that do not overlap keep the endpoint of a running daemon, and no
\* start fails with nobody else about ("stuck"), whatever a crash left at any step before it;
\* but for a record of another build or another endpoint, which fails every start ("barred") and
\* which only a process of its build that lists or looks up the session reaps.
OneAtATime == ~overlapped => EndpointKept /\ \A l \in Lives : daemon[l].at # "stuck"

\* A client signals the recorded daemon only; and one process at a time, the session's files
\* always lead to the running daemon, and what a crash leaves never locks the name up for a start
\* that can validate the record (prepare_endpoint).
SessionsKept == SignalsTheRecorded /\ OneAtATime
=============================================================================
