-------------------------------- MODULE Daemon --------------------------------
(***************************************************************************)
(* main() around the service: the options and the configuration file, the  *)
(* pid file with its lock, the wait loop, and the signals, for daemons     *)
(* started one after the other or at the same time on one machine.  What   *)
(* main() does between its wait loop and its end is OutputHandler's and    *)
(* GearServer's matter; here it is one step.                               *)
(***************************************************************************)
EXTENDS Integers, Sequences, FiniteSets

CONSTANTS
  Instances,  \* the processes; each is started once
  PidFiles,   \* the names a pid_file line may give, as numbers
  Files       \* the configuration files

(* A line sets an option to a value, which is a number here, names and     *)
(* connection strings too.                                                 *)
Line == {l \in [name : STRING, value : Int] :
           l.name = "pid_file" => l.value \in PidFiles}

ASSUME DaemonAssumption ==
  /\ IsFiniteSet(Instances)
  /\ PidFiles \subseteq Int \ {0}
  /\ Files \subseteq Seq(Line)

VARIABLES
  pc,           \* where main() is, "down" before the start
  rundaemonized,
  config,
  APP_RUNNING,
  sigint,       \* what SIGINT does: "default" or "handler"
  sighup,
  pid_fd,       \* the file a process has opened as pid file; 0 is none
  locked,       \* it holds the lock on that file
  path,         \* the file that a name in PidFiles leads to; 0 is none
  stopped       \* history: the handler has run for SIGINT

procVars == <<rundaemonized, config, APP_RUNNING, sigint, sighup>>
fileVars == <<pid_fd, locked, path>>
vars == <<pc, procVars, fileVars, stopped>>

ConfigType ==
  [PID_FILE : PidFiles \cup {0}, mysql_server : Seq(Int), work_retry_count : Int,
   obey_work_retry_count : BOOLEAN]

TypeOK ==
  /\ pc \in [Instances -> {"down", "open", "lock", "signals", "run", "shutdown",
                           "unlink", "exited", "failed", "killed"}]
  /\ rundaemonized \in [Instances -> BOOLEAN]
  /\ config \in [Instances -> ConfigType]
  /\ APP_RUNNING \in [Instances -> BOOLEAN]
  /\ sigint \in [Instances -> {"default", "handler"}]
  /\ sighup \in [Instances -> {"default", "handler"}]
  /\ pid_fd \in [Instances -> 0 .. Cardinality(Instances)]
  /\ locked \in [Instances -> BOOLEAN]
  /\ path \in [PidFiles -> 0 .. Cardinality(Instances)]
  /\ stopped \subseteq Instances

-----------------------------------------------------------------------------
(* load_config *)

(* A file that cannot be opened: getline() finds no line.                  *)
NoFile == <<>>

(* PID_FILE is the variable of that name, empty (0) until a line sets it:  *)
(* the default that Config gives pid_file does not.                        *)
DefaultConfig ==
  [PID_FILE |-> 0, mysql_server |-> <<>>, work_retry_count |-> 3,
   obey_work_retry_count |-> FALSE]

(* The names of options that find() finds in a line: one name is part of   *)
(* another.                                                                *)
NamesIn(line) ==
  IF line.name = "obey_work_retry_count"
    THEN {"obey_work_retry_count", "work_retry_count"}
    ELSE {line.name}

(* Mutant: the longer name is looked for first. *)
SetOptionLongFirst(c, line) ==
  IF line.name = "pid_file"
    THEN [c EXCEPT !.PID_FILE = line.value]
  ELSE IF "obey_work_retry_count" \in NamesIn(line)
    THEN [c EXCEPT !.obey_work_retry_count = line.value # 0]
  ELSE IF "work_retry_count" \in NamesIn(line)
    THEN [c EXCEPT !.work_retry_count = line.value]
  ELSE IF "mysql_server" \in NamesIn(line)
    THEN [c EXCEPT !.mysql_server = Append(@, line.value)]
  ELSE c

(* The chain of else-ifs, for the options that matter here.                *)
SetOption(c, line) ==
  IF line.name = "pid_file"
    THEN [c EXCEPT !.PID_FILE = line.value]
  ELSE IF "work_retry_count" \in NamesIn(line)
    THEN [c EXCEPT !.work_retry_count = line.value]
  ELSE IF "obey_work_retry_count" \in NamesIn(line)
    THEN [c EXCEPT !.obey_work_retry_count = line.value # 0]
  ELSE IF "mysql_server" \in NamesIn(line)
    THEN [c EXCEPT !.mysql_server = Append(@, line.value)]
  ELSE c

(* The list of servers is cleared before it is known that there is a file; *)
(* then one line is read after the other.                                  *)
AfterLines(c, file) ==
  LET after[n \in 0 .. Len(file)] ==
        IF n = 0 THEN [c EXCEPT !.mysql_server = <<>>]
        ELSE SetOption(after[n - 1], file[n])
  IN  after

LoadConfig(c, file) == AfterLines(c, file)[Len(file)]

-----------------------------------------------------------------------------
Init ==
  /\ pc = [i \in Instances |-> "down"]
  /\ rundaemonized = [i \in Instances |-> FALSE]
  /\ config = [i \in Instances |-> DefaultConfig]
  /\ APP_RUNNING = [i \in Instances |-> FALSE]
  /\ sigint = [i \in Instances |-> "default"]
  /\ sighup = [i \in Instances |-> "default"]
  /\ pid_fd = [i \in Instances |-> 0]
  /\ locked = [i \in Instances |-> FALSE]
  /\ path = [n \in PidFiles |-> 0]
  /\ stopped = {}

Goto(i, from, to) == pc[i] = from /\ pc' = [pc EXCEPT ![i] = to]

(* The options: -c file, then -d or not.  A file that cannot be read, or   *)
(* no -c at all, leaves the defaults.                                      *)
Start(i, file, d) ==
  /\ Goto(i, "down", IF d THEN "open" ELSE "run")
  /\ config' = [config EXCEPT ![i] = LoadConfig(@, file)]
  /\ rundaemonized' = [rundaemonized EXCEPT ![i] = d]
  /\ APP_RUNNING' = [APP_RUNNING EXCEPT ![i] = ~d]
  /\ UNCHANGED <<sigint, sighup, fileVars, stopped>>

(* daemonize(): open with O_CREAT, a lock that is not waited for.          *)
NewFile == CHOOSE n \in 1 .. Cardinality(Instances) :
             \A i \in Instances : pid_fd[i] # n

OpenPidFile(i) ==
  LET name == config[i].PID_FILE
  IN  /\ name \in PidFiles
      /\ Goto(i, "open", "lock")
      /\ pid_fd' = [pid_fd EXCEPT ![i] = IF path[name] = 0 THEN NewFile
                                                           ELSE path[name]]
      /\ path' = [path EXCEPT ![name] = pid_fd'[i]]
      /\ UNCHANGED <<procVars, locked, stopped>>

(* Whatever the name: a directory that is not there, a file that belongs   *)
(* to another user, or no name at all.                                     *)
OpenFails(i) ==
  /\ Goto(i, "open", "failed")
  /\ UNCHANGED <<procVars, fileVars, stopped>>

LockTaken(i) ==
  \E j \in Instances \ {i} : locked[j] /\ pid_fd[j] = pid_fd[i]

(* Mutant: the lock is not tested. *)
LockPidFileUntested(i) ==
  /\ Goto(i, "lock", "signals")
  /\ locked' = [locked EXCEPT ![i] = TRUE]
  /\ APP_RUNNING' = [APP_RUNNING EXCEPT ![i] = TRUE]
  /\ UNCHANGED <<rundaemonized, config, sigint, sighup, pid_fd, path, stopped>>

LockPidFile(i) ==
  /\ ~LockTaken(i)
  /\ Goto(i, "lock", "signals")
  /\ locked' = [locked EXCEPT ![i] = TRUE]
  /\ APP_RUNNING' = [APP_RUNNING EXCEPT ![i] = TRUE]
  /\ UNCHANGED <<rundaemonized, config, sigint, sighup, pid_fd, path, stopped>>

LockFails(i) ==
  /\ LockTaken(i)
  /\ Goto(i, "lock", "failed")
  /\ UNCHANGED <<procVars, fileVars, stopped>>

InstallHandlers(i) ==
  /\ Goto(i, "signals", "run")
  /\ sigint' = [sigint EXCEPT ![i] = "handler"]
  /\ sighup' = [sighup EXCEPT ![i] = "handler"]
  /\ UNCHANGED <<rundaemonized, config, APP_RUNNING, fileVars, stopped>>

(* A turn of the wait loop, after its 10 seconds: main()'s own m_timer is  *)
(* never interrupted, APP_RUNNING is what ends the loop.                   *)
LeaveLoop(i) ==
  /\ ~APP_RUNNING[i]
  /\ Goto(i, "run", "shutdown")
  /\ UNCHANGED <<procVars, fileVars, stopped>>

Shutdown(i) ==
  /\ Goto(i, "shutdown", IF rundaemonized[i] THEN "unlink" ELSE "exited")
  /\ UNCHANGED <<procVars, fileVars, stopped>>

(* unlink(PID_FILE), in the handler and at the end of main().              *)
Unlinked(i) == [path EXCEPT ![config[i].PID_FILE] = 0]

Unlink(i) ==
  /\ Goto(i, "unlink", "exited")
  /\ path' = Unlinked(i)
  /\ UNCHANGED <<procVars, pid_fd, locked, stopped>>

-----------------------------------------------------------------------------
(* Signals.  The handler runs to its end within one step of main().        *)

Alive(i) == pc[i] \notin {"down", "exited", "failed", "killed"}

(* Mutant: only the timer is interrupted, the copy of m_timer that belongs *)
(* to daemonize.cpp and that nobody waits on.                              *)
HandleSigIntTimerOnly(i) ==
  /\ Alive(i)
  /\ sigint[i] = "handler"
  /\ locked' = [locked EXCEPT ![i] = FALSE]
  /\ path' = Unlinked(i)
  /\ sigint' = [sigint EXCEPT ![i] = "default"]
  /\ stopped' = stopped \cup {i}
  /\ UNCHANGED <<pc, rundaemonized, config, APP_RUNNING, sighup, pid_fd>>

(* Mutant: the file is removed, but stays open and locked. *)
HandleSigIntKeepsLock(i) ==
  /\ Alive(i)
  /\ sigint[i] = "handler"
  /\ path' = Unlinked(i)
  /\ APP_RUNNING' = [APP_RUNNING EXCEPT ![i] = FALSE]
  /\ sigint' = [sigint EXCEPT ![i] = "default"]
  /\ stopped' = stopped \cup {i}
  /\ UNCHANGED <<pc, rundaemonized, config, sighup, pid_fd, locked>>

HandleSigInt(i) ==
  /\ Alive(i)
  /\ sigint[i] = "handler"
  /\ locked' = [locked EXCEPT ![i] = FALSE]
  /\ path' = Unlinked(i)
  /\ APP_RUNNING' = [APP_RUNNING EXCEPT ![i] = FALSE]
  /\ sigint' = [sigint EXCEPT ![i] = "default"]
  /\ stopped' = stopped \cup {i}
  /\ UNCHANGED <<pc, rundaemonized, config, sighup, pid_fd>>

(* load_config with daemonize.cpp's copy of conf_file_name, which nothing  *)
(* ever sets.                                                              *)
HandleSigHup(i) ==
  /\ Alive(i)
  /\ sighup[i] = "handler"
  /\ config' = [config EXCEPT ![i] = LoadConfig(@, NoFile)]
  /\ UNCHANGED <<pc, rundaemonized, APP_RUNNING, sigint, sighup, fileVars,
                 stopped>>

(* Any other signal, or one of these before or after its handler is there: *)
(* the process ends, and the kernel gives its lock back.                   *)
Killed(i) ==
  /\ Alive(i)
  /\ pc' = [pc EXCEPT ![i] = "killed"]
  /\ locked' = [locked EXCEPT ![i] = FALSE]
  /\ UNCHANGED <<procVars, pid_fd, path, stopped>>

-----------------------------------------------------------------------------
MainStep(i) ==
  \/ OpenPidFile(i) \/ OpenFails(i) \/ LockPidFile(i) \/ LockFails(i)
  \/ InstallHandlers(i) \/ LeaveLoop(i) \/ Shutdown(i) \/ Unlink(i)

Next ==
  \E i \in Instances :
    \/ \E file \in Files \cup {NoFile}, d \in BOOLEAN : Start(i, file, d)
    \/ MainStep(i)
    \/ HandleSigInt(i) \/ HandleSigHup(i) \/ Killed(i)

(* A process that runs gets the processor, and its shutdown ends.          *)
Fairness == \A i \in Instances : WF_vars(MainStep(i))

Spec == Init /\ [][Next]_vars /\ Fairness

-----------------------------------------------------------------------------
Serving == {i \in Instances : rundaemonized[i]
                              /\ pc[i] \in {"signals", "run", "shutdown", "unlink"}}

(* As long as no daemon has been stopped by SIGINT, at most one serves     *)
(* for each pid file, however starts and deaths interleave, and that name  *)
(* leads to the file it has locked.  (Afterwards two can serve: the        *)
(* handler gives lock and file back before the shutdown has begun, and the *)
(* end of main() removes the pid file of the next daemon.)                 *)
OneUntilStopped ==
  stopped = {} =>
    \A i \in Serving :
      /\ path[config[i].PID_FILE] = pid_fd[i] /\ locked[i]
      /\ \A j \in Serving \ {i} : config[j].PID_FILE # config[i].PID_FILE

(* A daemon that was killed, in any step and with its pid file left        *)
(* behind, or that has been told to stop, is not in the way of the next    *)
(* one: a start that could open its pid file only fails while a daemon     *)
(* with the same pid file serves that nobody has stopped.                  *)
LockFailsBehindADaemon ==
  [][\A i \in Instances :
       pc[i] = "lock" /\ pc'[i] = "failed"
         => \E j \in Serving \ stopped : config[j].PID_FILE = config[i].PID_FILE]_vars

(* A daemon that got SIGINT ends, although the timer that its handler      *)
(* interrupts is not the one that main() waits on.                         *)
StopCompletes ==
  \A i \in Instances : i \in stopped ~> ~Alive(i)

(* No configuration file switches the limit on attempts on: the line that  *)
(* should do it sets the limit itself, to 0 or 1.                          *)
RetryLimitNeverObeyed ==
  \A i \in Instances : ~config[i].obey_work_retry_count

(* "daemonize reload config" (daemonize.cpp:26): with an unchanged file, a *)
(* daemon that had servers has some after a reload.                        *)
ReloadKeepsServers ==
  [][\A i \in Instances :
       config[i].mysql_server # <<>> => config'[i].mysql_server # <<>>]_vars
=============================================================================
