------------------------------ MODULE DaemonProofs ------------------------------
(***************************************************************************)
(* Proofs about Daemon for any finite number of processes, any pid files   *)
(* and any configuration files: that as long as nobody was stopped one     *)
(* daemon serves at most for a pid file, that a start finds the lock taken *)
(* only by a daemon that lives, and that no file switches the limit on     *)
(* attempts on.                                                            *)
(***************************************************************************)
EXTENDS Daemon, Induction, FiniteSetTheorems, SequenceTheorems, TLAPS

(* load_config, for files of any length.  A recursive function is what its *)
(* equation says once some function satisfies it; one for the first n      *)
(* lines is made into one for n + 1 by adding the value of the last.       *)
LEMMA AfterLinesEquation ==
  ASSUME NEW c, NEW file, Len(file) \in Nat
  PROVE  /\ AfterLines(c, file)[0] = [c EXCEPT !.mysql_server = <<>>]
         /\ \A n \in 1 .. Len(file) :
              AfterLines(c, file)[n] = SetOption(AfterLines(c, file)[n - 1], file[n])
<1> DEFINE first == [c EXCEPT !.mysql_server = <<>>]
           Reads(g, m) == /\ g = [n \in 0 .. m |-> g[n]]
                          /\ g[0] = first
                          /\ \A n \in 1 .. m : g[n] = SetOption(g[n - 1], file[n])
           Readable == {m \in Nat : \E g : Reads(g, m)}
           f == AfterLines(c, file)
<1>0. f = CHOOSE g : g = [n \in 0 .. Len(file) |->
                           IF n = 0 THEN first ELSE SetOption(g[n - 1], file[n])]
  BY Zenon DEF AfterLines
<1> HIDE DEF first, f
<1>1. 0 \in Readable
  <2>1. Reads([n \in 0 .. 0 |-> first], 0)
    OBVIOUS
  <2> QED
    BY <2>1
<1>2. ASSUME NEW m \in Nat, m \in Readable PROVE m + 1 \in Readable
  <2>1. PICK g : Reads(g, m)
    BY <1>2
  <2> DEFINE last == SetOption(g[m], file[m + 1])
             h == [n \in 0 .. m + 1 |-> IF n = m + 1 THEN last ELSE g[n]]
  <2> HIDE DEF last
  <2>2. /\ h = [n \in 0 .. m + 1 |-> h[n]]
        /\ h[0] = first /\ h[m + 1] = last
    BY <2>1
  <2>3. \A n \in 0 .. m : h[n] = g[n]
    OBVIOUS
  <2>4. ASSUME NEW n \in 1 .. m + 1 PROVE h[n] = SetOption(h[n - 1], file[n])
    <3>1. h[n - 1] = g[n - 1]
      BY <2>3
    <3>2. CASE n = m + 1
      BY <2>2, <3>1, <3>2 DEF last
    <3>3. CASE n \in 1 .. m
      BY <2>1, <2>3, <3>1, <3>3
    <3> QED
      BY <3>2, <3>3
  <2> HIDE DEF h
  <2>5. Reads(h, m + 1)
    BY <2>2, <2>4
  <2> QED
    <3> HIDE DEF Reads
    <3> QED
      BY <2>5
<1>3. Len(file) \in Readable
  <2> HIDE DEF Readable
  <2>1. 0 .. Len(file) \subseteq Readable
    BY <1>1, <1>2, Climb
  <2> QED
    BY <2>1
<1>4. PICK g : Reads(g, Len(file))
  BY <1>3
<1>5. g = [n \in 0 .. Len(file) |->
             IF n = 0 THEN first ELSE SetOption(g[n - 1], file[n])]
  <2>1. g = [n \in 0 .. Len(file) |-> g[n]]
    BY <1>4
  <2>2. \A n \in 0 .. Len(file) :
          g[n] = IF n = 0 THEN first ELSE SetOption(g[n - 1], file[n])
    BY <1>4
  <2> QED
    BY <2>1, <2>2
<1>6. f = [n \in 0 .. Len(file) |->
             IF n = 0 THEN first ELSE SetOption(f[n - 1], file[n])]
  BY <1>0, <1>5, Zenon
<1>7. f[0] = first
  BY <1>6
<1>8. \A n \in 1 .. Len(file) : f[n] = SetOption(f[n - 1], file[n])
  BY <1>6
<1> QED
  BY <1>7, <1>8 DEF f, first

(* A line keeps the type, and does not switch the limit on.                *)
LEMMA OptionKeeps ==
  ASSUME NEW c \in ConfigType, NEW line \in Line
  PROVE  /\ SetOption(c, line) \in ConfigType
         /\ SetOption(c, line).obey_work_retry_count = c.obey_work_retry_count
<1>1. line.value \in Int
  BY DEF Line
<1>2. CASE line.name = "pid_file"
  <2>1. line.value \in PidFiles
    BY <1>2 DEF Line
  <2> QED
    BY <1>2, <2>1 DEF SetOption, ConfigType
<1>3. CASE line.name # "pid_file" /\ "work_retry_count" \in NamesIn(line)
  BY <1>1, <1>3 DEF SetOption, ConfigType
<1>4. CASE line.name # "pid_file" /\ "work_retry_count" \notin NamesIn(line)
  <2>1. "obey_work_retry_count" \notin NamesIn(line)
    BY <1>4 DEF NamesIn
  <2>2. Append(c.mysql_server, line.value) \in Seq(Int)
    BY <1>1, AppendProperties DEF ConfigType
  <2>3. [c EXCEPT !.mysql_server = Append(@, line.value)] \in ConfigType
    BY <2>2 DEF ConfigType
  <2>4. [c EXCEPT !.mysql_server = Append(@, line.value)].obey_work_retry_count
          = c.obey_work_retry_count
    BY DEF ConfigType
  <2>5. \/ SetOption(c, line) = c
        \/ SetOption(c, line) = [c EXCEPT !.mysql_server = Append(@, line.value)]
    BY <1>4, <2>1 DEF SetOption
  <2> QED
    BY <2>3, <2>4, <2>5
<1> QED
  BY <1>2, <1>3, <1>4

LEMMA LoadConfigKeeps ==
  ASSUME NEW c \in ConfigType, NEW file \in Seq(Line)
  PROVE  /\ LoadConfig(c, file) \in ConfigType
         /\ LoadConfig(c, file).obey_work_retry_count = c.obey_work_retry_count
<1> DEFINE f == AfterLines(c, file)
           Kept == {n \in Nat : /\ f[n] \in ConfigType
                                /\ f[n].obey_work_retry_count = c.obey_work_retry_count}
<1>0. Len(file) \in Nat /\ \A n \in 1 .. Len(file) : file[n] \in Line
  BY LenProperties, ElementOfSeq
<1>1. /\ f[0] = [c EXCEPT !.mysql_server = <<>>]
      /\ \A n \in 1 .. Len(file) : f[n] = SetOption(f[n - 1], file[n])
  BY <1>0, AfterLinesEquation
<1> HIDE DEF f
<1>2. 0 \in Kept
  <2>1. <<>> \in Seq(Int)
    OBVIOUS
  <2> QED
    BY <1>1, <2>1 DEF ConfigType
<1>3. ASSUME NEW n \in 0 .. Len(file) - 1, n \in Kept PROVE n + 1 \in Kept
  <2>1. n + 1 \in 1 .. Len(file) /\ n + 1 \in Nat /\ (n + 1) - 1 = n
    BY <1>0
  <2>2. f[n + 1] = SetOption(f[n], file[n + 1]) /\ file[n + 1] \in Line
    BY <1>0, <1>1, <2>1
  <2> QED
    BY <1>3, <2>1, <2>2, OptionKeeps
<1>4. Len(file) \in Kept
  <2> HIDE DEF Kept
  <2>1. 0 .. Len(file) \subseteq Kept
    BY <1>0, <1>2, <1>3, Climb
  <2> QED
    BY <1>0, <2>1
<1> QED
  BY <1>4 DEF LoadConfig, f

(* What main() and the handler load are lines.                             *)
LEMMA FilesAreLines ==
  ASSUME NEW file \in Files \cup {NoFile}
  PROVE  file \in Seq(Line)
<1>1. <<>> \in Seq(Line)
  OBVIOUS
<1> QED
  BY <1>1, DaemonAssumption DEF NoFile

-----------------------------------------------------------------------------
(* The arrays, whatever load_config makes of the configurations.           *)
Types ==
  /\ DOMAIN pc = Instances
  /\ rundaemonized \in [Instances -> BOOLEAN]
  /\ DOMAIN config = Instances
  /\ APP_RUNNING \in [Instances -> BOOLEAN]
  /\ sigint \in [Instances -> {"default", "handler"}]
  /\ DOMAIN pid_fd = Instances
  /\ locked \in [Instances -> BOOLEAN]
  /\ DOMAIN path = PidFiles

(* How far a process is that has a handler, a lock, or has been stopped.   *)
Stages(i) ==
  /\ pc[i] \in {"down", "open"} => pid_fd[i] = 0
  /\ pc[i] = "lock" \/ i \in Serving => pid_fd[i] # 0
  /\ pid_fd[i] # 0 => config[i].PID_FILE \in PidFiles
  /\ pc[i] \in {"open", "lock", "signals"} => rundaemonized[i] /\ sigint[i] = "default"
  /\ pc[i] = "down" => sigint[i] = "default"
  /\ sigint[i] = "handler" => i \notin stopped
  /\ i \in stopped => pc[i] \notin {"down", "open", "lock", "signals", "failed"}
  /\ pc[i] \in {"signals", "run"} /\ ~APP_RUNNING[i] => i \in stopped
  /\ pc[i] \in {"shutdown", "unlink"} => i \in stopped
  /\ locked[i] => /\ pc[i] \in {"signals", "run"}
                  /\ rundaemonized[i] /\ i \notin stopped

(* A file is opened under one name only, and who finds one under a name    *)
(* has it from a process that opened it under that name.                   *)
Names ==
  /\ \A i, j \in Instances :
       pid_fd[i] = pid_fd[j] /\ pid_fd[i] # 0
         => config[i].PID_FILE = config[j].PID_FILE
  /\ \A n \in PidFiles :
       path[n] # 0 => \E j \in Instances : pid_fd[j] = path[n] /\ config[j].PID_FILE = n

(* The same file is opened as long as nobody removes it.                   *)
SameFile(i) ==
  stopped = {} =>
    /\ pc[i] = "lock" \/ i \in Serving => pid_fd[i] = path[config[i].PID_FILE]
    /\ i \in Serving => locked[i]

OneHolder ==
  \A i, j \in Instances : locked[i] /\ locked[j] /\ pid_fd[i] = pid_fd[j] => i = j

Inv ==
  /\ Types
  /\ OneHolder
  /\ Names
  /\ \A i \in Instances : Stages(i) /\ SameFile(i)

LEMMA InitInv == Init => Inv
BY DEF Init, Inv, Types, OneHolder, Names, Stages, SameFile, Serving

(* A process that opens its pid file finds a number for it: no more files  *)
(* are open than there are other processes.                                *)
LEMMA NewFileIsNew ==
  ASSUME NEW i \in Instances, pid_fd[i] = 0, DOMAIN pid_fd = Instances
  PROVE  NewFile # 0 /\ \A j \in Instances : pid_fd[j] # NewFile
<1> DEFINE N == Cardinality(Instances)
           Others == Instances \ {i}
           f == [j \in Others |-> pid_fd[j]]
           T == {f[j] : j \in Others}
<1>1. IsFiniteSet(Instances) /\ N \in Nat
  BY DaemonAssumption, FS_CardinalityType
<1>2. IsFiniteSet(Others) /\ Cardinality(Others) = N - 1
  BY <1>1, FS_RemoveElement
<1>3. f \in Surjection(Others, T)
  BY DEF Surjection
<1> HIDE DEF f
<1>4. IsFiniteSet(T) /\ Cardinality(T) <= N - 1 /\ Cardinality(T) \in Nat
  BY <1>2, <1>3, FS_Surjection, FS_CardinalityType
<1>5. Cardinality(1 .. N) = N
  BY <1>1, FS_Interval
<1>6. \E n \in 1 .. N : n \notin T
  <2> DEFINE I == 1 .. N
  <2>1. ASSUME I \subseteq T PROVE FALSE
    <3> HIDE DEF T, I, N, Others
    <3>1. Cardinality(I) <= Cardinality(T)
      BY <1>4, <2>1, FS_Subset
    <3>2. Cardinality(I) = N
      BY <1>5 DEF I
    <3> QED
      BY <1>1, <1>4, <3>1, <3>2
  <2> QED
    BY <2>1
<1>7. \E n \in 1 .. N : \A j \in Instances : pid_fd[j] # n
  BY <1>6 DEF f
<1> QED
  BY <1>1, <1>7 DEF NewFile

(* A reload reads no line, and so keeps the name of the pid file.          *)
LEMMA ReloadKeepsName ==
  ASSUME NEW c \in ConfigType
  PROVE  LoadConfig(c, NoFile).PID_FILE = c.PID_FILE
<1>1. Len(NoFile) = 0
  BY DEF NoFile
<1>2. LoadConfig(c, NoFile) = [c EXCEPT !.mysql_server = <<>>]
  BY <1>1, AfterLinesEquation DEF LoadConfig
<1> QED
  BY <1>2 DEF ConfigType

LEMMA NextInv == Inv /\ TypeOK /\ [Next]_vars => Inv'
<1> SUFFICES ASSUME Inv, TypeOK, [Next]_vars PROVE Inv'
  OBVIOUS
<1> USE DEF Inv, Types, Serving
<1>1. ASSUME NEW i \in Instances, NEW file, NEW d \in BOOLEAN, Start(i, file, d)
      PROVE  Inv'
  <2>1. pid_fd[i] = 0 /\ pid_fd' = pid_fd /\ path' = path
    BY <1>1 DEF Start, Goto, Stages, fileVars
  <2>2. \A j \in Instances \ {i} : config'[j] = config[j]
    BY <1>1 DEF Start
  <2>3. Names'
    BY <2>1, <2>2 DEF Names
  <2>4. Types' /\ OneHolder'
    BY <1>1 DEF Start, Goto, OneHolder, fileVars
  <2>5. \A j \in Instances : Stages(j)' /\ SameFile(j)'
    BY <1>1, <2>1, <2>2 DEF Start, Goto, Stages, SameFile, fileVars
  <2> QED
    BY <2>3, <2>4, <2>5
<1>2. ASSUME NEW i \in Instances, OpenPidFile(i) PROVE Inv'
  <2> DEFINE name == config[i].PID_FILE
  <2>1. pid_fd[i] = 0
    BY <1>2 DEF OpenPidFile, Goto, Stages
  <2>2. NewFile # 0 /\ \A j \in Instances : pid_fd[j] # NewFile
    BY <2>1, NewFileIsNew
  <2> HIDE DEF NewFile
  <2>3. /\ name \in PidFiles
        /\ pid_fd'[i] # 0 /\ path'[name] = pid_fd'[i]
        /\ path[name] # 0 => path'[name] = path[name]
        /\ path[name] = 0 => pid_fd'[i] = NewFile
        /\ \A n \in PidFiles \ {name} : path'[n] = path[n]
        /\ \A j \in Instances \ {i} : pid_fd'[j] = pid_fd[j] /\ pc'[j] = pc[j]
        /\ pc[i] = "open" /\ pc'[i] = "lock" /\ ~locked[i]
        /\ UNCHANGED <<procVars, locked, stopped>>
        /\ DOMAIN pc' = Instances /\ DOMAIN pid_fd' = Instances
        /\ DOMAIN path' = PidFiles
    BY <1>2, <2>2 DEF OpenPidFile, Goto, Stages
  <2> HIDE DEF name
  <2>4. Types' /\ OneHolder'
    BY <2>3 DEF procVars, OneHolder
  <2>5. \A j \in Instances : Stages(j)'
    BY <2>3 DEF procVars, Stages, name
  <2>6. Names'
    <3>1. ASSUME NEW j \in Instances \ {i}, pid_fd[j] = pid_fd'[i]
          PROVE  config[j].PID_FILE = name
      <4>1. path[name] # 0 /\ pid_fd[j] = path[name]
        BY <2>2, <2>3, <3>1
      <4>2. PICK k \in Instances : pid_fd[k] = path[name] /\ config[k].PID_FILE = name
        BY <2>3, <4>1 DEF Names
      <4> QED
        BY <4>1, <4>2 DEF Names
    <3>2. \A j, k \in Instances :
            pid_fd'[j] = pid_fd'[k] /\ pid_fd'[j] # 0
              => config[j].PID_FILE = config[k].PID_FILE
      BY <2>3, <3>1 DEF Names, name
    <3>3. ASSUME NEW n \in PidFiles, path'[n] # 0
          PROVE  \E j \in Instances : pid_fd'[j] = path'[n] /\ config[j].PID_FILE = n
      <4>1. CASE n = name
        BY <2>3, <4>1 DEF name
      <4>2. CASE n # name
        <5>1. PICK j \in Instances : pid_fd[j] = path[n] /\ config[j].PID_FILE = n
          BY <2>3, <3>3, <4>2 DEF Names
        <5> QED
          BY <2>1, <2>3, <3>3, <4>2, <5>1
      <4> QED
        BY <4>1, <4>2
    <3> QED
      BY <2>3, <3>2, <3>3 DEF Names, procVars
  <2>7. ASSUME NEW j \in Instances PROVE SameFile(j)'
    <3>1. CASE j = i
      BY <2>3, <3>1 DEF SameFile, procVars, name
    <3>2. CASE j # i
      <4>1. SameFile(j) /\ Stages(j)
        OBVIOUS
      <4> QED
        BY <2>3, <3>2, <4>1 DEF SameFile, Stages, procVars
    <3> QED
      BY <3>1, <3>2
  <2> QED
    BY <2>4, <2>5, <2>6, <2>7
<1>3. ASSUME NEW i \in Instances, LockPidFile(i) PROVE Inv'
  BY <1>3 DEF LockPidFile, LockTaken, Goto, OneHolder, Names, Stages, SameFile
<1>4. ASSUME NEW i \in Instances, OpenFails(i) \/ LockFails(i) PROVE Inv'
  BY <1>4 DEF OpenFails, LockFails, Goto, OneHolder, Names, Stages, SameFile,
     fileVars, procVars
<1>5. ASSUME NEW i \in Instances, InstallHandlers(i) PROVE Inv'
  BY <1>5 DEF InstallHandlers, Goto, OneHolder, Names, Stages, SameFile, fileVars
<1>6. ASSUME NEW i \in Instances, LeaveLoop(i) \/ Shutdown(i) PROVE Inv'
  BY <1>6 DEF LeaveLoop, Shutdown, Goto, OneHolder, Names, Stages, SameFile,
     fileVars, procVars
<1>7. ASSUME NEW i \in Instances, Unlink(i) \/ HandleSigInt(i) PROVE Inv'
  <2>1. /\ stopped' # {} /\ DOMAIN path' = PidFiles
        /\ \A n \in PidFiles : path'[n] \in {0, path[n]}
        /\ UNCHANGED <<config, pid_fd>>
    BY <1>7 DEF Unlink, HandleSigInt, Unlinked, Goto, Stages, procVars
  <2>2. Names' /\ \A j \in Instances : SameFile(j)'
    BY <2>1 DEF Names, SameFile
  <2>3. CASE Unlink(i)
    BY <2>1, <2>2, <2>3 DEF Unlink, Goto, OneHolder, Stages, procVars
  <2>4. CASE HandleSigInt(i)
    BY <2>1, <2>2, <2>4 DEF HandleSigInt, Alive, OneHolder, Stages
  <2> QED
    BY <1>7, <2>3, <2>4
<1>8. ASSUME NEW i \in Instances, HandleSigHup(i) PROVE Inv'
  <2>1. config[i] \in ConfigType
    BY DEF TypeOK
  <2>2. \A j \in Instances : config'[j].PID_FILE = config[j].PID_FILE
    BY <1>8, <2>1, ReloadKeepsName DEF HandleSigHup
  <2>3. DOMAIN config' = Instances /\ UNCHANGED <<pc, rundaemonized, APP_RUNNING,
          sigint, pid_fd, locked, path, stopped>>
    BY <1>8 DEF HandleSigHup, fileVars
  <2> QED
    BY <2>2, <2>3 DEF OneHolder, Names, Stages, SameFile
<1>9. ASSUME NEW i \in Instances, Killed(i) PROVE Inv'
  BY <1>9 DEF Killed, Alive, OneHolder, Names, Stages, SameFile, procVars
<1>10. CASE UNCHANGED vars
  BY <1>10 DEF vars, procVars, fileVars, OneHolder, Names, Stages, SameFile
<1> QED
  BY <1>1, <1>2, <1>3, <1>4, <1>5, <1>6, <1>7, <1>8, <1>9, <1>10 DEF Next, MainStep

LEMMA UnlinkedTypes ==
  ASSUME NEW i \in Instances, TypeOK
  PROVE  Unlinked(i) \in [PidFiles -> 0 .. Cardinality(Instances)]
<1>1. 0 \in 0 .. Cardinality(Instances)
  BY DaemonAssumption, FS_CardinalityType
<1> QED
  BY <1>1 DEF Unlinked, TypeOK

(* The types, the configuration's with them.                               *)
LEMMA NextTypes == Inv /\ TypeOK /\ [Next]_vars => TypeOK'
<1> SUFFICES ASSUME Inv, TypeOK, [Next]_vars PROVE TypeOK'
  OBVIOUS
<1> USE DEF TypeOK
<1>1. ASSUME NEW i \in Instances, NEW file \in Files \cup {NoFile}
      PROVE  LoadConfig(config[i], file) \in ConfigType
  <2>1. config[i] \in ConfigType /\ file \in Seq(Line)
    BY FilesAreLines
  <2> QED
    BY <2>1, LoadConfigKeeps
<1>2. ASSUME NEW i \in Instances, NEW file \in Files \cup {NoFile}, NEW d \in BOOLEAN,
             Start(i, file, d)
      PROVE  TypeOK'
  BY <1>1, <1>2 DEF Start, Goto, fileVars
<1>3. ASSUME NEW i \in Instances, OpenPidFile(i) PROVE TypeOK'
  <2>1. pid_fd[i] = 0 /\ DOMAIN pid_fd = Instances
    BY <1>3 DEF OpenPidFile, Goto, Inv, Stages
  <2>2. NewFile \in 0 .. Cardinality(Instances)
    BY <2>1, NewFileIsNew DEF NewFile
  <2> HIDE DEF NewFile
  <2> QED
    BY <1>3, <2>2 DEF OpenPidFile, Goto, procVars
<1>4. ASSUME NEW i \in Instances,
             \/ OpenFails(i) \/ LockPidFile(i) \/ LockFails(i) \/ InstallHandlers(i)
             \/ LeaveLoop(i) \/ Shutdown(i) \/ Unlink(i)
      PROVE  TypeOK'
  <2>1. Unlinked(i) \in [PidFiles -> 0 .. Cardinality(Instances)]
    BY UnlinkedTypes
  <2> HIDE DEF Unlinked
  <2> QED
    BY <1>4, <2>1 DEF OpenFails, LockPidFile, LockFails, InstallHandlers, LeaveLoop,
       Shutdown, Unlink, Goto, procVars, fileVars
<1>5. ASSUME NEW i \in Instances, HandleSigInt(i) \/ Killed(i) PROVE TypeOK'
  <2>1. Unlinked(i) \in [PidFiles -> 0 .. Cardinality(Instances)]
    BY UnlinkedTypes
  <2> HIDE DEF Unlinked
  <2> QED
    BY <1>5, <2>1 DEF HandleSigInt, Killed, procVars
<1>6. ASSUME NEW i \in Instances, HandleSigHup(i) PROVE TypeOK'
  BY <1>1, <1>6 DEF HandleSigHup, fileVars
<1>7. CASE UNCHANGED vars
  BY <1>7 DEF vars, procVars, fileVars
<1> QED
  BY <1>2, <1>3, <1>4, <1>5, <1>6, <1>7 DEF Next, MainStep

LEMMA InitTypes == Init => TypeOK
<1>1. 0 \in 0 .. Cardinality(Instances) /\ <<>> \in Seq(Int)
  BY DaemonAssumption, FS_CardinalityType
<1>2. DefaultConfig \in ConfigType
  BY <1>1 DEF DefaultConfig, ConfigType
<1> QED
  BY <1>1, <1>2 DEF Init, TypeOK

-----------------------------------------------------------------------------
THEOREM Invariance == Spec => [](Inv /\ TypeOK)
<1>1. Init => Inv /\ TypeOK
  BY InitInv, InitTypes
<1>2. Inv /\ TypeOK /\ [Next]_vars => (Inv /\ TypeOK)'
  BY NextInv, NextTypes
<1> QED
  BY <1>1, <1>2, PTL DEF Spec

(* Every array keeps its type, whatever the configuration files hold.      *)
THEOREM TypeCorrect == Spec => []TypeOK
<1> QED
  BY Invariance, PTL

(* At most one daemon serves for a pid file until one is stopped, whatever *)
(* is started and killed in whatever order, and it holds the lock on the   *)
(* file that PID_FILE names.                                               *)
THEOREM OneDaemonUntilStopped == Spec => []OneUntilStopped
<1>1. Inv => OneUntilStopped
  BY DEF Inv, SameFile, OneHolder, OneUntilStopped, Serving
<1> QED
  BY <1>1, Invariance, PTL

(* Neither a killed daemon nor a stopped one is in anybody's way: a start  *)
(* that could open its pid file fails only while a daemon serves that      *)
(* holds the lock on the file of that name and that nobody has stopped.    *)
THEOREM FailuresHaveACause == Spec => LockFailsBehindADaemon
<1> DEFINE Cause == \A i \in Instances :
             pc[i] = "lock" /\ pc'[i] = "failed"
               => \E j \in Serving \ stopped :
                    config[j].PID_FILE = config[i].PID_FILE
<1>1. Inv /\ [Next]_vars => [Cause]_vars
  <2> SUFFICES ASSUME Inv, Next, NEW i \in Instances,
                      pc[i] = "lock", pc'[i] = "failed"
               PROVE  \E j \in Serving \ stopped :
                        config[j].PID_FILE = config[i].PID_FILE
    BY DEF Inv
  <2>1. LockTaken(i)
    BY DEF Next, MainStep, Start, OpenPidFile, OpenFails, LockPidFile, LockFails,
       InstallHandlers, LeaveLoop, Shutdown, Unlink, HandleSigInt, HandleSigHup,
       Killed, Goto, Inv, Types
  <2>2. PICK j \in Instances : locked[j] /\ pid_fd[j] = pid_fd[i]
    BY <2>1 DEF LockTaken
  <2>3. pid_fd[i] # 0
    BY DEF Inv, Stages
  <2>4. j \in Serving \ stopped
    BY <2>2 DEF Inv, Stages, Serving
  <2>5. config[j].PID_FILE = config[i].PID_FILE
    BY <2>2, <2>3 DEF Inv, Names
  <2> QED
    BY <2>4, <2>5
<1> QED
  BY <1>1, Invariance, PTL DEF Spec, LockFailsBehindADaemon

(* No configuration file, whatever its lines and their order, ever         *)
(* switches the limit on attempts on: its name contains that of the limit, *)
(* which load_config looks for first.                                      *)
THEOREM LimitIsNeverOn == Spec => []RetryLimitNeverObeyed
<1>1. Init => RetryLimitNeverObeyed
  BY DEF Init, DefaultConfig, RetryLimitNeverObeyed
<1>2. ASSUME TypeOK, RetryLimitNeverObeyed, [Next]_vars, NEW j \in Instances
      PROVE  ~config'[j].obey_work_retry_count
  <2>1. ASSUME NEW i \in Instances, NEW file \in Files \cup {NoFile},
               config' = [config EXCEPT ![i] = LoadConfig(@, file)]
        PROVE  ~config'[j].obey_work_retry_count
    <3>1. config[i] \in ConfigType /\ config \in [Instances -> ConfigType]
      BY <1>2 DEF TypeOK
    <3>2. file \in Seq(Line)
      BY FilesAreLines
    <3>3. LoadConfig(config[i], file).obey_work_retry_count
            = config[i].obey_work_retry_count
      BY <3>1, <3>2, LoadConfigKeeps
    <3> QED
      BY <1>2, <2>1, <3>1, <3>3 DEF RetryLimitNeverObeyed
  <2>2. \/ UNCHANGED config
        \/ \E i \in Instances, file \in Files \cup {NoFile} :
             config' = [config EXCEPT ![i] = LoadConfig(@, file)]
    BY <1>2 DEF Next, MainStep, Start, OpenPidFile, OpenFails, LockPidFile, LockFails,
       InstallHandlers, LeaveLoop, Shutdown, Unlink, HandleSigInt, HandleSigHup,
       Killed, vars, procVars
  <2> QED
    BY <1>2, <2>1, <2>2 DEF RetryLimitNeverObeyed
<1>3. TypeOK /\ RetryLimitNeverObeyed /\ [Next]_vars => RetryLimitNeverObeyed'
  BY <1>2 DEF RetryLimitNeverObeyed
<1> QED
  BY <1>1, <1>3, TypeCorrect, PTL DEF Spec
===============================================================================
