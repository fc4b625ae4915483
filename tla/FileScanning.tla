----------------------------- MODULE FileScanning -----------------------------
(* core_engine/antivirus_integration.py and core_engine/automated_scanner.py *)
(* (routes antivirus.py and scanner.py): scans of directories and files run  *)
(* as tasks that wait for the engines file by file, and move what an engine  *)
(* flags into the quarantine directory.  The engines are other programs:     *)
(* what they print is theirs, and so is what happens to the directory while  *)
(* a scan waits.                                                             *)
EXTENDS Naturals, Sequences, FiniteSets

CONSTANTS Paths,      \* files of the scanned directory
          Scans,      \* scan tasks
          Engines,    \* the available engines that scan_multi_engine can run
          MaxFiles    \* bound: files that ever appear, over all paths

Absent == 0

VARIABLES disk,      \* path -> the file there, or Absent
          vault,     \* quarantine name (one per path) -> the file there
          born,      \* files that appeared so far: the ids in use
          task,      \* scan -> its position and, when done, its ScanReport
          suspected  \* the paths _scan_history has an infected result for

scanVars == <<disk, vault, born, task, suspected>>

Idle == [phase |-> "idle", kind |-> "none", todo |-> {}, current |-> Absent,
         file |-> Absent, verdicts |-> {}, entries |-> {}, scanned |-> 0,
         threats |-> 0]

ScanInit ==
  /\ disk = [p \in Paths |-> Absent]
  /\ vault = [p \in Paths |-> Absent]
  /\ born = 0
  /\ task = [s \in Scans |-> Idle]
  /\ suspected = {}

---------------------------------------------------------------------------
(* The environment: a file is written to the directory.                      *)
FileAppears ==
  \E p \in Paths :
    /\ disk[p] = Absent /\ born < MaxFiles
    /\ born' = born + 1
    /\ disk' = [disk EXCEPT ![p] = born + 1]
    /\ UNCHANGED <<vault, task, suspected>>

(* scan_directory lists the directory before it scans its first file.        *)
StartDirectoryScan ==
  \E s \in Scans :
    /\ task[s].phase = "idle"
    /\ LET files == {p \in Paths : disk[p] # Absent}
       IN /\ files # {}
          /\ task' = [task EXCEPT ![s] =
                        [Idle EXCEPT !.phase = "walk", !.kind = "directory",
                                     !.todo = files]]
    /\ UNCHANGED <<disk, vault, born, suspected>>

(* A file target of run_scan, or a request that only asks for the verdicts   *)
(* (scan/single, scan/multi, scan_and_notify).                               *)
StartFileScan ==
  \E s \in Scans, p \in Paths, kind \in {"file", "look"} :
    /\ task[s].phase = "idle" /\ disk[p] # Absent
    /\ task' = [task EXCEPT ![s] = [Idle EXCEPT !.phase = "walk",
                                      !.kind = kind, !.todo = {p}]]
    /\ UNCHANGED <<disk, vault, born, suspected>>

(* scan_multi_engine: the engines run, one after the other, in the tasks of  *)
(* one gather; Defender removes what it flags.  The scan itself goes on      *)
(* later.  On a path that is gone an engine's output is as free as any.      *)
ScanMultiEngine ==
  \E s \in Scans :
    \E p \in task[s].todo, flagging \in SUBSET Engines :
      /\ task[s].phase = "walk"
      /\ task' = [task EXCEPT ![s].phase = "verdict", ![s].current = p,
                              ![s].file = disk[p], ![s].verdicts = flagging,
                              ![s].todo = @ \ {p}]
      /\ suspected' = IF flagging = {} THEN suspected ELSE suspected \cup {p}
      /\ \/ disk' = disk
         \/ /\ "microsoft_defender" \in flagging
            /\ disk' = [disk EXCEPT ![p] = Absent]
      /\ UNCHANGED <<vault, born>>

QuarantineFile_Variant(p, ok) ==
  \* A bug: the file is copied, and left where it was.
  /\ vault' = IF ok THEN [vault EXCEPT ![p] = disk[p]] ELSE vault
  /\ UNCHANGED disk

(* quarantine_file: a rename, which replaces what an earlier file of the     *)
(* same path left in quarantine; ok is whether it succeeds.                  *)
QuarantineFile(p, ok) ==
  /\ vault' = IF ok THEN [vault EXCEPT ![p] = disk[p]] ELSE vault
  /\ disk' = IF ok THEN [disk EXCEPT ![p] = Absent] ELSE disk

(* The scan goes on with the verdicts: scan_directory asks for quarantine    *)
(* once per flagging engine, and run_scan counts every such entry as a       *)
(* threat and as quarantined, moved or not; a file target counts once.       *)
ActOnVerdicts ==
  \E s \in Scans, ok \in BOOLEAN :
    LET t == task[s]
        p == t.current
        hits == CASE t.kind = "directory" -> Cardinality(t.verdicts)
                  [] t.kind = "file" -> IF t.verdicts = {} THEN 0 ELSE 1
                  [] t.kind = "look" -> 0
    IN /\ t.phase = "verdict"
       /\ ok => hits > 0 /\ disk[p] # Absent
       /\ QuarantineFile(p, ok)
       /\ task' = [task EXCEPT ![s].phase = "walk",
            ![s].scanned = @ + 1, ![s].threats = @ + hits,
            ![s].entries = IF hits = 0 THEN @
              ELSE @ \cup {[path |-> p, file |-> t.file, moved |-> ok]}]
       /\ UNCHANGED <<born, suspected>>

FinishScan ==
  \E s \in Scans :
    /\ task[s].phase = "walk" /\ task[s].todo = {}
    /\ task' = [task EXCEPT ![s].phase = "done"]
    /\ UNCHANGED <<disk, vault, born, suspected>>

(* The quarantine route: no engine is asked.                                 *)
QuarantineRequest ==
  \E p \in Paths :
    /\ disk[p] # Absent
    /\ QuarantineFile(p, TRUE)
    /\ UNCHANGED <<born, task, suspected>>

ScanNext ==
  \/ FileAppears
  \/ StartDirectoryScan
  \/ StartFileScan
  \/ ScanMultiEngine
  \/ ActOnVerdicts
  \/ FinishScan
  \/ QuarantineRequest

---------------------------------------------------------------------------
(* An entry that names a quarantine path is true of the file that was        *)
(* scanned: that very file is no longer in the directory, though another     *)
(* scan, a request, Defender or a new download of the same name may have     *)
(* come between the verdict and the move.                                    *)
QuarantinedIsGone ==
  \A s \in Scans : \A e \in task[s].entries :
    e.moved /\ e.file # Absent => disk[e.path] # e.file

---------------------------------------------------------------------------
(* The schedule table and the daemon of core_engine/automated_scanner.py     *)
(* behind gateway/routes/scanner.py.                                         *)

CONSTANTS ScanIds  \* ids the requests name, the two default ones among them

Defaults == {"daily_downloads", "weekly_full"}

VARIABLES scheduled,  \* the keys of _scheduled_scans
          running,    \* _running
          daemon,     \* the start_daemon coroutine: none, asleep, over or dead
          created     \* coroutines the start route created and never awaited

scheduleVars == <<scheduled, running, daemon, created>>

ScheduleInit ==
  /\ scheduled = Defaults
  /\ running = FALSE
  /\ daemon = "none"
  /\ created = 0

AddScheduledScan ==
  \E id \in ScanIds :
    /\ scheduled' = scheduled \cup {id}
    /\ UNCHANGED <<running, daemon, created>>

RemoveScheduledScan ==
  \E id \in ScanIds :
    /\ scheduled' = scheduled \ {id}
    /\ UNCHANGED <<running, daemon, created>>

(* The start route calls start_daemon without awaiting it: a coroutine is    *)
(* made and dropped, nothing of it runs.                                     *)
StartDaemonRoute ==
  /\ created < 1
  /\ created' = created + 1
  /\ UNCHANGED <<scheduled, running, daemon>>

(* A round of start_daemon looks at every enabled scan and parses the        *)
(* schedule's NAME as a date: with a scan in the table it raises.            *)
Round == IF scheduled = {} THEN "asleep" ELSE "dead"

(* A program that embeds the scanner awaits start_daemon.                    *)
AwaitDaemon ==
  /\ daemon # "asleep"
  /\ running' = TRUE
  /\ daemon' = Round
  /\ UNCHANGED <<scheduled, created>>

(* Sixty seconds later the loop tests _running, and goes round or ends.      *)
Wake ==
  /\ daemon = "asleep"
  /\ daemon' = IF running THEN Round ELSE "over"
  /\ UNCHANGED <<scheduled, running, created>>

StopDaemon ==
  /\ running' = FALSE
  /\ UNCHANGED <<scheduled, daemon, created>>

ScheduleNext ==
  \/ AddScheduledScan
  \/ RemoveScheduledScan
  \/ StartDaemonRoute
  \/ AwaitDaemon
  \/ Wake
  \/ StopDaemon
===============================================================================
