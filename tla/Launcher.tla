------------------------------- MODULE Launcher -------------------------------
(***************************************************************************)
(* The runs Studio starts (studio/launcher.py), among the other runs of    *)
(* the same run state: the row it keeps of each, the handle it holds of    *)
(* its process, and what its pages make of them once Studio has restarted. *)
(***************************************************************************)
EXTENDS RunState

CONSTANTS
  Launched,    \* the runs that Studio starts
  MaxRestarts  \* bound: Studio's restarts

VARIABLES
  row,       \* [Runs -> what Studio's database says of a run]
  handle,    \* the runs of whose process Studio holds the handle
  starting,  \* the runs that Launcher.start is in the middle of
  reused,    \* the ended runs whose process id another process has now
  restarts

studioVars == <<row, handle, starting, reused, restarts>>
allVars == <<vars, studioVars>>

StudioInit ==
  /\ Init
  /\ row = [r \in Runs |-> "none"]
  /\ handle = {} /\ starting = {} /\ reused = {}
  /\ restarts = 0

Ended(r) == pc[r] \in {"refused", "over", "killed"}

(* Popen: the process is there before Studio has said so. *)
Launch(r) ==
  /\ r \in Launched /\ Start(r)
  /\ starting' = starting \cup {r}
  /\ UNCHANGED <<row, handle, reused, restarts>>

(* The row is committed with the process id, and then the handle is kept.  *)
CommitRow(r) ==
  /\ r \in starting /\ row[r] = "none"
  /\ row' = [row EXCEPT ![r] = "started"]
  /\ UNCHANGED <<vars, handle, starting, reused, restarts>>

KeepHandle(r) ==
  /\ r \in starting /\ row[r] = "started"
  /\ handle' = handle \cup {r}
  /\ starting' = starting \ {r}
  /\ UNCHANGED <<vars, row, reused, restarts>>

(* An ended process is there until it is waited for, by the Studio that    *)
(* started it; later its id may be another's.                              *)
PidAlive(r) == ~Ended(r) \/ r \in starting \cup handle \cup reused

RefreshUnasked(r) ==  \* mutant: a run without a handle is taken to have ended
  /\ row[r] = "started"
  /\ \/ r \in handle /\ Ended(r) /\ row' = [row EXCEPT ![r] = "ended"]
     \/ r \notin handle /\ row' = [row EXCEPT ![r] = "endedUnseen"]
  /\ handle' = handle \ {r}
  /\ UNCHANGED <<vars, starting, reused, restarts>>

RefreshHeld(r) ==  \* mutant: only a run whose handle is held is looked at
  /\ row[r] = "started"
  /\ r \in handle /\ Ended(r) /\ row' = [row EXCEPT ![r] = "ended"]
  /\ handle' = handle \ {r}
  /\ UNCHANGED <<vars, starting, reused, restarts>>

Refresh(r) ==
  /\ row[r] = "started"
  /\ \/ r \in handle /\ Ended(r) /\ row' = [row EXCEPT ![r] = "ended"]
     \/ r \notin handle /\ ~PidAlive(r) /\ row' = [row EXCEPT ![r] = "endedUnseen"]
  /\ handle' = handle \ {r}
  /\ UNCHANGED <<vars, starting, reused, restarts>>

(* The runs, in sessions of their own, go on. *)
Restart ==
  /\ restarts < MaxRestarts
  /\ restarts' = restarts + 1
  /\ handle' = {} /\ starting' = {}
  /\ UNCHANGED <<vars, row, reused>>

ReusePid(r) ==
  /\ Ended(r) /\ r \notin starting \cup handle \cup reused
  /\ reused' = reused \cup {r}
  /\ UNCHANGED <<vars, row, handle, starting, restarts>>

StudioNext ==
  \/ \E r \in Runs : \/ Launch(r) \/ CommitRow(r) \/ KeepHandle(r) \/ Refresh(r) \/ ReusePid(r)
  \/ Restart
  \/ Next /\ UNCHANGED studioVars

(* The pages that show a run are looked at again and again. *)
StudioSpec ==
  /\ StudioInit /\ [][StudioNext]_allVars
  /\ \A r \in Runs : /\ WF_allVars(Progress(r) /\ UNCHANGED studioVars)
                     /\ WF_allVars(CommitRow(r)) /\ WF_allVars(KeepHandle(r)) /\ WF_allVars(Refresh(r))

-------------------------------------------------------------------------------
(* Properties *)

(* A run is shown ended only once it is, however Studio lost its handle.   *)
ShownEndedIsEnded == \A r \in Runs : row[r] \in {"ended", "endedUnseen"} => Ended(r)

(* Every run Studio has a row of ends, or is killed, and is in the end     *)
(* shown so, Studio restarting or not, unless its process id went to       *)
(* another process before a page looked.                                   *)
EndIsShown == \A r \in Runs : row[r] = "started" ~> row[r] \in {"ended", "endedUnseen"} \/ r \in reused
===============================================================================
