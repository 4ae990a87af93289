--------------------------- MODULE JobProcessProofs ---------------------------
(***************************************************************************)
(* Theorems about JobProcess: for a pipe of any capacity and any number of *)
(* messages read per poll.                                                 *)
(***************************************************************************)
EXTENDS JobProcess, SequenceTheorems, TLAPS

Messages == {"log"} \cup Outcomes

TypeOK ==
  /\ child \in {"loading", "swapping", "recording", "sending", "closing", "gone"}
  /\ ending \in {"none"} \cup Outcomes
  /\ target \in {"as it was", "partly", "loaded"}
  /\ record \in {"not tried", "recorded", "not recorded"}
  /\ pipe \in Seq(Messages)
  /\ parent \in {"idle", "read", "decide", "join", "alive?", "deadline?", "drain",
                 "terminate", "grace", "over", "stopped"}
  /\ budget \in Nat
  /\ held \in {"none"} \cup Outcomes
  /\ why \in {"", "late", "lingers", "raised"}
  /\ verdict \in {"none"} \cup Outcomes
  /\ run \in {"alive", "killed"}

LEMMA TypesKept ==
  ASSUME TypeOK, UNCHANGED <<ending, target, record, parent, budget, held, why, verdict>>,
         child' \in {"loading", "swapping", "recording", "sending", "closing", "gone"},
         pipe' \in Seq(Messages), run' \in {"alive", "killed"}
  PROVE  TypeOK'
<1>1. /\ ending' \in {"none"} \cup Outcomes
      /\ target' \in {"as it was", "partly", "loaded"}
      /\ record' \in {"not tried", "recorded", "not recorded"}
  BY DEF TypeOK
<1>2. /\ parent' \in {"idle", "read", "decide", "join", "alive?", "deadline?", "drain",
                      "terminate", "grace", "over", "stopped"}
      /\ budget' \in Nat
      /\ held' \in {"none"} \cup Outcomes
  BY DEF TypeOK
<1>3. why' \in {"", "late", "lingers", "raised"} /\ verdict' \in {"none"} \cup Outcomes
  BY DEF TypeOK
<1> QED
  BY <1>1, <1>2, <1>3, Zenon DEF TypeOK

(* What the job's process has done by each of its statements.              *)
ChildInv ==
  /\ child \in {"loading", "swapping", "recording"} => record = "not tried"
  /\ child = "recording" => ending = "completed" /\ target = "loaded"
  /\ child \in {"sending", "closing"} => ending \in Outcomes
  /\ child = "sending" /\ ending = "completed" => target = "loaded" /\ record # "not tried"
  /\ record # "not tried" => target = "loaded"

(* The outcome is sent last and once, is what the process came to, and is  *)
(* in the pipe or held, never in both.                                     *)
OutcomeInv ==
  /\ \A i \in 1..Len(pipe) : pipe[i] # "log" => i = Len(pipe) /\ pipe[i] = ending
  /\ held # "none" => pipe = <<>> /\ held = ending
  /\ SentOutcomes # {} => child \in {"closing", "gone"}
  /\ child = "closing" => ending \in SentOutcomes
  /\ "completed" \in SentOutcomes => target = "loaded" /\ record # "not tried"

(* What poll and stop know by each of their statements.                    *)
ParentInv ==
  /\ parent \in {"idle", "alive?", "deadline?"} => held = "none"
  /\ parent = "join" \/ why = "lingers" => held # "none"
  /\ parent \in {"terminate", "grace", "stopped"} => why # ""
  /\ parent = "stopped" <=> why = "raised" /\ Reported
  /\ why # "" => parent \in {"terminate", "grace", "over", "stopped"}
  /\ overdue \/ why = "late" => late
  /\ closed \/ parent = "drain" \/ Reported => ~Alive
  /\ closed /\ why = "" => pipe = <<>>
  /\ parent = "over" /\ why = "" => pipe = <<>>
  /\ ~Reported => verdict = "none"
  /\ verdict = "completed" => held = "completed"
  /\ parent = "over" /\ why = "" /\ held # "none" => verdict = held

IInv == TypeOK /\ ChildInv /\ OutcomeInv /\ ParentInv

-------------------------------------------------------------------------------
(* The pipe *)

LEMMA NoneSent ==
  ASSUME TypeOK, SentOutcomes = {}
  PROVE  held = "none" /\ \A i \in 1..Len(pipe) : pipe[i] = "log"
<1>1. \A i \in 1..Len(pipe) : pipe[i] \in {"log"} \cup Outcomes
  BY ElementOfSeq DEF TypeOK, Messages
<1>2. \A o \in Outcomes : o # held /\ \A i \in 1..Len(pipe) : pipe[i] # o
  BY DEF SentOutcomes
<1> QED
  BY <1>1, <1>2 DEF TypeOK

LEMMA SentUnchanged == UNCHANGED <<pipe, held>> => SentOutcomes' = SentOutcomes
  BY DEF SentOutcomes

LEMMA SentAppended ==
  ASSUME TypeOK, NEW m \in Messages, pipe' = Append(pipe, m), held' = held
  PROVE  /\ pipe' \in Seq(Messages)
         /\ Len(pipe') = Len(pipe) + 1 /\ pipe'[Len(pipe) + 1] = m
         /\ \A i \in 1..Len(pipe) : pipe'[i] = pipe[i]
         /\ SentOutcomes' = SentOutcomes \cup ({m} \cap Outcomes)
<1>1. /\ pipe' \in Seq(Messages)
      /\ Len(pipe') = Len(pipe) + 1 /\ pipe'[Len(pipe) + 1] = m
      /\ \A i \in 1..Len(pipe) : pipe'[i] = pipe[i]
      /\ Len(pipe) \in Nat
  <2>1. pipe \in Seq(Messages)
    BY DEF TypeOK
  <2>2. Len(pipe) \in Nat
    BY <2>1, LenProperties
  <2> QED
    BY <2>1, <2>2, AppendProperties
<1>2. \A i \in 1..Len(pipe') : i \in 1..Len(pipe) \/ i = Len(pipe) + 1
  BY <1>1
<1>3. 1..Len(pipe) \subseteq 1..Len(pipe') /\ Len(pipe) + 1 \in 1..Len(pipe')
  BY <1>1
<1>4. \A o : (\E i \in 1..Len(pipe') : pipe'[i] = o) <=> (o = m \/ \E i \in 1..Len(pipe) : pipe[i] = o)
  BY <1>1, <1>2, <1>3
<1>5. SentOutcomes' = SentOutcomes \cup ({m} \cap Outcomes)
  BY <1>4 DEF SentOutcomes
<1> QED
  BY <1>1, <1>5

LEMMA SentRead ==
  ASSUME TypeOK, OutcomeInv, ReadMessage
  PROVE  /\ pipe' \in Seq(Messages) /\ held' \in {"none"} \cup Outcomes
         /\ Len(pipe') = Len(pipe) - 1
         /\ \A i \in 1..Len(pipe') : i + 1 \in 1..Len(pipe) /\ pipe'[i] = pipe[i + 1]
         /\ held' # "none" => pipe' = <<>> /\ held' = ending
         /\ SentOutcomes' = SentOutcomes
<1>1. /\ pipe' \in Seq(Messages) /\ pipe # <<>> /\ pipe \in Seq(Messages)
      /\ Len(pipe) \in Nat /\ Len(pipe) > 0 /\ Len(pipe') = Len(pipe) - 1
      /\ Head(pipe) = pipe[1] /\ pipe[1] \in Messages
      /\ \A i \in 1..Len(pipe') : i + 1 \in 1..Len(pipe) /\ pipe'[i] = pipe[i + 1]
  <2>1. pipe # <<>> /\ pipe \in Seq(Messages) /\ pipe' = Tail(pipe)
    BY DEF ReadMessage, TypeOK
  <2>2. /\ pipe' \in Seq(Messages) /\ Len(pipe) \in Nat \ {0} /\ Len(pipe') = Len(pipe) - 1
        /\ \A i \in 1..Len(pipe') : pipe'[i] = pipe[i + 1]
    BY <2>1, HeadTailProperties, EmptySeq
  <2>3. 1 \in 1..Len(pipe) /\ \A i \in 1..Len(pipe') : i + 1 \in 1..Len(pipe)
    BY <2>2
  <2>4. Head(pipe) = pipe[1]
    BY <2>1, <2>2
  <2>5. pipe[1] \in Messages
    BY <2>1, <2>3, ElementOfSeq
  <2> QED
    BY <2>1, <2>2, <2>3, <2>4, <2>5
<1>2. held = "none" /\ held' = IF pipe[1] = "log" THEN "none" ELSE pipe[1]
  BY <1>1 DEF ReadMessage, OutcomeInv
<1>3. held' # "none" => pipe' = <<>> /\ held' = ending
  <2> SUFFICES ASSUME held' # "none" PROVE pipe' = <<>> /\ held' = ending
    OBVIOUS
  <2>1. pipe[1] # "log" /\ 1 \in 1..Len(pipe)
    BY <1>1, <1>2
  <2>2. Len(pipe) = 1 /\ pipe[1] = ending
    BY <2>1 DEF OutcomeInv
  <2>3. Len(pipe') = 0
    BY <1>1, <2>2
  <2> QED
    BY <1>1, <1>2, <2>2, <2>3
<1>4. \A o \in Outcomes : (o = held' \/ \E i \in 1..Len(pipe') : pipe'[i] = o) <=> \E i \in 1..Len(pipe) : pipe[i] = o
  <2> SUFFICES ASSUME NEW o \in Outcomes
               PROVE  (o = held' \/ \E i \in 1..Len(pipe') : pipe'[i] = o) <=> \E i \in 1..Len(pipe) : pipe[i] = o
    OBVIOUS
  <2>1. o # "log" /\ o # "none"
    BY DEF Outcomes
  <2>2. o = held' <=> pipe[1] = o
    BY <1>2, <2>1
  <2>3. \A i \in 1..Len(pipe) : i = 1 \/ (i - 1 \in 1..Len(pipe') /\ pipe'[i - 1] = pipe[i])
    BY <1>1
  <2>4. 1 \in 1..Len(pipe)
    BY <1>1
  <2> QED
    BY <1>1, <2>2, <2>3, <2>4
<1>5. SentOutcomes' = SentOutcomes
  <2>1. \A o \in Outcomes : o # held
    BY <1>2 DEF Outcomes
  <2> QED
    BY <1>4, <2>1 DEF SentOutcomes
<1>6. held' \in {"none"} \cup Outcomes
  BY <1>1, <1>2 DEF Messages
<1> QED
  BY <1>1, <1>3, <1>5, <1>6

-------------------------------------------------------------------------------
(* The invariant holds at first, and every step keeps it *)

LEMMA InitInv == Init => IInv
<1> SUFFICES ASSUME Init PROVE IInv
  OBVIOUS
<1>1. pipe = <<>> /\ pipe \in Seq(Messages) /\ Len(pipe) = 0 /\ 1..Len(pipe) = {}
  <2>1. pipe = <<>>
    BY DEF Init
  <2>2. pipe \in Seq(Messages) /\ Len(pipe) = 0
    BY <2>1, EmptySeq
  <2> QED
    BY <2>1, <2>2
<1>2. SentOutcomes = {}
  BY <1>1 DEF SentOutcomes, Outcomes, Init
<1> QED
  BY <1>1, <1>2 DEF IInv, TypeOK, ChildInv, OutcomeInv, ParentInv, Init, Alive, Reported, Outcomes

(* The job's process, but for what it sends. *)
Silent ==
  \/ WriteChunk \/ Load \/ BeginSwap \/ SwapDone \/ LoadFails
  \/ Record \/ Exit \/ Die \/ ExitOrphaned

LEMMA SilentInv == IInv /\ Silent => IInv'
<1> SUFFICES ASSUME IInv, Silent PROVE IInv'
  OBVIOUS
<1>1. /\ UNCHANGED <<pipe, parentVars, late, run>>
      /\ child # "gone"
  BY DEF Silent, WriteChunk, Load, BeginSwap, SwapDone, LoadFails, Record, Exit, Die, ExitOrphaned, Alive
<1> USE DEF Silent, WriteChunk, Load, BeginSwap, SwapDone, LoadFails, Record, Exit, Die, ExitOrphaned
<1>2. TypeOK'
  <2>1. /\ child' \in {"loading", "swapping", "recording", "sending", "closing", "gone"}
        /\ ending' \in {"none"} \cup Outcomes
        /\ target' \in {"as it was", "partly", "loaded"}
        /\ record' \in {"not tried", "recorded", "not recorded"}
        /\ sigterm' = sigterm
    BY DEF IInv, TypeOK, Outcomes, childVars
  <2> QED
    BY <1>1, <2>1 DEF IInv, TypeOK, parentVars
<1>3. ChildInv'
  BY DEF IInv, TypeOK, ChildInv, Outcomes
<1>4. OutcomeInv'
  <2>1. SentOutcomes' = SentOutcomes /\ UNCHANGED <<pipe, held>>
    BY <1>1, SentUnchanged DEF parentVars
  <2>2. /\ child' \notin {"closing", "gone"} => child \notin {"closing", "gone"}
        /\ child' = "closing" => child = "closing" /\ UNCHANGED ending
        /\ ending' # ending => child \notin {"closing", "gone"}
        /\ child \in {"closing", "gone"} => UNCHANGED <<target, record>>
    BY DEF IInv, TypeOK, Alive
  <2>3. SentOutcomes = {} => held = "none" /\ \A k \in 1..Len(pipe) : pipe[k] = "log"
    BY NoneSent DEF IInv
  <2> HIDE DEF Silent
  <2>4. CASE SentOutcomes = {}
    BY <2>1, <2>2, <2>3, <2>4 DEF IInv, OutcomeInv
  <2>5. CASE SentOutcomes # {}
    BY <2>1, <2>2, <2>5 DEF IInv, OutcomeInv
  <2> QED
    BY <2>4, <2>5
<1>5. ParentInv'
  <2> HIDE DEF Silent
  <2> QED
    BY <1>1 DEF IInv, ParentInv, parentVars, Reported, Alive
<1> QED
  BY <1>2, <1>3, <1>4, <1>5 DEF IInv

LEMMA SendInv == IInv /\ (Log \/ SendOutcome) => IInv'
<1> SUFFICES ASSUME IInv, NEW m \in Messages, pipe' = Append(pipe, m),
                    \/ Log /\ m = "log"
                    \/ SendOutcome /\ m = ending
             PROVE  IInv'
  BY DEF Log, SendOutcome, IInv, TypeOK, ChildInv, Messages
<1>1. /\ pipe' \in Seq(Messages)
      /\ Len(pipe') = Len(pipe) + 1 /\ pipe'[Len(pipe) + 1] = m
      /\ \A i \in 1..Len(pipe) : pipe'[i] = pipe[i]
      /\ SentOutcomes' = SentOutcomes \cup ({m} \cap Outcomes)
  BY SentAppended DEF IInv, Log, SendOutcome, parentVars
<1>2. /\ UNCHANGED <<ending, target, record, sigterm, parentVars, late, run>>
      /\ child \in {"loading", "sending"} /\ child' = IF m = "log" THEN child ELSE "closing"
      /\ m = "log" => child = "loading"
      /\ m # "log" => child = "sending" /\ m = ending
  BY DEF Log, SendOutcome, childVars, IInv, ChildInv, Outcomes
<1>3. SentOutcomes = {} /\ held = "none" /\ \A i \in 1..Len(pipe) : pipe[i] = "log"
  <2>1. SentOutcomes = {}
    BY <1>2 DEF IInv, OutcomeInv
  <2> QED
    BY <2>1, NoneSent DEF IInv
<1>4. TypeOK'
  <2>1. child' \in {"loading", "swapping", "recording", "sending", "closing", "gone"}
    BY <1>2
  <2>2. TypeOK /\ UNCHANGED <<ending, target, record, parent, budget, held, why, verdict, run>>
    BY <1>2 DEF IInv, parentVars
  <2>3. pipe' \in Seq(Messages)
    BY <1>1
  <2> QED
    BY <2>1, <2>2, <2>3, TypesKept DEF TypeOK
<1>5. ChildInv'
  BY <1>2 DEF IInv, ChildInv
<1>6. OutcomeInv'
  <2>1. \A i \in 1..Len(pipe') : i \in 1..Len(pipe) \/ i = Len(pipe')
    <3>1. Len(pipe) \in Nat
      BY LenProperties DEF IInv, TypeOK
    <3> QED
      BY <1>1, <3>1
  <2>2. \A i \in 1..Len(pipe') : pipe'[i] # "log" => i = Len(pipe') /\ pipe'[i] = ending'
    BY <1>1, <1>2, <1>3, <2>1
  <2>3. held' = "none"
    BY <1>2, <1>3 DEF parentVars
  <2>4. m = "log" => SentOutcomes' = {} /\ child' # "closing"
    BY <1>1, <1>2, <1>3 DEF Outcomes
  <2>5. m # "log" => SentOutcomes' = {ending} /\ child' = "closing"
    BY <1>1, <1>2, <1>3 DEF IInv, ChildInv
  <2> QED
    BY <1>2, <2>2, <2>3, <2>4, <2>5 DEF OutcomeInv, IInv, ChildInv
<1>7. ParentInv'
  BY <1>2 DEF IInv, ParentInv, parentVars, Alive, Reported
<1> QED
  BY <1>4, <1>5, <1>6, <1>7 DEF IInv

LEMMA ReadInv == IInv /\ ReadMessage => IInv'
<1> SUFFICES ASSUME IInv, ReadMessage PROVE IInv'
  OBVIOUS
<1>1. /\ pipe' \in Seq(Messages) /\ held' \in {"none"} \cup Outcomes
      /\ Len(pipe') = Len(pipe) - 1
      /\ \A i \in 1..Len(pipe') : i + 1 \in 1..Len(pipe) /\ pipe'[i] = pipe[i + 1]
      /\ held' # "none" => pipe' = <<>> /\ held' = ending
      /\ SentOutcomes' = SentOutcomes
  BY SentRead DEF IInv
<1>2. /\ UNCHANGED <<childVars, parent, overdue, closed, why, verdict, late, run>>
      /\ parent \in {"read", "drain"} /\ ~closed
  BY DEF ReadMessage, Reading
<1>3. budget' \in Nat
  <2>1. budget \in Nat
    BY DEF IInv, TypeOK
  <2>2. budget' = budget \/ (budget > 0 /\ budget' = budget - 1)
    BY DEF ReadMessage
  <2> QED
    BY <2>1, <2>2
<1>4. TypeOK'
  BY <1>1, <1>2, <1>3, ZenonT(30) DEF IInv, TypeOK, childVars
<1>5. ChildInv'
  BY <1>2 DEF IInv, ChildInv, childVars
<1>6. OutcomeInv'
  <2>1. Len(pipe) \in Nat /\ Len(pipe') \in Nat
    BY <1>1, LenProperties DEF IInv, TypeOK
  <2>2. \A i \in 1..Len(pipe) : pipe[i] # "log" => i = Len(pipe) /\ pipe[i] = ending
    BY DEF IInv, OutcomeInv
  <2>3. \A i \in 1..Len(pipe') : pipe'[i] # "log" => i = Len(pipe') /\ pipe'[i] = ending
    BY <1>1, <2>1, <2>2
  <2> QED
    BY <1>1, <1>2, <2>3 DEF IInv, OutcomeInv, childVars
<1>7. ParentInv'
  BY <1>1, <1>2 DEF IInv, ParentInv, childVars, Alive, Reported
<1> QED
  BY <1>4, <1>5, <1>6, <1>7 DEF IInv

(* poll and stop, but for the messages read. *)
Looks ==
  \/ BeginPoll \/ ReadEnd \/ ReadDone \/ Decide \/ Joined \/ Lingers \/ LooksDead \/ LooksAlive
  \/ IsLate \/ StillRunning \/ Drained \/ StopForRaise \/ Terminate \/ TerminatedInTime \/ Kill

LEMMA LooksInv == IInv /\ Looks => IInv'
<1> SUFFICES ASSUME IInv, Looks PROVE IInv'
  OBVIOUS
<1>1. SentOutcomes' = SentOutcomes /\ UNCHANGED <<pipe, held, ending, target, record, late, run>>
  BY SentUnchanged DEF Looks, BeginPoll, ReadEnd, ReadDone, Decide, Joined, Lingers, LooksDead, LooksAlive, IsLate, StillRunning,
                       Drained, StopForRaise, Terminate, TerminatedInTime, Kill, Stopped, childVars
<1>2. (child' = child \/ child' = "gone")
  BY DEF Looks, BeginPoll, ReadEnd, ReadDone, Decide, Joined, Lingers, LooksDead, LooksAlive, IsLate, StillRunning,
         Drained, StopForRaise, Terminate, TerminatedInTime, Kill, Stopped, childVars, IInv, TypeOK
<1>3. ChildInv' /\ OutcomeInv'
  BY <1>1, <1>2 DEF IInv, ChildInv, OutcomeInv
<1>p. TypeOK /\ ParentInv
  BY DEF IInv
<1> USE DEF TypeOK, ParentInv, Reported, Alive, childVars, Outcomes
<1>4. CASE BeginPoll
  <2>1. TypeOK'
    BY <1>1, <1>2, <1>p, <1>4, PerPollAssumption DEF BeginPoll
  <2>2. ParentInv'
    BY <1>p, <1>4 DEF BeginPoll
  <2> QED
    BY <1>3, <2>1, <2>2 DEF IInv
<1>5. CASE ReadEnd
  <2>1. TypeOK'
    BY <1>1, <1>2, <1>p, <1>5 DEF ReadEnd
  <2>2. ParentInv'
    BY <1>p, <1>5 DEF ReadEnd
  <2> QED
    BY <1>3, <2>1, <2>2 DEF IInv
<1>6. CASE ReadDone
  <2>1. TypeOK'
    BY <1>1, <1>2, <1>p, <1>6, ZenonT(30) DEF ReadDone
  <2>2. ParentInv'
    BY <1>p, <1>6 DEF ReadDone
  <2> QED
    BY <1>3, <2>1, <2>2 DEF IInv
<1>7. CASE Decide
  <2>1. TypeOK'
    BY <1>1, <1>2, <1>p, <1>7 DEF Decide
  <2>2. ParentInv'
    BY <1>p, <1>7 DEF Decide
  <2> QED
    BY <1>3, <2>1, <2>2 DEF IInv
<1>8. CASE Joined
  <2>1. TypeOK'
    BY <1>1, <1>2, <1>p, <1>8 DEF Joined
  <2>2. ParentInv'
    BY <1>p, <1>8 DEF Joined
  <2> QED
    BY <1>3, <2>1, <2>2 DEF IInv
<1>9. CASE Lingers
  <2>1. TypeOK'
    BY <1>1, <1>2, <1>p, <1>9 DEF Lingers
  <2>2. ParentInv'
    BY <1>p, <1>9 DEF Lingers
  <2> QED
    BY <1>3, <2>1, <2>2 DEF IInv
<1>10. CASE LooksDead
  <2>1. TypeOK'
    BY <1>1, <1>2, <1>p, <1>10 DEF LooksDead
  <2>2. ParentInv'
    BY <1>p, <1>10 DEF LooksDead
  <2> QED
    BY <1>3, <2>1, <2>2 DEF IInv
<1>11. CASE LooksAlive
  <2>1. TypeOK'
    BY <1>1, <1>2, <1>p, <1>11 DEF LooksAlive
  <2>2. ParentInv'
    BY <1>p, <1>11 DEF LooksAlive
  <2> QED
    BY <1>3, <2>1, <2>2 DEF IInv
<1>12. CASE IsLate
  <2>1. TypeOK'
    BY <1>1, <1>2, <1>p, <1>12 DEF IsLate
  <2>2. ParentInv'
    BY <1>p, <1>12 DEF IsLate
  <2> QED
    BY <1>3, <2>1, <2>2 DEF IInv
<1>13. CASE StillRunning
  <2>1. TypeOK'
    BY <1>1, <1>2, <1>p, <1>13 DEF StillRunning
  <2>2. ParentInv'
    BY <1>p, <1>13 DEF StillRunning
  <2> QED
    BY <1>3, <2>1, <2>2 DEF IInv
<1>14. CASE Drained
  <2>1. TypeOK'
    BY <1>1, <1>2, <1>p, <1>14 DEF Drained
  <2>2. ParentInv'
    BY <1>p, <1>14 DEF Drained
  <2> QED
    BY <1>3, <2>1, <2>2 DEF IInv
<1>15. CASE StopForRaise
  <2>1. TypeOK'
    BY <1>1, <1>2, <1>p, <1>15 DEF StopForRaise
  <2>2. ParentInv'
    BY <1>p, <1>15 DEF StopForRaise
  <2> QED
    BY <1>3, <2>1, <2>2 DEF IInv
<1>16. CASE Terminate
  <2>1. TypeOK'
    BY <1>1, <1>2, <1>p, <1>16 DEF Terminate
  <2>2. ParentInv'
    BY <1>p, <1>16 DEF Terminate
  <2> QED
    BY <1>3, <2>1, <2>2 DEF IInv
<1>17. CASE TerminatedInTime
  <2>1. TypeOK'
    BY <1>1, <1>2, <1>p, <1>17 DEF TerminatedInTime, Stopped
  <2>2. ParentInv'
    BY <1>p, <1>17 DEF TerminatedInTime, Stopped
  <2> QED
    BY <1>3, <2>1, <2>2 DEF IInv
<1>18. CASE Kill
  <2>1. TypeOK'
    BY <1>1, <1>2, <1>p, <1>18 DEF Kill, Stopped
  <2>2. ParentInv'
    BY <1>p, <1>18 DEF Kill, Stopped
  <2> QED
    BY <1>3, <2>1, <2>2 DEF IInv
<1> QED
  BY <1>4, <1>5, <1>6, <1>7, <1>8, <1>9, <1>10, <1>11, <1>12, <1>13, <1>14, <1>15, <1>16, <1>17, <1>18 DEF Looks

LEMMA StepInv == IInv /\ [Next]_vars => IInv'
<1> SUFFICES ASSUME IInv, [Next]_vars PROVE IInv'
  OBVIOUS
<1>1. CASE Silent
  BY <1>1, SilentInv
<1>2. CASE Log \/ SendOutcome
  BY <1>2, SendInv
<1>3. CASE ReadMessage
  BY <1>3, ReadInv
<1>4. CASE Looks
  BY <1>4, LooksInv
<1>5. CASE DeadlinePasses \/ RunIsKilled \/ UNCHANGED vars
  <2>1. UNCHANGED <<childVars, pipe, parentVars>> /\ (late' = late \/ late' = TRUE) /\ run' \in {"alive", "killed"}
    BY <1>5 DEF DeadlinePasses, RunIsKilled, vars, IInv, TypeOK
  <2>2. SentOutcomes' = SentOutcomes
    BY <2>1, SentUnchanged DEF parentVars
  <2>3. TypeOK' /\ ChildInv' /\ OutcomeInv'
    <3>1. TypeOK /\ ChildInv /\ OutcomeInv
      BY DEF IInv
    <3>2. TypeOK'
      <4>1. UNCHANGED <<child, ending, target, record, pipe, parent, budget, held, why, verdict>>
        BY <2>1 DEF parentVars, childVars
      <4>2. run' \in {"alive", "killed"}
        BY <2>1
      <4> QED
        BY <3>1, <4>1, <4>2, TypesKept DEF TypeOK
    <3> QED
      BY <2>1, <2>2, <3>1, <3>2 DEF parentVars, childVars, ChildInv, OutcomeInv
  <2>4. ParentInv'
    <3>1. ParentInv
      BY DEF IInv
    <3>2. (overdue' \/ why' = "late" => late') /\ UNCHANGED <<parent, child, held, closed, pipe, why, verdict>>
      BY <2>1, <3>1 DEF ParentInv, parentVars, childVars
    <3> QED
      BY <3>1, <3>2 DEF ParentInv, Alive, Reported
  <2> QED
    BY <2>3, <2>4 DEF IInv
<1> QED
  BY <1>1, <1>2, <1>3, <1>4, <1>5 DEF Next, ChildStep, PollStep, Silent, Looks

LEMMA Invariance == Spec => []IInv
  BY InitInv, StepInv, PTL DEF Spec

-------------------------------------------------------------------------------
(* The properties *)

(* What was sent before the process died is read before it is reported.    *)
THEOREM SentIsReported == Spec => []NothingSentIsLost
<1>1. IInv => NothingSentIsLost
  BY DEF IInv, ParentInv, NothingSentIsLost
<1> QED
  BY <1>1, Invariance, PTL

(* Completion is reported of loads that are committed and were recorded,   *)
(* if they could be.                                                       *)
THEOREM CompletedWasRecorded == Spec => []CompletionFollowsRecord
<1>1. IInv => CompletionFollowsRecord
  <2> SUFFICES ASSUME IInv PROVE CompletionFollowsRecord
    OBVIOUS
  <2>1. held = "completed" => "completed" \in SentOutcomes
    BY DEF SentOutcomes, Outcomes
  <2> QED
    BY <2>1 DEF IInv, ChildInv, OutcomeInv, ParentInv, CompletionFollowsRecord
<1> QED
  BY <1>1, Invariance, PTL

(* A job reported or stopped does nothing more: its process is gone, and   *)
(* nobody reads its pipe.                                                  *)
THEOREM ReportedIsSilent == Spec => SilentOnceReported
<1>1. IInv /\ [Next]_vars => [Reported => UNCHANGED <<target, record, pipe>>]_vars
  <2> SUFFICES ASSUME IInv, Next, Reported PROVE UNCHANGED <<target, record, pipe>>
    OBVIOUS
  <2>1. child = "gone" /\ parent \in {"over", "stopped"}
    BY DEF IInv, ParentInv, Reported, Alive
  <2> QED
    BY <2>1 DEF Next, ChildStep, PollStep, Log, WriteChunk, Load, BeginSwap, SwapDone, LoadFails, Record, SendOutcome,
                Exit, Die, ExitOrphaned, Alive, BeginPoll, ReadMessage, Reading, ReadEnd, ReadDone, Decide, Joined, Lingers,
                LooksDead, LooksAlive, IsLate, StillRunning, Drained, StopForRaise, Terminate, TerminatedInTime, Kill,
                DeadlinePasses, RunIsKilled, childVars
<1> QED
  BY <1>1, Invariance, PTL DEF Spec, SilentOnceReported

-------------------------------------------------------------------------------
(* The loop's picture of the process *)

Proc ==
  IF Reported THEN "gone"
  ELSE IF "completed" \in SentOutcomes THEN "sent completed"
  ELSE IF "failed" \in SentOutcomes THEN "sent failed"
  ELSE IF ~Alive THEN "died"
  ELSE "working"

LEMMA ProcValues == Proc \in {"working", "died", "gone"} \cup Slot!Sent
  BY DEF Proc, Slot!Sent

(* One outcome at most was sent, so the picture tells which. *)
LEMMA OneOutcome == IInv => \A o \in SentOutcomes : o = ending
<1> SUFFICES ASSUME IInv, NEW o \in SentOutcomes PROVE o = ending
  OBVIOUS
<1>1. o \in Outcomes /\ (o = held \/ \E i \in 1..Len(pipe) : pipe[i] = o)
  BY DEF SentOutcomes
<1>2. o # "log" /\ o # "none"
  BY <1>1 DEF Outcomes
<1> QED
  BY <1>1, <1>2 DEF IInv, OutcomeInv

LEMMA ProcOfSent ==
  ASSUME IInv, ~Reported, SentOutcomes # {}
  PROVE  Proc \in Slot!Sent /\ Slot!OutcomeSent(Proc) = ending
<1>1. ending \in Outcomes /\ SentOutcomes = {ending}
  BY OneOutcome DEF SentOutcomes
<1> QED
  BY <1>1 DEF Proc, Slot!Sent, Slot!OutcomeSent, Outcomes

LEMMA SlotInit == Init => Slot!Init
<1> SUFFICES ASSUME Init PROVE Slot!Init
  OBVIOUS
<1>1. pipe = <<>> /\ Len(pipe) = 0
  <2>1. pipe = <<>>
    BY DEF Init
  <2> QED
    BY <2>1, EmptySeq
<1>2. SentOutcomes = {}
  <2>1. held = "none"
    BY DEF Init
  <2>2. "none" \notin Outcomes
    BY DEF Outcomes
  <2>3. \A i \in 1..Len(pipe) : FALSE
    BY <1>1
  <2>4. \A o \in Outcomes : ~(o = held \/ \E i \in 1..Len(pipe) : pipe[i] = o)
    BY <2>1, <2>2, <2>3
  <2> QED
    BY <2>4 DEF SentOutcomes
<1> QED
  BY <1>2 DEF Slot!Init, Init, Reported, Alive

(* What a step may change, and the step of the picture it then is. *)
LEMMA Ends ==
  ASSUME Proc = "working", Proc' \in Slot!Sent \cup {"died"}, UNCHANGED <<late, verdict>>
  PROVE  Slot!Ends
  BY DEF Slot!Ends, Proc

LEMMA Stutters ==
  ASSUME UNCHANGED <<Proc, late, verdict>>
  PROVE  UNCHANGED Slot!vars
  BY DEF Slot!vars, Proc

LEMMA ChildSlot ==
  ASSUME IInv, IInv', Silent \/ Log \/ SendOutcome
  PROVE  [Slot!Next]_Slot!vars
<1>1. UNCHANGED <<late, verdict>> /\ Reported' = Reported /\ child # "gone"
  BY DEF Silent, WriteChunk, Load, BeginSwap, SwapDone, LoadFails, Record, Exit, Die, ExitOrphaned, Log, SendOutcome,
         Alive, Reported, parentVars
<1>2. SentOutcomes \subseteq SentOutcomes'
  <2>1. CASE Silent
    <3>1. UNCHANGED <<pipe, held>>
      BY <2>1 DEF Silent, WriteChunk, Load, BeginSwap, SwapDone, LoadFails, Record, Exit, Die, ExitOrphaned, parentVars
    <3> QED
      BY <3>1, SentUnchanged
  <2>2. CASE Log \/ SendOutcome
    <3>1. PICK m \in Messages : pipe' = Append(pipe, m) /\ held' = held
      BY <2>2 DEF Log, SendOutcome, parentVars, IInv, TypeOK, ChildInv, Messages
    <3> QED
      BY <3>1, SentAppended DEF IInv
  <2> QED
    BY <2>1, <2>2
<1>3. CASE Reported
  BY <1>1, <1>3, Stutters DEF Proc
<1>4. CASE ~Reported /\ SentOutcomes # {}
  <2>1. SentOutcomes' = SentOutcomes
    <3>1. SentOutcomes \subseteq Outcomes /\ SentOutcomes' \subseteq Outcomes
      BY DEF SentOutcomes
    <3>2. \A o \in SentOutcomes' : o = ending'
      <4> SUFFICES ASSUME NEW o \in SentOutcomes' PROVE o = ending'
        OBVIOUS
      <4>1. o \in Outcomes /\ (o = held' \/ \E i \in 1..Len(pipe') : pipe'[i] = o)
        BY DEF SentOutcomes
      <4>2. o # "log" /\ o # "none"
        BY <4>1 DEF Outcomes
      <4> QED
        BY <4>1, <4>2 DEF IInv, OutcomeInv
    <3> QED
      BY <1>2, <1>4, <3>2
  <2>2. Proc' = Proc
    <3>1. "completed" \in SentOutcomes \/ "failed" \in SentOutcomes
      BY <1>4 DEF SentOutcomes, Outcomes
    <3> QED
      BY <1>1, <1>4, <2>1, <3>1 DEF Proc
  <2> QED
    BY <1>1, <2>2, Stutters
<1>5. CASE ~Reported /\ SentOutcomes = {}
  <2>1. Proc = "working"
    BY <1>1, <1>5 DEF Proc, Alive
  <2>2. Proc' \in {"working", "died"} \cup Slot!Sent
    BY <1>1, <1>5 DEF Proc, Slot!Sent
  <2>3. CASE Proc' = "working"
    BY <1>1, <2>1, <2>3, Stutters
  <2>4. CASE Proc' # "working"
    BY <1>1, <2>1, <2>2, <2>4, Ends DEF Slot!Next
  <2> QED
    BY <2>3, <2>4
<1> QED
  BY <1>3, <1>4, <1>5

(* Reading moves the outcome, and looking changes nothing. *)
Glances ==
  \/ BeginPoll \/ ReadMessage \/ ReadEnd \/ ReadDone \/ Decide \/ Joined \/ Lingers \/ LooksDead \/ LooksAlive
  \/ IsLate \/ StillRunning \/ StopForRaise

LEMMA GlanceSlot ==
  ASSUME IInv, Glances
  PROVE  UNCHANGED Slot!vars
<1>1. UNCHANGED <<late, verdict, child>> /\ ~Reported /\ ~Reported'
  BY DEF Glances, BeginPoll, ReadMessage, ReadEnd, ReadDone, Decide, Joined, Lingers, LooksDead, LooksAlive,
         IsLate, StillRunning, StopForRaise, Reported, Reading, childVars
<1>2. SentOutcomes' = SentOutcomes
  <2>1. CASE ReadMessage
    BY <2>1, SentRead DEF IInv
  <2>2. CASE ~ReadMessage
    BY <2>2, SentUnchanged
       DEF Glances, BeginPoll, ReadEnd, ReadDone, Decide, Joined, Lingers, LooksDead, LooksAlive, IsLate, StillRunning, StopForRaise
  <2> QED
    BY <2>1, <2>2
<1> QED
  BY <1>1, <1>2, Stutters DEF Proc, Alive

LEMMA TerminateSlot ==
  ASSUME IInv, Terminate
  PROVE  [Slot!Next]_Slot!vars
<1>1. UNCHANGED <<late, verdict>> /\ ~Reported /\ ~Reported' /\ (child' = child \/ child' = "gone")
  BY DEF Terminate, Reported
<1>2. SentOutcomes' = SentOutcomes
  BY SentUnchanged DEF Terminate
<1>3. CASE Proc' = Proc
  BY <1>1, <1>3, Stutters
<1>4. CASE Proc' # Proc
  <2>1. Proc = "working" /\ Proc' = "died"
    BY <1>1, <1>2, <1>4 DEF Proc, Alive
  <2> QED
    BY <1>1, <2>1, Ends DEF Slot!Next
<1> QED
  BY <1>3, <1>4

LEMMA ReportSlot ==
  ASSUME IInv, Drained \/ TerminatedInTime \/ Kill
  PROVE  Slot!Next
<1>1. ~Reported /\ Reported' /\ UNCHANGED <<late, held, pipe>> /\ verdict = "none"
  BY DEF Drained, TerminatedInTime, Kill, Stopped, Reported, IInv, ParentInv
<1>2. Proc' = "gone"
  BY <1>1 DEF Proc
<1>3. held # "none" => Proc \in Slot!Sent /\ Slot!OutcomeSent(Proc) = held
  <2>1. held # "none" => held \in SentOutcomes /\ held = ending
    BY DEF SentOutcomes, IInv, TypeOK, OutcomeInv
  <2> QED
    BY <1>1, <2>1, ProcOfSent
<1>4. CASE Drained
  <2>1. CASE held # "none"
    <3>1. verdict' = held
      BY <1>4, <2>1 DEF Drained
    <3> QED
      BY <1>1, <1>2, <1>3, <2>1, <3>1 DEF Slot!Next, Slot!ReportOutcome, Proc
  <2>2. CASE held = "none"
    <3>1. pipe = <<>> /\ ~Alive
      BY <1>4 DEF Drained, IInv, ParentInv
    <3>2. SentOutcomes = {}
      <4>1. Len(pipe) = 0
        BY <3>1, EmptySeq
      <4> QED
        BY <2>2, <4>1 DEF SentOutcomes, Outcomes
    <3>3. Proc = "died" /\ verdict' = "failed"
      BY <1>1, <1>4, <2>2, <3>1, <3>2 DEF Proc, Drained
    <3> QED
      BY <1>1, <1>2, <3>3 DEF Slot!Next, Slot!ReportDeath, Proc
  <2> QED
    BY <2>1, <2>2
<1>5. CASE TerminatedInTime \/ Kill
  <2>1. why \in {"late", "lingers", "raised"} /\ verdict' = CASE why = "late" -> "failed" [] why = "lingers" -> held [] OTHER -> verdict
    BY <1>5 DEF TerminatedInTime, Kill, Stopped, IInv, TypeOK, ParentInv
  <2>2. CASE why = "late"
    <3>1. verdict' = "failed" /\ late
      BY <2>1, <2>2 DEF IInv, ParentInv
    <3>2. Proc \in {"working", "died"} \cup Slot!Sent
      BY <1>1 DEF Proc, Slot!Sent
    <3>3. CASE Proc = "died"
      BY <1>1, <1>2, <3>1, <3>3 DEF Slot!Next, Slot!ReportDeath, Proc
    <3>4. CASE Proc # "died"
      BY <1>1, <1>2, <3>1, <3>2, <3>4 DEF Slot!Next, Slot!ReportLate, Proc
    <3> QED
      BY <3>3, <3>4
  <2>3. CASE why = "lingers"
    <3>1. verdict' = held /\ held # "none"
      BY <2>1, <2>3 DEF IInv, ParentInv
    <3> QED
      BY <1>1, <1>2, <1>3, <3>1 DEF Slot!Next, Slot!ReportOutcome, Proc
  <2>4. CASE why = "raised"
    <3>1. verdict' = verdict
      BY <2>1, <2>4
    <3> QED
      BY <1>1, <1>2, <3>1 DEF Slot!Next, Slot!Abandon, Proc
  <2> QED
    BY <2>1, <2>2, <2>3, <2>4
<1> QED
  BY <1>4, <1>5

LEMMA SlotStep == IInv /\ IInv' /\ [Next]_vars => [Slot!Next]_Slot!vars
<1> SUFFICES ASSUME IInv, IInv', [Next]_vars PROVE [Slot!Next]_Slot!vars
  OBVIOUS
<1>1. CASE Silent \/ Log \/ SendOutcome
  BY <1>1, ChildSlot
<1>2. CASE Glances
  BY <1>2, GlanceSlot
<1>3. CASE Terminate
  BY <1>3, TerminateSlot
<1>4. CASE Drained \/ TerminatedInTime \/ Kill
  BY <1>4, ReportSlot
<1>5. CASE DeadlinePasses
  <2>1. late' = TRUE /\ UNCHANGED verdict /\ UNCHANGED Proc
    BY <1>5, SentUnchanged DEF DeadlinePasses, Proc, Reported, Alive, childVars, parentVars
  <2> QED
    BY <2>1 DEF Slot!Next, Slot!DeadlinePasses, Proc
<1>6. CASE RunIsKilled \/ UNCHANGED vars
  <2>1. UNCHANGED <<Proc, late, verdict>>
    BY <1>6, SentUnchanged DEF RunIsKilled, vars, Proc, Reported, Alive, childVars, parentVars
  <2> QED
    BY <2>1, Stutters
<1> QED
  BY <1>1, <1>2, <1>3, <1>4, <1>5, <1>6 DEF Next, ChildStep, PollStep, Silent, Glances

(* The loop sees each process work, end and be reported, as RunCycle has   *)
(* it.                                                                     *)
THEOREM ImplementsJobSlot == Spec => IsJobSlot
  BY SlotInit, SlotStep, Invariance, PTL DEF Spec, IsJobSlot, Slot!Spec
===============================================================================
