------------------------- MODULE ApplicationProofs -------------------------
(***************************************************************************)
(* What a worker does at its end, proved for every number of workers and   *)
(* every bound on the signals, the clock and the changes of the file.      *)
(*                                                                         *)
(* EndsOnce is not inductive: that a worker whose ending is broken off was *)
(* told twice rests on what was pending before.  IInv adds it: a pending   *)
(* signal was counted, the one that made the worker close is no longer     *)
(* pending, so that one pending while it closes is another.                *)
(* StaticFollowsFile speaks of a timer that is idle.  FileInv says what    *)
(* leads there: once the timer has read the file, a change it has missed   *)
(* is dated after the date the timer will note.                            *)
(***************************************************************************)
EXTENDS Application, TLAPS

Phases == {"absent", "booting", "serving", "closing", "gone", "failed", "exited"}

Types ==
    /\ forked \in Nat
    /\ phase \in [Workers -> Phases]
    /\ told \in [Workers -> Nat]
    /\ ended \in [Workers -> Nat]

(* A worker starts once, in the order of the forks.                        *)
StartedInOrder == \A w \in Workers : phase[w] = "absent" <=> w > forked

(* The history of told and ended follows the life of the worker.           *)
HistoryOf(w) ==
    /\ ended[w] = IF phase[w] = "gone" THEN 1 ELSE 0
    /\ w \in pending => told[w] >= 1
    /\ phase[w] = "closing" => told[w] >= 1
    /\ phase[w] = "closing" /\ w \in pending => told[w] >= 2
    /\ phase[w] = "failed" => told[w] >= 2

IInv == Types /\ StartedInOrder /\ \A w \in Workers : HistoryOf(w)

-----------------------------------------------------------------------------
(* Signals sent to any set of workers keep IInv: who becomes pending is    *)
(* counted, and a signal that was handled only helps.                      *)
LEMMA SignalsKeepIInv ==
    ASSUME IInv, NEW STATE ws,
           pending' \subseteq pending \cup {Master} \cup (ws \cap Alive),
           told' = Counted(ws),
           UNCHANGED <<forked, phase, ended>>
    PROVE  IInv'
<1>1. Types'
  BY DEF IInv, Types, Counted
<1>2. StartedInOrder'
  BY DEF IInv, StartedInOrder
<1>3. ASSUME NEW w \in Workers PROVE HistoryOf(w)'
  <2>1. told[w] \in Nat /\ HistoryOf(w)
    BY DEF IInv, Types
  <2>2. told'[w] = IF w \in ws \cap Alive /\ told[w] < 2 THEN told[w] + 1 ELSE told[w]
    BY DEF Counted
  <2>3. told'[w] \in Nat /\ told'[w] >= told[w]
    BY <2>1, <2>2
  <2>4. w \in pending' => w \in pending \/ w \in ws \cap Alive
    BY DEF Master, Workers
  <2>5. w \in ws \cap Alive =>
            told'[w] >= 1 /\ (phase[w] = "closing" => told'[w] >= 2)
    BY <2>1, <2>2 DEF HistoryOf
  <2> QED
    BY <2>1, <2>3, <2>4, <2>5 DEF HistoryOf
<1> QED
  BY <1>1, <1>2, <1>3 DEF IInv

(* A step of one worker w, with no signal sent: what is due of w itself is *)
(* all that has to be shown.                                               *)
LEMMA OwnStepKeepsIInv ==
    ASSUME IInv, NEW w \in Workers, NEW p \in Phases \ {"absent"},
           phase[w] # "absent", pending' \subseteq pending,
           phase' = [phase EXCEPT ![w] = p],
           ended' \in [Workers -> Nat],
           \A v \in Workers \ {w} : ended'[v] = ended[v],
           UNCHANGED <<forked, told>>, HistoryOf(w)'
    PROVE  IInv'
<1>1. Types'
  BY DEF IInv, Types
<1>2. StartedInOrder'
  BY DEF IInv, Types, StartedInOrder
<1>3. ASSUME NEW v \in Workers \ {w} PROVE HistoryOf(v)'
  <2>1. HistoryOf(v) /\ phase'[v] = phase[v] /\ ended'[v] = ended[v] /\ told'[v] = told[v]
    BY DEF IInv, Types
  <2> QED
    BY <2>1 DEF HistoryOf
<1> QED
  BY <1>1, <1>2, <1>3 DEF IInv

-----------------------------------------------------------------------------
LEMMA InitIInv == Init => IInv
<1> SUFFICES ASSUME Init PROVE IInv
  OBVIOUS
<1>1. Types
  BY DEF Init, Types, Phases
<1>2. StartedInOrder
  BY DEF Init, StartedInOrder, Workers
<1>3. ASSUME NEW w \in Workers PROVE HistoryOf(w)
  BY DEF Init, HistoryOf
<1> QED
  BY <1>1, <1>2, <1>3 DEF IInv

LEMMA NextIInv == IInv /\ [Next]_vars => IInv'
<1> SUFFICES ASSUME IInv, [Next]_vars PROVE IInv'
  OBVIOUS
<1>1. ASSUME NEW ws, Kill(ws) PROVE IInv'
  BY <1>1, SignalsKeepIInv DEF Kill, Signalled, Counted
<1>2. CASE StartWorker
  <2> DEFINE w == forked + 1
  <2>1. forked \in Nat
    BY DEF IInv, Types
  <2>2. /\ forked' = w /\ phase' = [phase EXCEPT ![w] = "booting"]
        /\ UNCHANGED <<pending, told, ended>>
    BY <1>2 DEF StartWorker
  <2>3. Types'
    <3>1. phase \in [Workers -> Phases] /\ "booting" \in Phases
      BY DEF IInv, Types, Phases
    <3>2. phase' \in [Workers -> Phases]
      BY <2>2, <3>1
    <3>3. forked' \in Nat
      BY <2>1, <2>2
    <3> QED
      BY <2>2, <3>2, <3>3 DEF IInv, Types
  <2>4. StartedInOrder'
    BY <2>1, <2>2 DEF IInv, Types, StartedInOrder, Workers
  <2>5. ASSUME NEW v \in Workers PROVE HistoryOf(v)'
    <3>1. HistoryOf(v) /\ UNCHANGED <<told[v], ended[v]>> /\ (v \in pending' <=> v \in pending)
      BY <2>2 DEF IInv
    <3>2. CASE v = w
      <4>1. phase[v] = "absent" /\ phase'[v] = "booting"
        BY <2>1, <2>2, <3>2 DEF IInv, Types, StartedInOrder, Workers
      <4> QED
        BY <3>1, <4>1 DEF HistoryOf
    <3>3. CASE v # w
      <4>1. phase'[v] = phase[v]
        BY <2>2, <3>3 DEF IInv, Types
      <4> QED
        BY <3>1, <4>1 DEF HistoryOf
    <3> QED
      BY <3>2, <3>3
  <2> QED
    BY <2>3, <2>4, <2>5 DEF IInv
<1>3. CASE MasterStops
  BY <1>3, SignalsKeepIInv DEF MasterStops, Signalled, PassedOn
<1>4. ASSUME NEW w \in Workers, PassOnEarly(w) \/ AppStop(w) PROVE IInv'
  <2>1. /\ pending' \subseteq Signalled(siblings[w]) /\ told' = Counted(siblings[w])
        /\ UNCHANGED <<forked, phase, ended>>
    BY <1>4 DEF PassOnEarly, AppStop
  <2> QED
    BY <2>1, SignalsKeepIInv DEF Signalled
<1>5. ASSUME NEW w \in Workers, Boot(w) \/ Stop(w) \/ Close(w) \/ Interrupted(w) \/ BootFails(w)
      PROVE  IInv'
  <2>1. HistoryOf(w) /\ phase \in [Workers -> Phases] /\ ended \in [Workers -> Nat] /\ told[w] \in Nat
    BY DEF IInv, Types
  <2>2. CASE Boot(w)
    <3>1. HistoryOf(w)'
      BY <2>1, <2>2 DEF Boot, HistoryOf
    <3> QED
      BY <2>1, <2>2, <3>1, OwnStepKeepsIInv DEF Boot, Phases
  <2>3. CASE Stop(w)
    <3>1. HistoryOf(w)'
      BY <2>1, <2>3 DEF Stop, HandledBy, HistoryOf
    <3> QED
      BY <2>1, <2>3, <3>1, OwnStepKeepsIInv DEF Stop, HandledBy, Phases
  <2>4. CASE Close(w)
    <3>1. HistoryOf(w)'
      BY <2>1, <2>4 DEF Close, HistoryOf
    <3>2. /\ ended' \in [Workers -> Nat]
          /\ \A v \in Workers \ {w} : ended'[v] = ended[v]
      <4>1. ended' = [ended EXCEPT ![w] = ended[w] + 1] /\ ended[w] + 1 \in Nat
        BY <2>1, <2>4 DEF Close
      <4> QED
        BY <2>1, <4>1
    <3>3. /\ pending' \subseteq pending /\ phase' = [phase EXCEPT ![w] = "gone"]
          /\ UNCHANGED <<forked, told>> /\ phase[w] # "absent"
      BY <2>4 DEF Close
    <3>4. "gone" \in Phases \ {"absent"}
      BY DEF Phases
    <3> QED
      BY <3>1, <3>2, <3>3, <3>4, OwnStepKeepsIInv
  <2>5. CASE Interrupted(w)
    <3>1. HistoryOf(w)'
      BY <2>1, <2>5 DEF Interrupted, HistoryOf
    <3> QED
      BY <2>1, <2>5, <3>1, OwnStepKeepsIInv DEF Interrupted, Phases
  <2>6. CASE BootFails(w)
    <3>1. HistoryOf(w)'
      BY <2>1, <2>6 DEF BootFails, HistoryOf
    <3> QED
      BY <2>1, <2>6, <3>1, OwnStepKeepsIInv DEF BootFails, Phases
  <2> QED
    BY <1>5, <2>2, <2>3, <2>4, <2>5, <2>6
<1>6. ASSUME UNCHANGED <<forked, phase, pending, told, ended>> PROVE IInv'
  <2>1. Types' /\ StartedInOrder'
    BY <1>6 DEF IInv, Types, StartedInOrder
  <2>2. ASSUME NEW w \in Workers PROVE HistoryOf(w)'
    BY <1>6 DEF IInv, HistoryOf
  <2> QED
    BY <2>1, <2>2 DEF IInv
<1>7. CASE NoteWorker \/ Joined
  BY <1>6, <1>7 DEF NoteWorker, Joined
<1>8. CASE UNCHANGED processes
  BY <1>6, <1>8 DEF processes
<1>9. CASE Tick \/ RemoveFile \/ TimerFails \/ LooksAtFile \/ ReadsFile \/ TimerEnds
  BY <1>8, <1>9 DEF Tick, RemoveFile, TimerFails, LooksAtFile, ReadsFile, TimerEnds
<1>10. ASSUME NEW mtime \in {now - 1, now}, WriteFile(mtime) PROVE IInv'
  BY <1>8, <1>10 DEF WriteFile
<1>11. CASE UNCHANGED vars
  BY <1>8, <1>11 DEF vars
<1> QED
  BY <1>1, <1>2, <1>3, <1>4, <1>5, <1>7, <1>9, <1>10, <1>11 DEF Next, OwnStep

-----------------------------------------------------------------------------
LEMMA Invariance == Spec => []IInv
  BY InitIInv, NextIInv, PTL DEF Spec

(* A worker told once triggers at_end once before it is gone, and only one *)
(* that was told again ends without: for every number of workers, with     *)
(* signals from outside, from the master and from other workers at any     *)
(* time of its life.                                                       *)
THEOREM EndsOnceAlways == Spec => []EndsOnce
<1>1. IInv => EndsOnce
  <2> SUFFICES ASSUME IInv, NEW w \in Workers
               PROVE  /\ phase[w] = "gone" => ended[w] = 1
                      /\ phase[w] = "failed" => told[w] > 1
    BY DEF EndsOnce
  <2>1. HistoryOf(w) /\ told[w] \in Nat
    BY DEF IInv, Types
  <2> QED
    BY <2>1 DEF HistoryOf
<1> QED
  BY Invariance, <1>1, PTL
-----------------------------------------------------------------------------
(* The static file.                                                        *)
Dates ==
    /\ now \in Int /\ timestamp \in Int /\ timer \in Int /\ file.mtime \in Int
    /\ now > 0
    /\ timer \in {Idle, Dead} \/ timer > 0
    /\ read => timer > 0

(* A change the worker has not read will be seen: by the next run of the   *)
(* timer, or after the run that goes on once it has read.                  *)
Seen(date) == cached # file.version => file.mtime > date \/ tight

FileInv ==
    /\ Dates
    /\ timer = Idle => Seen(timestamp)
    /\ read => Seen(timer)

LEMMA InitFileInv == Init => FileInv
<1> SUFFICES ASSUME Init PROVE FileInv
  OBVIOUS
<1>1. ~read /\ now = 1 /\ timestamp = 1 /\ timer = -1 /\ cached = 0 /\ file.version = 0 /\ file.mtime = 0
  BY DEF Init, Idle
<1> QED
  BY <1>1 DEF FileInv, Dates, Seen, Idle, Dead

LEMMA NextFileInv == FileInv /\ [Next]_vars => FileInv'
<1> SUFFICES ASSUME FileInv, [Next]_vars PROVE FileInv'
  OBVIOUS
<1>1. CASE UNCHANGED files
  BY <1>1 DEF FileInv, Dates, Seen, files
<1>2. CASE Kill({}) \/ Kill(Workers) \/ StartWorker \/ NoteWorker \/ MasterStops \/ Joined
  BY <1>1, <1>2 DEF Kill, StartWorker, NoteWorker, MasterStops, Joined
<1>3. ASSUME NEW w \in Workers, OwnStep(w) \/ BootFails(w) \/ AppStop(w) PROVE FileInv'
  BY <1>1, <1>3 DEF OwnStep, Boot, PassOnEarly, Stop, Close, Interrupted, BootFails, AppStop
<1>4. CASE Tick
  BY <1>4 DEF Tick, FileInv, Dates, Seen
<1>5. CASE RemoveFile
  <2>1. file'.mtime = file.mtime /\ file'.version = file.version
    BY <1>5 DEF RemoveFile
  <2> QED
    BY <1>5, <2>1 DEF RemoveFile, FileInv, Dates, Seen
<1>6. CASE TimerFails
  BY <1>6 DEF TimerFails, FileInv, Dates, Seen, Idle, Dead
<1>7. CASE LooksAtFile
  <2>1. ~read
    BY <1>7 DEF LooksAtFile, FileInv, Dates, Idle
  <2>2. CASE file.mtime > timestamp
    BY <1>7, <2>1, <2>2 DEF LooksAtFile, FileInv, Dates, Seen, Idle
  (* Nothing new: then the worker answers with the file, or it is tight.   *)
  <2>3. CASE ~(file.mtime > timestamp)
    BY <1>7, <2>1, <2>3 DEF LooksAtFile, FileInv, Dates, Seen, Idle
  <2> QED
    BY <2>2, <2>3
<1>8. CASE ReadsFile
  BY <1>8 DEF ReadsFile, FileInv, Dates, Seen, Idle, Dead
<1>9. CASE TimerEnds
  <2>1. ~read' /\ timer' = -1 /\ timestamp' = timer /\ UNCHANGED <<now, file, cached, tight>>
    BY <1>9 DEF TimerEnds, DateOfCheck, Idle
  <2>2. read
    BY <1>9 DEF TimerEnds
  <2> QED
    BY <2>1, <2>2 DEF FileInv, Dates, Seen, Idle, Dead
<1>10. ASSUME NEW mtime \in {now - 1, now}, WriteFile(mtime) PROVE FileInv'
  <2>1. /\ file'.mtime = mtime /\ mtime \in Int
        /\ tight' = (mtime <= Checked)
        /\ UNCHANGED <<now, cached, timestamp, timer, read>>
    BY <1>10 DEF WriteFile, FileInv, Dates
  <2>2. Checked \in Int /\ Checked >= timestamp /\ Checked >= timer
    BY DEF Checked, FileInv, Dates
  <2>3. \/ mtime > timestamp /\ mtime > timer
        \/ tight'
    <3>1. timestamp \in Int /\ timer \in Int
      BY DEF FileInv, Dates
    <3>2. CASE mtime <= Checked
      BY <2>1, <3>2
    <3>3. CASE ~(mtime <= Checked)
      BY <2>1, <2>2, <3>1, <3>3
    <3> QED
      BY <3>2, <3>3
  <2> QED
    BY <2>1, <2>3 DEF FileInv, Dates, Seen
<1>11. CASE UNCHANGED vars
  BY <1>1, <1>11 DEF vars
<1> QED
  BY <1>2, <1>3, <1>4, <1>5, <1>6, <1>7, <1>8, <1>9, <1>10, <1>11 DEF Next

(* A change of the static file is never lost between a timer that reads    *)
(* the file and the date it notes: whatever the clock and the writer do    *)
(* meanwhile, unless the change is dated at or before the last check.      *)
THEOREM StaticFollowsFileAlways == Spec => []StaticFollowsFile
<1>1. FileInv => StaticFollowsFile
  BY DEF FileInv, Seen, StaticFollowsFile
<1> QED
  BY InitFileInv, NextFileInv, <1>1, PTL DEF Spec
=============================================================================
