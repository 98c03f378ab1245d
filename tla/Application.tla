---------------------------- MODULE Application ----------------------------
(***************************************************************************)
(* The processes of a server (app.py): the master that forks the workers   *)
(* and waits for them, the workers from their start to their end, and the  *)
(* signals that end them; and the static file the workers were forked with *)
(* and look after, each with a timer of its own; the timers do not meet,   *)
(* so that of the first worker is modelled.                                *)
(***************************************************************************)
EXTENDS Integers, FiniteSets

CONSTANTS
    NumWorkers,  (* cores                                                    *)
    MaxSignals,  (* bound: signals from outside                              *)
    MaxTime,     (* bound: ticks of the clock the files are dated with       *)
    MaxWrites    (* bound: changes of the file                               *)

ASSUME ApplicationAssumption ==
       /\ NumWorkers \in Nat \ {0} /\ MaxSignals \in Nat
       /\ MaxTime \in Nat /\ MaxWrites \in Nat

Workers == 1 .. NumWorkers
Master == 0

VARIABLES
    master,    (* "starting", "joining" or "done"                            *)
    forked,    (* number of workers started                                  *)
    workers,   (* the set of those the master has noted                      *)
    phase,     (* of each worker, from "absent" to "gone"                  *)
    siblings,  (* its copy of workers, made by the fork                      *)
    pending,   (* processes with a SIGTERM not yet handled                   *)
    signals,   (* history: signals from outside                              *)
    asked,     (* history: the master has handled one                        *)
    unheard,   (* history: a worker was not there for it, or ignored it      *)
    told,      (* history: SIGTERMs sent to each worker                      *)
    ended,     (* history: how often it triggered at_end                     *)
    now,       (* the clock                                                  *)
    file,      (* version, date and whether the file is there                *)
    cached,    (* the version the first worker answers with                  *)
    timestamp, (* static_cached_timestamp                                    *)
    timer,     (* static_cached_timer: idle, its ts while it reads, or dead  *)
    read,      (* and it has read the file                                   *)
    tight      (* history: the file changed at a date its check had passed   *)

processes == <<master, forked, workers, phase, siblings, pending, signals, asked, unheard, told, ended>>
files == <<now, file, cached, timestamp, timer, read, tight>>
vars == <<processes, files>>

Alive == {w \in Workers : phase[w] \in {"booting", "serving", "closing"}}

Idle == -1
Dead == -2

(* static_cached reads the file before any worker starts.                  *)
Init ==
    /\ master = "starting" /\ forked = 0 /\ workers = {}
    /\ phase = [w \in Workers |-> "absent"]
    /\ siblings = [w \in Workers |-> {}]
    /\ pending = {} /\ signals = 0
    /\ asked = FALSE /\ unheard = FALSE
    /\ told = [w \in Workers |-> 0] /\ ended = [w \in Workers |-> 0]
    /\ now = 1
    /\ file = [version |-> 0, mtime |-> 0, there |-> TRUE]
    /\ cached = 0 /\ timestamp = 1
    /\ timer = Idle /\ read = FALSE
    /\ tight = FALSE

-----------------------------------------------------------------------------
(* Signals.  A process that has one pending does not notice a second one.  *)
Signalled(processes_) == pending \cup (processes_ \cap (Alive \cup {Master}))

Counted(ws) ==
    [w \in Workers |-> IF w \in ws \cap Alive /\ told[w] < 2 THEN told[w] + 1 ELSE told[w]]

(* From outside: to the master, or to the whole process group, which is    *)
(* what tests/common.py does.                                              *)
Kill(ws) ==
    /\ signals < MaxSignals /\ master # "done"
    /\ signals' = signals + 1
    /\ pending' = Signalled({Master} \cup ws)
    /\ told' = Counted(ws)
    /\ UNCHANGED <<master, forked, workers, phase, siblings, asked, unheard, ended, files>>

-----------------------------------------------------------------------------
(* The master: start a worker and note it, then wait for one after the     *)
(* other.  Nothing is done for one that failed.                            *)
StartWorker ==
    LET w == forked + 1
    IN  /\ master = "starting" /\ forked \in workers \cup {Master}
        /\ forked' = w
        /\ phase' = [phase EXCEPT ![w] = "booting"]
        /\ siblings' = [siblings EXCEPT ![w] = workers]
        /\ UNCHANGED <<master, workers, pending, signals, asked, unheard, told, ended, files>>

NoteWorker ==
    /\ master = "starting" /\ forked \notin workers \cup {Master}
    /\ workers' = workers \cup {forked}
    /\ master' = IF forked = NumWorkers THEN "joining" ELSE "starting"
    /\ UNCHANGED <<forked, phase, siblings, pending, signals, asked, unheard, told, ended, files>>

(* stop: the signal is passed on to the workers noted so far.              *)
PassedOnToFirst(ws) == ws \cap {1}
PassedOn(ws) == ws

MasterStops ==
    /\ Master \in pending
    /\ pending' = Signalled(PassedOn(workers)) \ {Master}
    /\ told' = Counted(PassedOn(workers))
    /\ asked' = TRUE
    /\ unheard' = (unheard \/ workers # Workers)
    /\ UNCHANGED <<master, forked, workers, phase, siblings, signals, ended, files>>

Joined ==
    /\ master = "joining" /\ Alive = {}
    /\ master' = "done"
    /\ UNCHANGED <<forked, workers, phase, siblings, pending, signals, asked, unheard, told, ended, files>>

-----------------------------------------------------------------------------
(* A worker (serve).  It starts with the handler of the master, stop, and  *)
(* with the workers noted before it: to a signal it ends those, and goes   *)
(* on.  The application may do the same with app.stop.                     *)
Boot(w) ==
    /\ phase[w] = "booting"
    /\ phase' = [phase EXCEPT ![w] = "serving"]
    /\ UNCHANGED <<master, forked, workers, siblings, pending, signals, asked, unheard, told, ended, files>>

PassOnEarly(w) ==
    /\ w \in pending /\ phase[w] = "booting"
    /\ pending' = Signalled(siblings[w]) \ {w}
    /\ told' = Counted(siblings[w])
    /\ unheard' = TRUE
    /\ UNCHANGED <<master, forked, workers, phase, siblings, signals, asked, ended, files>>

AppStop(w) ==
    /\ phase[w] = "serving"
    /\ pending' = Signalled(siblings[w])
    /\ told' = Counted(siblings[w])
    /\ UNCHANGED <<master, forked, workers, phase, siblings, signals, asked, unheard, ended, files>>

(* Once it serves the handler is loop.stop, which ends run_forever ...     *)
StillPending(w) == pending
HandledBy(w) == pending \ {w}

Stop(w) ==
    /\ w \in pending /\ phase[w] = "serving"
    /\ pending' = HandledBy(w)
    /\ phase' = [phase EXCEPT ![w] = "closing"]
    /\ UNCHANGED <<master, forked, workers, siblings, signals, asked, unheard, told, ended, files>>

(* ... the loop is run again for what there is to close, drain (of a set   *)
(* that stays empty) and at_end ...                                        *)
Close(w) ==
    /\ phase[w] = "closing"
    /\ phase' = [phase EXCEPT ![w] = "gone"]
    /\ ended' = [ended EXCEPT ![w] = @ + 1]
    /\ pending' = pending \ {w}
    /\ UNCHANGED <<master, forked, workers, siblings, signals, asked, unheard, told, files>>

(* ... and another signal stops that too: run_until_complete raises, and   *)
(* the rest is left out.                                                   *)
Interrupted(w) ==
    /\ w \in pending /\ phase[w] = "closing"
    /\ phase' = [phase EXCEPT ![w] = "failed"]
    /\ pending' = pending \ {w}
    /\ UNCHANGED <<master, forked, workers, siblings, signals, asked, unheard, told, ended, files>>

(* Without the configuration of a session store or MrQ a worker exits.     *)
BootFails(w) ==
    /\ phase[w] = "booting"
    /\ phase' = [phase EXCEPT ![w] = "exited"]
    /\ pending' = pending \ {w}
    /\ UNCHANGED <<master, forked, workers, siblings, signals, asked, unheard, told, ended, files>>

-----------------------------------------------------------------------------
(* The static file.  The date of a change may be a tick behind the clock.  *)
Tick ==
    /\ now < MaxTime
    /\ now' = now + 1
    /\ UNCHANGED <<processes, file, cached, timestamp, timer, read, tight>>

Checked == IF timer > timestamp THEN timer ELSE timestamp

WriteFile(mtime) ==
    /\ file.version < MaxWrites
    /\ file' = [version |-> file.version + 1, mtime |-> mtime, there |-> TRUE]
    /\ tight' = (mtime <= Checked)
    /\ UNCHANGED <<processes, now, cached, timestamp, timer, read>>

(* Some programs remove a file before they write it.                       *)
RemoveFile ==
    /\ file.there /\ file.version < MaxWrites
    /\ file' = [file EXCEPT !.there = FALSE]
    /\ UNCHANGED <<processes, now, cached, timestamp, timer, read, tight>>

(* static_cached_timer: the date first, then what changed after the last   *)
(* one.  Without the file it raises, and is never called again.            *)
TimerRuns == phase[1] \in {"booting", "serving", "closing"}

TimerFails ==
    /\ TimerRuns /\ timer # Dead /\ ~read /\ ~file.there
    /\ timer' = Dead
    /\ UNCHANGED <<processes, now, file, cached, timestamp, read, tight>>

LooksAtFile ==
    /\ TimerRuns /\ timer = Idle /\ file.there
    /\ IF file.mtime > timestamp
       THEN timer' = now /\ UNCHANGED timestamp
       ELSE timestamp' = now /\ UNCHANGED timer
    /\ UNCHANGED <<processes, now, file, cached, read, tight>>

ReadsFile ==
    /\ TimerRuns /\ timer > 0 /\ ~read /\ file.there
    /\ read' = TRUE
    /\ cached' = file.version
    /\ UNCHANGED <<processes, now, file, timestamp, timer, tight>>

DateAfterReading == now
DateOfCheck == timer

TimerEnds ==
    /\ TimerRuns /\ read
    /\ timestamp' = DateOfCheck
    /\ timer' = Idle /\ read' = FALSE
    /\ UNCHANGED <<processes, now, file, cached, tight>>

-----------------------------------------------------------------------------
OwnStep(w) == Boot(w) \/ PassOnEarly(w) \/ Stop(w) \/ Close(w) \/ Interrupted(w)

Next ==
    \/ Kill({}) \/ Kill(Workers)
    \/ StartWorker \/ NoteWorker \/ MasterStops \/ Joined
    \/ \E w \in Workers : OwnStep(w) \/ BootFails(w) \/ AppStop(w)
    \/ Tick \/ RemoveFile \/ TimerFails \/ LooksAtFile \/ ReadsFile \/ TimerEnds
    \/ \E mtime \in {now - 1, now} : WriteFile(mtime)

(* The operating system runs every process.                                *)
Spec ==
    /\ Init /\ [][Next]_vars
    /\ WF_vars(StartWorker) /\ WF_vars(NoteWorker) /\ WF_vars(MasterStops) /\ WF_vars(Joined)
    /\ \A w \in Workers : WF_vars(OwnStep(w))

-----------------------------------------------------------------------------
(* SIGTERM to the master ends the server, with all its workers, however    *)
(* often it comes: unless a worker was not noted yet, or was still         *)
(* starting when it was told and took the signal for the master's.         *)
EverythingStops == asked ~> (master = "done" \/ unheard)

(* A worker told once triggers at_end once before it is gone; a second     *)
(* signal, as a signal to the process group is once the master passes it   *)
(* on, may end it without.                                                 *)
EndsOnce ==
    \A w \in Workers :
        /\ phase[w] = "gone" => ended[w] = 1
        /\ phase[w] = "failed" => told[w] > 1

(* What the worker answers with is the file, or the next run of its timer  *)
(* finds the file changed, also when it changes while the timer runs;      *)
(* unless its date is not after the last check, or the timer met no file.  *)
StaticFollowsFile ==
    timer = Idle /\ cached # file.version => file.mtime > timestamp \/ tight
=============================================================================
