----------------------------- MODULE DetachedRun -----------------------------
(***************************************************************************)
(* A run detached on the login node (stub.py: op_detach, op_proc_*,        *)
(* op_waitfor): a wrapper runs the command in a session of its own and     *)
(* records its exit status in a file; the stub that started it reaps it;   *)
(* any later stub tells its state from the process group and that file,    *)
(* kills it, or waits for a line of its log.  No lock orders any of this.  *)
(***************************************************************************)
EXTENDS Naturals, Sequences, FiniteSets

CONSTANTS Clients,  \* requests to stubs of the node
          MaxLog,   \* bound: pieces written to the log
          Budget    \* pieces one check of a log reads

VARIABLES record,   \* the run's record: none, written, or never (its write failed)
          wrapper,  \* the wrapper: none, running the command, recording, dead
          others,   \* are there other processes of the group?
          rc,       \* the file with the exit status: none, own, signal
          reaper,   \* the thread of the stub that started the run
          log,      \* the log, in pieces: m1 m2 on one line is what is waited for
          logStart, \* where this run's output begins
          client,   \* the requests
          cut       \* history: was the wrapper killed before it had recorded?

runVars == <<record, wrapper, others, rc, reaper, log, logStart, client, cut>>
process == <<wrapper, others, rc, reaper, cut>>

Pieces == {"m1", "m2", "nl"}
Idle == [pc |-> "idle", op |-> "none", alive |-> FALSE, pos |-> 0, line |-> 0, told |-> "nothing", upto |-> 0]

\* A log that is used again may hold an old match.
DetachInit ==
  /\ record = "none"
  /\ wrapper = "none"
  /\ others = FALSE
  /\ rc = "none"
  /\ reaper = "off"
  /\ log \in {<<>>, <<"m1", "m2">>}
  /\ logStart = 0
  /\ client = [c \in Clients |-> Idle]
  /\ cut = FALSE

------------------------------------------------------------------------------
(* The run *)

\* The wrapper, its reaper, and only then its record: a stub that dies before
\* leaves a run nobody can find.
op_detach ==
  /\ wrapper = "none"
  /\ wrapper' = "running"
  /\ reaper' = "waiting"
  /\ logStart' = Len(log)
  /\ UNCHANGED <<record, others, rc, log, client, cut>>

SaveRecord ==
  /\ wrapper # "none" /\ record = "none" /\ reaper # "off"
  /\ record' \in {"written", "never"}
  /\ UNCHANGED <<process, log, logStart, client>>

Writes(piece) ==
  /\ wrapper = "running" \/ others
  /\ Len(log) < MaxLog
  /\ log' = Append(log, piece)
  /\ UNCHANGED <<record, process, logStart, client>>

\* The command leaves a child behind, or not, and ends.
CommandEnds(child) ==
  /\ wrapper = "running"
  /\ wrapper' = "recording"
  /\ others' = child
  /\ UNCHANGED <<record, rc, reaper, log, logStart, client, cut>>

\* The status is moved into place before the wrapper exits.
WrapperRecords ==
  /\ wrapper = "recording"
  /\ IF rc = "none" THEN rc' = "own" /\ UNCHANGED wrapper
     ELSE wrapper' = "dead" /\ UNCHANGED rc
  /\ UNCHANGED <<record, others, reaper, log, logStart, client, cut>>

ChildEnds ==
  /\ others
  /\ others' = FALSE
  /\ UNCHANGED <<record, wrapper, rc, reaper, log, logStart, client, cut>>

\* The group, or by the kernel's choice the wrapper alone, is killed outright.
KillGroup(all) ==
  /\ wrapper' = "dead"
  /\ others' = (others /\ ~all)
  /\ cut' = (cut \/ rc = "none")

KilledFromOutside(all) ==
  /\ wrapper \in {"running", "recording"}
  /\ KillGroup(all)
  /\ UNCHANGED <<record, rc, reaper, log, logStart, client>>

\* The reaper sees the wrapper dead and its status missing, and then writes it.
_reap_detached ==
  /\ \/ reaper = "waiting" /\ wrapper = "dead" /\ reaper' = (IF rc = "none" THEN "writing" ELSE "off") /\ UNCHANGED rc
     \/ reaper = "writing" /\ reaper' = "off" /\ rc' = "signal"
  /\ UNCHANGED <<record, wrapper, others, log, logStart, client, cut>>

StubEnds ==
  /\ reaper # "off"
  /\ reaper' = "off"
  /\ UNCHANGED <<record, wrapper, others, rc, log, logStart, client, cut>>

------------------------------------------------------------------------------
(* Its state, as a request sees it *)

_group_alive == wrapper \in {"running", "recording"} \/ others

Goes(c, p) == client' = [client EXCEPT ![c] = p]
Tells(c, verdict) == Goes(c, [Idle EXCEPT !.told = verdict, !.upto = Len(log)])

\* Every operation starts by finding the record.
Ask(c, op) ==
  /\ client[c].pc = "idle" /\ client[c].told = "nothing"
  /\ record = "written"
  /\ Goes(c, [Idle EXCEPT !.op = op, !.pc = IF op = "waitfor" THEN "check" ELSE IF op = "proc_kill" THEN "signal" ELSE "view 1",
                          !.pos = logStart, !.line = logStart])
  /\ UNCHANGED <<record, process, log, logStart>>

\* A bug: the status file is read first.
StatusFirst == <<"rc", "alive">>

\* The group is looked at before the file is read.
ViewSteps == <<"alive", "rc">>

\* The two looks of _proc_view; "alive" remembers the first one's answer.
Look(c) ==
  /\ client[c].pc = "view 1"
  /\ Goes(c, [client[c] EXCEPT !.pc = "view 2",
                               !.alive = IF ViewSteps[1] = "alive" THEN _group_alive ELSE rc # "none"])
  /\ UNCHANGED <<record, process, log, logStart>>

_proc_view(c) ==
  LET alive  == IF ViewSteps[1] = "alive" THEN client[c].alive ELSE _group_alive
      exited == IF ViewSteps[1] = "alive" THEN rc # "none" ELSE client[c].alive
  IN  IF exited THEN "exited" ELSE IF alive THEN "running" ELSE "gone"

op_proc_status(c) ==
  /\ client[c].pc = "view 2" /\ client[c].op = "proc_status"
  /\ Tells(c, _proc_view(c))
  /\ UNCHANGED <<record, process, log, logStart>>

------------------------------------------------------------------------------
(* Killing it *)

\* A signal the command obeys; the wrapper outlives it and records the end.
op_proc_kill(c) ==
  /\ client[c].pc = "signal"
  /\ Goes(c, [client[c] EXCEPT !.pc = IF _group_alive THEN "grace" ELSE "view 1", !.op = IF _group_alive THEN @ ELSE "proc_status"])
  /\ \/ UNCHANGED <<wrapper, others>>
     \/ wrapper' = (IF wrapper = "running" THEN "recording" ELSE wrapper) /\ others' = FALSE
  /\ UNCHANGED <<record, rc, reaper, log, logStart, cut>>

\* After the grace period the group is killed outright.
Escalate(c) ==
  /\ client[c].pc = "grace"
  /\ Goes(c, [client[c] EXCEPT !.pc = "record"])
  /\ IF _group_alive THEN KillGroup(TRUE) ELSE UNCHANGED <<wrapper, others, cut>>
  /\ UNCHANGED <<record, rc, reaper, log, logStart>>

\* A status that is still missing is looked for, and then written.
RecordKill(c) ==
  /\ \/ client[c].pc = "record" /\ rc = "none" /\ ~_group_alive
        /\ Goes(c, [client[c] EXCEPT !.pc = "write"]) /\ UNCHANGED rc
     \/ client[c].pc = "record" /\ (rc # "none" \/ _group_alive)
        /\ Goes(c, [client[c] EXCEPT !.pc = "view 1", !.op = "proc_status"]) /\ UNCHANGED rc
     \/ client[c].pc = "write" /\ rc' = "signal"
        /\ Goes(c, [client[c] EXCEPT !.pc = "view 1", !.op = "proc_status"])
  /\ UNCHANGED <<record, wrapper, others, reaper, log, logStart, cut>>

------------------------------------------------------------------------------
(* Waiting for a line of its log *)

\* log[i], log[i+1] match, on one line.
MatchAt(i, last) == i < last /\ log[i] = "m1" /\ log[i + 1] = "m2"
HasMatch(after, last) == \E i \in 1..last : i > after /\ MatchAt(i, last)

LineStart(after, last) ==
  LET ends == {i \in after + 1..last : log[i] = "nl"}
  IN  IF ends = {} THEN after ELSE CHOOSE i \in ends : \A k \in ends : k <= i

\* What one check reads: some pieces, or everything once the writer has gone.
ReadTo(c, final) ==
  IF final \/ Len(log) <= client[c].pos + Budget THEN Len(log) ELSE client[c].pos + Budget

\* Whole lines that were read are searched; the last, unfinished one only when
\* nothing was added to it since the last check, or the writer has gone.
scan(c, final) ==
  LET p == client[c]
      last == ReadTo(c, final)
      whole == LineStart(p.line, last)
  IN  [hit  |-> HasMatch(p.line, whole) \/ ((final \/ last = p.pos) /\ HasMatch(whole, last)),
       pos  |-> last,
       line |-> whole]

op_waitfor(c) ==
  LET s == scan(c, FALSE) IN
  /\ client[c].pc = "check"
  /\ IF s.hit THEN Tells(c, "matched")
     ELSE Goes(c, [client[c] EXCEPT !.pc = "view 1", !.pos = s.pos, !.line = s.line])
  /\ UNCHANGED <<record, process, log, logStart>>

\* The writer has gone: one more scan, to the end.
FinalScan(c) ==
  /\ client[c].pc = "view 2" /\ client[c].op = "waitfor"
  /\ _proc_view(c) \in {"exited", "gone"}
  /\ Tells(c, IF scan(c, TRUE).hit THEN "matched" ELSE "no match")
  /\ UNCHANGED <<record, process, log, logStart>>

ResumeAt(p) == p.line

\* The next check of the same request, or, after its time is up, the next
\* request of the same wait (cluster.wait_for), which resumes at its offset.
Again(c, timeout) ==
  /\ client[c].pc = "view 2" /\ client[c].op = "waitfor"
  /\ _proc_view(c) = "running"
  /\ Goes(c, [client[c] EXCEPT !.pc = "check",
                               !.pos = IF timeout THEN ResumeAt(client[c]) ELSE @,
                               !.line = IF timeout THEN ResumeAt(client[c]) ELSE @])
  /\ UNCHANGED <<record, process, log, logStart>>

\* Cancelled, timed out, or the connection is lost.
GivesUp(c) ==
  /\ client[c].pc # "idle"
  /\ Goes(c, Idle)
  /\ UNCHANGED <<record, process, log, logStart>>

\* Bound: what was told is forgotten with the next request.
Forgets(c) ==
  /\ client[c].pc = "idle" /\ client[c].told # "nothing"
  /\ Goes(c, Idle)
  /\ UNCHANGED <<record, process, log, logStart>>

DetachNext ==
  \/ op_detach \/ SaveRecord \/ WrapperRecords \/ ChildEnds \/ _reap_detached \/ StubEnds
  \/ \E piece \in Pieces : Writes(piece)
  \/ \E b \in BOOLEAN : CommandEnds(b) \/ KilledFromOutside(b)
  \/ \E c \in Clients : \/ \E op \in {"proc_status", "proc_kill", "waitfor"} : Ask(c, op)
                        \/ Look(c) \/ op_proc_status(c) \/ op_proc_kill(c) \/ Escalate(c) \/ RecordKill(c)
                        \/ op_waitfor(c) \/ FinalScan(c) \/ GivesUp(c) \/ Forgets(c)
                        \/ \E timeout \in BOOLEAN : Again(c, timeout)

------------------------------------------------------------------------------
(* Properties *)

\* A run is called gone only if its wrapper was killed before it could record
\* how it ended, and a status made up for it only then.
GoneIsKilled ==
  /\ rc = "signal" => cut
  /\ \A c \in Clients : client[c].told = "gone" => cut

\* A wait that ends with the run, and no match, missed none: not on a line that
\* was cut in two by the end of a read, of a check, or of a request.
NoMissedLine ==
  \A c \in Clients :
    /\ client[c].told = "no match" => ~HasMatch(logStart, client[c].upto)
    /\ client[c].told = "matched" => HasMatch(logStart, client[c].upto)
==============================================================================
