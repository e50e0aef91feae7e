------------------------------- MODULE Wrapper -------------------------------
(***************************************************************************)
(* zombie-wrapper.sh, the first process of a node's container: it runs the *)
(* node as its child and reads commands from a named pipe.  They are       *)
(* written by `echo <command> > /tmp/zombiepipe`, which pause(), resume()  *)
(* and restart() of a test run in the container.  The wrapper opens the    *)
(* pipe anew for every line; between two lines nobody may hold it open,    *)
(* and what is in it then is gone.                                         *)
(***************************************************************************)
EXTENDS Integers, Sequences, SequencesExt

CONSTANTS
    Sender,      \* test programs attached to the network, each sends commands
                 \* one after the other
    Command,     \* the commands they send
    MaxSent      \* bound of the model: the commands of all senders

Commands == {"pause", "resume", "restart", "quit"}

ASSUME WrapperAssumption == Command \subseteq Commands /\ MaxSent \in Nat

VARIABLES
    wrapper,   \* where the script is
    partner,   \* its open() of the pipe has met a writer
    took,      \* the lines it has read
    child,     \* child_pid
    proc,      \* the state of the processes it has started
    writer,    \* where the echo of each sender is
    sent,      \* what each sender has sent; the last one may be on its way
    pipe,      \* the lines in the pipe, each <<sender, number>>
    written,   \* history: the lines in the order of writing, with the opening
    lost       \* history: the lines that went with the pipe's buffer

wrapperVars == <<wrapper, partner, took, child, proc>>
writerVars == <<writer, sent, written>>
vars == <<wrapperVars, writerVars, pipe, lost>>

Line == Sender \X (1..MaxSent)
Text(l) == sent[l[1]][l[2]]
Sent == {l \in Line : l[2] <= Len(sent[l[1]])}

\* The first start, and one for every restart.
Pid == 1..(1 + MaxSent)

Init ==
    /\ wrapper = "started"
    /\ partner = FALSE
    /\ took = <<>>
    /\ child = 1
    /\ proc = [p \in Pid |-> IF p = 1 THEN "running" ELSE "none"]
    /\ writer = [s \in Sender |-> "idle"]
    /\ sent = [s \in Sender |-> <<>>]
    /\ pipe = <<>>
    /\ written = <<>>
    /\ lost = {}

-----------------------------------------------------------------------------
(* The named pipe.                                                         *)

Reading == wrapper \in {"reading", "took"}

\* An open() that waits for its partner holds the pipe as well.
Writing == {s \in Sender : writer[s] \in {"opening", "open", "written"}}

\* A line written now: which of the wrapper's openings of the pipe it meets.
Opening == IF wrapper = "reading" THEN Len(took) + 1 ELSE Len(took)

\* Nobody holds the pipe any more.
Release ==
    /\ pipe' = <<>>
    /\ lost' = lost \cup ToSet(pipe)

-----------------------------------------------------------------------------
(* echo, run by kubectl exec or podman exec for a sender.                  *)

Send(s, c) ==
    /\ wrapper # "over"
    /\ writer[s] = "idle"
    /\ Cardinality(Sent) < MaxSent
    /\ sent' = [sent EXCEPT ![s] = Append(@, c)]
    /\ writer' = [writer EXCEPT ![s] = "sending"]
    /\ UNCHANGED <<wrapperVars, pipe, written, lost>>

\* It waits for a reader.
WriterOpens(s) ==
    /\ wrapper # "over"
    /\ writer[s] = "sending"
    /\ writer' = [writer EXCEPT ![s] = IF Reading THEN "open" ELSE "opening"]
    /\ partner' = Reading
    /\ UNCHANGED <<wrapper, took, child, proc, sent, pipe, written, lost>>

\* Without a reader it is a broken pipe: echo fails, and so does the test.
Write(s) ==
    /\ wrapper # "over"
    /\ writer[s] = "open"
    /\ IF Reading
       THEN /\ pipe' = Append(pipe, <<s, Len(sent[s])>>)
            /\ written' = Append(written, [line |-> <<s, Len(sent[s])>>, opening |-> Opening])
            /\ writer' = [writer EXCEPT ![s] = "written"]
            /\ UNCHANGED lost
       ELSE /\ writer' = [writer EXCEPT ![s] = "idle"]
            /\ IF Writing = {s} THEN Release ELSE UNCHANGED <<pipe, lost>>
            /\ UNCHANGED written
    /\ UNCHANGED <<wrapperVars, sent>>

\* echo is done and the test goes on, whether the line was read or not.
WriterCloses(s) ==
    /\ wrapper # "over"
    /\ writer[s] = "written"
    /\ writer' = [writer EXCEPT ![s] = "idle"]
    /\ IF Writing = {s} /\ ~Reading THEN Release ELSE UNCHANGED <<pipe, lost>>
    /\ UNCHANGED <<wrapperVars, sent, written>>

\* The container has ended, and with it what runs in it.
ExecFails(s) ==
    /\ wrapper = "over"
    /\ writer[s] # "idle"
    /\ writer' = [writer EXCEPT ![s] = "idle"]
    /\ UNCHANGED <<wrapperVars, sent, pipe, written, lost>>

-----------------------------------------------------------------------------
(* The node.                                                               *)

Alive(p) == proc[p] \in {"running", "stopped"}

Die(p) ==
    /\ wrapper # "over"
    /\ Alive(p)
    /\ proc' = [proc EXCEPT ![p] = "zombie"]
    /\ UNCHANGED <<wrapper, partner, took, child, writerVars, pipe, lost>>

\* bash waits for its child.
Reap(p) ==
    /\ wrapper # "over"
    /\ proc[p] = "zombie"
    /\ proc' = [proc EXCEPT ![p] = "gone"]
    /\ UNCHANGED <<wrapper, partner, took, child, writerVars, pipe, lost>>

-----------------------------------------------------------------------------
(* The script.                                                             *)

\* As the script is the first process of the container, all others end with it.
End ==
    /\ wrapper' = "over"
    /\ proc' = [p \in Pid |-> IF proc[p] = "none" THEN "none" ELSE "gone"]
    /\ UNCHANGED child

\* kill: the script exits when it fails, as of set -e.  A zombie can be killed.
Signal(state, next) ==
    IF proc[child] = "gone" THEN End
    ELSE /\ proc' = [proc EXCEPT ![child] = IF @ = "zombie" THEN @ ELSE state]
         /\ wrapper' = next
         /\ UNCHANGED child

Started ==
    /\ wrapper = "started"
    /\ IF proc[child] = "gone" THEN End ELSE wrapper' = "loop" /\ UNCHANGED <<child, proc>>
    /\ UNCHANGED <<partner, took, writerVars, pipe, lost>>

\* while read line <$pipe: the open() lets the writers go on that wait for it.
OpenPipe ==
    /\ wrapper = "loop"
    /\ wrapper' = "reading"
    /\ partner' = (Writing # {})
    /\ writer' = [s \in Sender |-> IF writer[s] = "opening" THEN "open" ELSE writer[s]]
    /\ UNCHANGED <<took, child, proc, sent, pipe, written, lost>>

\* Mutant of ReadLine: the whole buffer is read, the last line of it stays.
ReadLast ==
    /\ wrapper = "reading" /\ partner
    /\ pipe # <<>>
    /\ wrapper' = "took"
    /\ took' = Append(took, Last(pipe))
    /\ pipe' = <<>>
    /\ lost' = lost \cup ToSet(Front(pipe))
    /\ UNCHANGED <<partner, child, proc, writerVars>>

\* read takes no more than one line.
ReadLine ==
    /\ wrapper = "reading" /\ partner
    /\ pipe # <<>>
    /\ wrapper' = "took"
    /\ took' = Append(took, Head(pipe))
    /\ pipe' = Tail(pipe)
    /\ UNCHANGED <<partner, child, proc, writerVars, lost>>

\* The pipe is at its end, which ends the loop: the child is killed.
EndOfFile ==
    /\ wrapper = "reading" /\ partner
    /\ pipe = <<>>
    /\ Writing = {}
    /\ End
    /\ UNCHANGED <<partner, took, writerVars, pipe, lost>>

ClosePipe ==
    /\ wrapper = "took"
    /\ wrapper' = "command"
    /\ partner' = FALSE
    /\ IF Writing = {} THEN Release ELSE UNCHANGED <<pipe, lost>>
    /\ UNCHANGED <<took, child, proc, writerVars>>

Received(c) ==
    /\ wrapper = "command"
    /\ Text(Last(took)) = c
    /\ UNCHANGED <<partner, took, writerVars, pipe, lost>>

Pause == Received("pause") /\ Signal("stopped", "loop")

\* Mutant of Resume: the signal of pause().
ResumeStops == Received("resume") /\ Signal("stopped", "loop")

Resume == Received("resume") /\ Signal("running", "loop")

Restart == Received("restart") /\ Signal("zombie", "asleep")

Quit == Received("quit") /\ End

\* Mutant of StartAgain: the script waits for the process.
StartAndWait ==
    /\ wrapper = "asleep"
    /\ IF proc[child + 1] = "none"
       THEN /\ child' = child /\ wrapper' = wrapper
            /\ proc' = [proc EXCEPT ![child + 1] = "running"]
       ELSE /\ proc[child + 1] = "gone"
            /\ child' = child + 1 /\ wrapper' = "loop" /\ UNCHANGED proc
    /\ UNCHANGED <<partner, took, writerVars, pipe, lost>>

\* restart(), after the sleep.
StartAgain ==
    /\ wrapper = "asleep"
    /\ child' = child + 1
    /\ proc' = [proc EXCEPT ![child'] = "running"]
    /\ wrapper' = "loop"
    /\ UNCHANGED <<partner, took, writerVars, pipe, lost>>

-----------------------------------------------------------------------------
Script ==
    \/ Started \/ OpenPipe \/ ReadLine \/ EndOfFile \/ ClosePipe
    \/ Pause \/ Resume \/ Restart \/ Quit \/ StartAgain

Echo(s) == WriterOpens(s) \/ Write(s) \/ WriterCloses(s) \/ ExecFails(s)

Next ==
    \/ Script
    \/ \E s \in Sender : Echo(s) \/ \E c \in Command : Send(s, c)
    \/ \E p \in Pid : Die(p) \/ Reap(p)

Spec == Init /\ [][Next]_vars

\* The script and the echos run; nothing is assumed of the node and the tests.
Fairness == WF_vars(Script) /\ \A s \in Sender : WF_vars(Echo(s))

FairSpec == Spec /\ Fairness

-----------------------------------------------------------------------------
\* At most one process of the node is alive, and that is child_pid.
TypeOK ==
    /\ wrapper \in {"started", "loop", "reading", "took", "command", "asleep", "over"}
    /\ partner \in BOOLEAN
    /\ partner => Reading \/ wrapper = "over"
    /\ took \in Seq(Line)
    /\ child \in Pid
    /\ proc \in [Pid -> {"none", "running", "stopped", "zombie", "gone"}]
    /\ \A p \in Pid : Alive(p) => p = child
    /\ writer \in [Sender -> {"idle", "sending", "opening", "open", "written"}]
    /\ sent \in [Sender -> Seq(Command)]
    /\ pipe \in Seq(Line)
    /\ written \in Seq([line : Line, opening : Nat])
    /\ lost \subseteq Line

(***************************************************************************)
(* echo succeeds when the line is in the pipe; it is lost when the wrapper *)
(* closes the pipe before it has come to it.  That happens only to a line  *)
(* which was written while the wrapper had the pipe open for an earlier    *)
(* one, that it took: every opening delivers a line.  Lines are delivered  *)
(* in the order they were written in, and a lost one never.                *)
(***************************************************************************)
LostOnlyInACrowd ==
    /\ \A k \in 1..Len(written) :
         written[k].line \in lost =>
           /\ written[k].opening \in 1..Len(took)
           /\ \E j \in 1..(k - 1) : took[written[k].opening] = written[j].line
    /\ \A i, j \in 1..Len(took) : i < j =>
         \E k, l \in 1..Len(written) :
           k < l /\ written[k].line = took[i] /\ written[l].line = took[j]
    /\ lost \cap ToSet(took) = {}

\* The lines whose commands are over.
Done == IF wrapper \in {"took", "command", "asleep"} THEN Front(took) ELSE took

(***************************************************************************)
(* Between two commands the node, if it lives, is stopped if the last one  *)
(* was a pause and runs if not, for whatever order commands come in: a     *)
(* restart of a stopped node lets it run, and no signal hits the process   *)
(* that came before.                                                       *)
(***************************************************************************)
NodeFollowsCommands ==
    wrapper \in {"loop", "reading", "took"} /\ Alive(child) =>
      (proc[child] = "stopped" <=> Done # <<>> /\ Text(Last(Done)) = "pause")

(***************************************************************************)
(* A command of a test ends: no echo waits for a reader for ever, whatever *)
(* the others do, and when the container ends.                             *)
(***************************************************************************)
CommandsEnd == \A s \in Sender : writer[s] # "idle" ~> writer[s] = "idle"
=============================================================================
