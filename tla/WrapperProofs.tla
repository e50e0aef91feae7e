---------------------------- MODULE WrapperProofs ----------------------------
(***************************************************************************)
(* Proofs about Wrapper, for any set of senders, any commands and any bound*)
(* on their number: its type invariant, what becomes of the lines written  *)
(* to the named pipe, and the state the node is in between two commands.   *)
(***************************************************************************)
EXTENDS Wrapper, FiniteSetTheorems, TLAPS

-----------------------------------------------------------------------------
(* The inductive invariant.                                                *)

\* The senders together have sent MaxSent commands at most, and one that is
\* about to write has a line to write.
SentBound ==
    /\ IsFiniteSet(Sent)
    /\ Cardinality(Sent) <= MaxSent
    /\ \A s \in Sender :
         /\ Len(sent[s]) <= MaxSent
         /\ writer[s] # "idle" => sent[s] # <<>>

\* A line was sent before it is written, and is written once: while its echo
\* has not written it, it is not among the ones that are.
WrittenOnce ==
    /\ \A k \in 1..Len(written) :
         /\ written[k].line \in Sent
         /\ writer[written[k].line[1]] \in {"sending", "opening", "open"} =>
              written[k].line[2] < Len(sent[written[k].line[1]])
    /\ \A j, k \in 1..Len(written) : written[j].line = written[k].line => j = k

\* The lines that have left the pipe are the first ones written.
Gone == Len(written) - Len(pipe)

\* The pipe holds the last lines written, in order; the ones before have been
\* taken, in order, or are lost.
PipeIsSuffix ==
    /\ Len(pipe) <= Len(written)
    /\ \A i \in 1..Len(pipe) : pipe[i] = written[Gone + i].line
    /\ \A i \in 1..Len(took) : \E k \in 1..Gone : took[i] = written[k].line
    /\ \A l \in lost : \E k \in 1..Gone : l = written[k].line

\* The lines in the pipe met an opening that has delivered a line, or is the
\* present one.
Openings ==
    \A k \in (Gone + 1)..Len(written) :
      written[k].opening \in 1..(IF wrapper = "reading" THEN Len(took) + 1
                                                        ELSE Len(took))

\* A start of the node for every line taken before, at most; a restart has
\* killed the child before it starts the next.
Progress ==
    /\ wrapper = "started" => took = <<>> /\ proc[child] # "stopped"
    /\ wrapper \in {"took", "command", "asleep"} => took # <<>>
    /\ wrapper = "asleep" => ~Alive(child) /\ Text(Last(took)) = "restart"
    /\ child <= IF wrapper \in {"took", "command", "asleep"} THEN Len(took)
                                                             ELSE 1 + Len(took)

LinesInv ==
    /\ SentBound
    /\ WrittenOnce
    /\ PipeIsSuffix
    /\ Openings
    /\ LostOnlyInACrowd

IInv ==
    /\ TypeOK
    /\ LinesInv
    /\ Progress
    /\ NodeFollowsCommands

-----------------------------------------------------------------------------
(* Sequences.                                                              *)

\* Append adds one element at the end and leaves the others.
LEMMA AppendFacts ==
    ASSUME NEW S, NEW q \in Seq(S), NEW e \in S
    PROVE  /\ Append(q, e) \in Seq(S)
           /\ Append(q, e) # <<>>
           /\ Len(Append(q, e)) = Len(q) + 1
           /\ \A i \in 1..Len(q) : Append(q, e)[i] = q[i]
           /\ Append(q, e)[Len(q) + 1] = e
           /\ Last(Append(q, e)) = e
           /\ Front(Append(q, e)) = q
<1>1. /\ Append(q, e) \in Seq(S)
      /\ Len(Append(q, e)) = Len(q) + 1
      /\ \A i \in 1..Len(q) : Append(q, e)[i] = q[i]
      /\ Append(q, e)[Len(q) + 1] = e
  OBVIOUS
<1>2. Front(Append(q, e)) = q
  BY <1>1 DEF Front
<1> QED BY <1>1, <1>2 DEF Last

\* Head and Tail split a sequence.
LEMMA TailFacts ==
    ASSUME NEW S, NEW q \in Seq(S), q # <<>>
    PROVE  /\ Len(q) \in Nat \ {0}
           /\ Head(q) = q[1] /\ Head(q) \in S
           /\ Tail(q) \in Seq(S)
           /\ Len(Tail(q)) = Len(q) - 1
           /\ \A i \in 1..(Len(q) - 1) : Tail(q)[i] = q[i + 1]
  OBVIOUS

\* Front leaves out the last element.
LEMMA FrontFacts ==
    ASSUME NEW S, NEW q \in Seq(S), q # <<>>
    PROVE  /\ Len(q) \in Nat \ {0}
           /\ Len(Front(q)) = Len(q) - 1
           /\ \A i \in 1..(Len(q) - 1) : Front(q)[i] = q[i]
           /\ Front(q) # <<>> => Len(q) # 1
<1>1. Len(q) \in Nat \ {0}
  OBVIOUS
<1>2. SubSeq(q, 1, Len(q) - 1) = [i \in 1..(Len(q) - 1) |-> q[i]]
  BY <1>1
<1>3. Front(q) = [i \in 1..(Len(q) - 1) |-> q[i]]
  BY <1>2 DEF Front
<1>4. Front(q) \in Seq(S) /\ Len(Front(q)) = Len(q) - 1
  BY <1>1, <1>3
<1> QED BY <1>1, <1>3, <1>4

\* ToSet has the elements of a sequence.
LEMMA ToSetFacts ==
    ASSUME NEW S, NEW q \in Seq(S)
    PROVE  /\ ToSet(q) \subseteq S
           /\ \A x : x \in ToSet(q) <=> \E i \in 1..Len(q) : x = q[i]
  BY DEF ToSet

-----------------------------------------------------------------------------
(* Counting: there is a pid for every restart.                             *)

LEMMA UpTo ==
    ASSUME NEW n \in Nat
    PROVE  Cardinality(1..n) = n
<1>1. Cardinality(1..n) = IF 1 > n THEN 0 ELSE n - 1 + 1
  BY FS_Interval
<1> QED BY <1>1

\* The lines of one sender are among those of all.
LEMMA RoomToSend ==
    ASSUME TypeOK, SentBound, NEW s \in Sender
    PROVE  Len(sent[s]) <= Cardinality(Sent)
<1> DEFINE f == [i \in 1..Len(sent[s]) |-> <<s, i>>]
<1>1. Len(sent[s]) \in Nat /\ Len(sent[s]) <= MaxSent /\ MaxSent \in Nat
  BY WrapperAssumption DEF TypeOK, SentBound
<1>2. \A i \in 1..Len(sent[s]) : <<s, i>> \in Sent
  BY <1>1 DEF Sent, Line
<1>3. f \in Injection(1..Len(sent[s]), Sent)
  BY <1>2 DEF Injection, IsInjective
<1>4. Cardinality(1..Len(sent[s])) <= Cardinality(Sent)
  BY <1>3, FS_Injection DEF SentBound
<1>5. Cardinality(1..Len(sent[s])) = Len(sent[s])
  BY <1>1, UpTo
<1> QED BY <1>4, <1>5

\* No line is taken twice.
LEMMA TookOnce ==
    ASSUME TypeOK, LinesInv
    PROVE  /\ \A i \in 1..Len(took) : took[i] \in Sent
           /\ \A i, j \in 1..Len(took) : took[i] = took[j] => i = j
<1>1. \A i \in 1..Len(took) : took[i] \in Sent
  <2> SUFFICES ASSUME NEW i \in 1..Len(took) PROVE took[i] \in Sent
    OBVIOUS
  <2>1. PICK k \in 1..Gone : took[i] = written[k].line
    BY DEF LinesInv, PipeIsSuffix
  <2>2. k \in 1..Len(written)
    BY DEF TypeOK, Gone
  <2> QED BY <2>1, <2>2 DEF LinesInv, WrittenOnce
<1>2. ASSUME NEW i \in 1..Len(took), NEW j \in 1..Len(took), i < j, took[i] = took[j]
      PROVE  FALSE
  <2>1. PICK k, l \in 1..Len(written) :
          k < l /\ written[k].line = took[i] /\ written[l].line = took[j]
    BY <1>2 DEF LinesInv, LostOnlyInACrowd
  <2>2. k = l
    BY <2>1, <1>2 DEF LinesInv, WrittenOnce
  <2> QED BY <2>1, <2>2
<1> QED
  <2> SUFFICES ASSUME NEW i \in 1..Len(took), NEW j \in 1..Len(took), took[i] = took[j]
               PROVE  i = j
    BY <1>1
  <2>1. i < j \/ j < i \/ i = j
    BY DEF TypeOK
  <2> QED BY <2>1, <1>2

\* So no more lines are taken than may be sent.
LEMMA TookBound ==
    ASSUME TypeOK, LinesInv
    PROVE  Len(took) <= MaxSent
<1> DEFINE f == [i \in 1..Len(took) |-> took[i]]
<1>1. f \in Injection(1..Len(took), Sent)
  BY TookOnce DEF Injection, IsInjective
<1>2. IsFiniteSet(Sent) /\ Cardinality(Sent) <= MaxSent
  BY DEF LinesInv, SentBound
<1>3. Cardinality(1..Len(took)) <= Cardinality(Sent)
  BY <1>1, <1>2, FS_Injection
<1>4. Len(took) \in Nat
  BY DEF TypeOK
<1>5. Cardinality(1..Len(took)) = Len(took)
  BY <1>4, UpTo
<1>6. Cardinality(Sent) \in Nat
  BY <1>2, FS_CardinalityType
<1> QED BY <1>2, <1>3, <1>4, <1>5, <1>6, WrapperAssumption

-----------------------------------------------------------------------------
(* Types.                                                                  *)

\* A line about to be written is a line.
LEMMA LineToWrite ==
    ASSUME TypeOK, SentBound, NEW s \in Sender, writer[s] = "open"
    PROVE  <<s, Len(sent[s])>> \in Line /\ <<s, Len(sent[s])>> \in Sent
<1>1. sent[s] \in Seq(Command) /\ sent[s] # <<>> /\ Len(sent[s]) <= MaxSent
  BY DEF TypeOK, SentBound
<1>2. Len(sent[s]) \in 1..MaxSent
  BY <1>1, WrapperAssumption
<1> QED BY <1>2 DEF Line, Sent

LEMMA ReleaseType ==
    ASSUME TypeOK, Release
    PROVE  pipe' \in Seq(Line) /\ lost' \subseteq Line
<1>1. ToSet(pipe) \subseteq Line
  BY ToSetFacts DEF TypeOK
<1> QED BY <1>1 DEF Release, TypeOK

\* What ends, or signals, the processes leaves at most the child alive.
LEMMA EndType ==
    ASSUME TypeOK, End
    PROVE  /\ wrapper' = "over" /\ child' \in Pid
           /\ proc' \in [Pid -> {"none", "running", "stopped", "zombie", "gone"}]
           /\ \A p \in Pid : Alive(p)' => p = child'
  BY DEF End, TypeOK, Alive

LEMMA SignalType ==
    ASSUME TypeOK,
           NEW state \in {"running", "stopped", "zombie"},
           NEW next \in {"loop", "asleep"}, Signal(state, next)
    PROVE  /\ wrapper' \in {"loop", "asleep", "over"} /\ child' \in Pid
           /\ proc' \in [Pid -> {"none", "running", "stopped", "zombie", "gone"}]
           /\ \A p \in Pid : Alive(p)' => p = child'
<1>1. CASE End
  BY <1>1, EndType
<1>2. CASE ~End
  BY <1>2 DEF Signal, TypeOK, Alive
<1> QED BY <1>1, <1>2

LEMMA TypeStep ==
    ASSUME TypeOK, LinesInv, Progress, [Next]_vars
    PROVE  TypeOK'
<1> USE DEF wrapperVars, writerVars
<1> DEFINE ProcType ==
      /\ child \in Pid
      /\ proc \in [Pid -> {"none", "running", "stopped", "zombie", "gone"}]
      /\ \A p \in Pid : Alive(p) => p = child
<1>0. ProcType
  BY DEF TypeOK
<1>1. CASE Started
  <2>1. ProcType' /\ wrapper' \in {"loop", "over"}
    BY <1>0, <1>1, EndType DEF Started, Alive
  <2> QED BY <2>1, <1>1 DEF Started, TypeOK, Reading
<1>2. CASE OpenPipe
  BY <1>2 DEF OpenPipe, TypeOK, Reading, Alive
<1>3. CASE ReadLine
  <2>1. took' \in Seq(Line) /\ pipe' \in Seq(Line)
    BY <1>3, TailFacts, AppendFacts DEF ReadLine, TypeOK
  <2> QED BY <2>1, <1>3 DEF ReadLine, TypeOK, Reading, Alive
<1>4. CASE EndOfFile
  <2>1. ProcType' /\ wrapper' = "over"
    BY <1>4, EndType DEF EndOfFile
  <2> QED BY <2>1, <1>4 DEF EndOfFile, TypeOK
<1>5. CASE ClosePipe
  <2>1. pipe' \in Seq(Line) /\ lost' \subseteq Line
    BY <1>5, ReleaseType DEF ClosePipe, TypeOK
  <2> QED BY <2>1, <1>5 DEF ClosePipe, TypeOK, Alive
<1>6. CASE Pause \/ Resume \/ Restart \/ Quit
  <2>1. ProcType' /\ wrapper' \in {"loop", "asleep", "over"}
    BY <1>6, EndType, SignalType DEF Pause, Resume, Restart, Quit
  <2>2. /\ wrapper = "command"
        /\ UNCHANGED <<partner, took, writer, sent, written, pipe, lost>>
    BY <1>6 DEF Pause, Resume, Restart, Quit, Received
  <2> QED BY <2>1, <2>2 DEF TypeOK, Reading
<1>7. CASE StartAgain
  <2>1. child + 1 \in Pid
    <3>1. child <= Len(took) /\ Len(took) <= MaxSent
      BY <1>7, TookBound DEF StartAgain, Progress
    <3>2. child \in Nat \ {0} /\ Len(took) \in Nat /\ MaxSent \in Nat
      BY WrapperAssumption DEF TypeOK, Pid
    <3> QED BY <3>1, <3>2 DEF Pid
  <2>2. \A p \in Pid : ~Alive(p)
    BY <1>0, <1>7 DEF StartAgain, Progress
  <2>3. ProcType' /\ wrapper' = "loop"
    BY <1>0, <1>7, <2>1, <2>2 DEF StartAgain, Alive
  <2> QED BY <2>3, <1>7 DEF StartAgain, TypeOK, Reading
<1>8. ASSUME NEW s \in Sender, Echo(s) PROVE TypeOK'
  <2>1. CASE WriterOpens(s)
    BY <2>1 DEF WriterOpens, TypeOK, Reading, Alive
  <2>2. CASE Write(s)
    <3>1. CASE Reading
      <4>1. <<s, Len(sent[s])>> \in Line
        BY <2>2, LineToWrite DEF Write, LinesInv
      <4>2. Opening \in Nat
        BY DEF Opening, TypeOK
      <4>3. [line |-> <<s, Len(sent[s])>>, opening |-> Opening] \in [line : Line, opening : Nat]
        BY <4>1, <4>2
      <4>4. pipe' \in Seq(Line)
        <5>1. pipe' = Append(pipe, <<s, Len(sent[s])>>) /\ pipe \in Seq(Line)
          BY <2>2, <3>1 DEF Write, TypeOK
        <5> QED BY <5>1, <4>1, AppendFacts
      <4>5. written' \in Seq([line : Line, opening : Nat])
        <5> DEFINE entry == [line |-> <<s, Len(sent[s])>>, opening |-> Opening]
        <5>1. written' = Append(written, entry) /\ written \in Seq([line : Line, opening : Nat])
          BY <2>2, <3>1 DEF Write, TypeOK
        <5>2. entry \in [line : Line, opening : Nat]
          BY <4>3
        <5> HIDE DEF entry
        <5> QED BY <5>1, <5>2, AppendFacts
      <4> QED BY <4>4, <4>5, <3>1, <2>2 DEF Write, TypeOK, Reading, Alive
    <3>2. CASE ~Reading
      <4>1. pipe' \in Seq(Line) /\ lost' \subseteq Line
        BY <2>2, <3>2, ReleaseType DEF Write, TypeOK
      <4> QED BY <4>1, <3>2, <2>2 DEF Write, TypeOK, Reading, Alive
    <3> QED BY <3>1, <3>2
  <2>3. CASE WriterCloses(s)
    <3>1. pipe' \in Seq(Line) /\ lost' \subseteq Line
      BY <2>3, ReleaseType DEF WriterCloses, TypeOK
    <3> QED BY <3>1, <2>3 DEF WriterCloses, TypeOK, Reading, Alive
  <2>4. CASE ExecFails(s)
    BY <2>4 DEF ExecFails, TypeOK, Reading, Alive
  <2> QED BY <1>8, <2>1, <2>2, <2>3, <2>4 DEF Echo
<1>9. ASSUME NEW s \in Sender, NEW c \in Command, Send(s, c) PROVE TypeOK'
  BY <1>9 DEF Send, TypeOK, Reading, Alive
<1>10. ASSUME NEW p \in Pid, Die(p) \/ Reap(p) PROVE TypeOK'
  <2>1. ProcType'
    BY <1>0, <1>10 DEF Die, Reap, Alive
  <2> QED BY <2>1, <1>10 DEF Die, Reap, TypeOK, Reading
<1>11. CASE UNCHANGED vars
  BY <1>11 DEF vars, TypeOK, Reading, Alive
<1> QED BY <1>1, <1>2, <1>3, <1>4, <1>5, <1>6, <1>7, <1>8, <1>9, <1>10, <1>11
        DEF Next, Script

-----------------------------------------------------------------------------
(* What is sent and written.                                               *)

\* A step either writes, sends, or only lets echoes go on.
LEMMA WriterMoves ==
    ASSUME TypeOK, [Next]_vars,
           \A s \in Sender : ~(Write(s) /\ Reading),
           \A s \in Sender, c \in Command : ~Send(s, c)
    PROVE  /\ UNCHANGED <<sent, written>>
           /\ \A s \in Sender :
                /\ writer'[s] # "idle" => writer[s] # "idle"
                /\ writer'[s] \in {"sending", "opening", "open"} =>
                     writer[s] \in {"sending", "opening", "open"}
<1> USE DEF wrapperVars, writerVars
<1>1. CASE Script
  <2>1. CASE OpenPipe
    BY <2>1 DEF OpenPipe, TypeOK
  <2>2. CASE ~OpenPipe
    BY <1>1, <2>2 DEF Script, Started, ReadLine, EndOfFile, ClosePipe, Pause, Resume,
       Restart, Quit, Received, StartAgain
  <2> QED BY <2>1, <2>2
<1>2. ASSUME NEW s \in Sender, Echo(s)
      PROVE  /\ UNCHANGED <<sent, written>>
             /\ \A r \in Sender :
                  /\ writer'[r] # "idle" => writer[r] # "idle"
                  /\ writer'[r] \in {"sending", "opening", "open"} =>
                       writer[r] \in {"sending", "opening", "open"}
  BY <1>2 DEF Echo, WriterOpens, Write, WriterCloses, ExecFails, TypeOK
<1>3. ASSUME NEW p \in Pid, Die(p) \/ Reap(p)
      PROVE  UNCHANGED writerVars
  BY <1>3 DEF Die, Reap
<1>4. CASE UNCHANGED vars
  BY <1>4 DEF vars
<1> QED BY <1>1, <1>2, <1>3, <1>4 DEF Next

\* Sending adds a line of its own, the next one of the sender.
LEMMA SendAdds ==
    ASSUME TypeOK, SentBound, NEW s \in Sender, NEW c \in Command, Send(s, c)
    PROVE  /\ sent'[s] = Append(sent[s], c)
           /\ Len(sent'[s]) = Len(sent[s]) + 1
           /\ Len(sent'[s]) \in 1..MaxSent
           /\ \A r \in Sender \ {s} : sent'[r] = sent[r]
           /\ Sent' = Sent \cup {<<s, Len(sent[s]) + 1>>}
<1>1. Len(sent[s]) <= Cardinality(Sent)
  BY RoomToSend
<1>2. Cardinality(Sent) < MaxSent /\ sent' = [sent EXCEPT ![s] = Append(@, c)]
  BY DEF Send
<1>3. Cardinality(Sent) \in Nat /\ MaxSent \in Nat /\ Len(sent[s]) \in Nat
  BY WrapperAssumption, FS_CardinalityType DEF SentBound, TypeOK
<1>4. /\ sent'[s] = Append(sent[s], c)
      /\ Len(sent'[s]) = Len(sent[s]) + 1
      /\ \A r \in Sender \ {s} : sent'[r] = sent[r]
  BY <1>2, AppendFacts DEF TypeOK
<1>5. Len(sent'[s]) \in 1..MaxSent
  BY <1>1, <1>2, <1>3, <1>4
<1>6. Sent' = Sent \cup {<<s, Len(sent[s]) + 1>>}
  <2>1. \A l \in Line : l[2] <= Len(sent'[l[1]]) <=> l[2] <= Len(sent[l[1]])
                          \/ l = <<s, Len(sent[s]) + 1>>
    BY <1>3, <1>4 DEF Line
  <2>2. <<s, Len(sent[s]) + 1>> \in Line
    BY <1>4, <1>5 DEF Line
  <2> QED BY <2>1, <2>2 DEF Sent
<1> QED BY <1>4, <1>5, <1>6

LEMMA SentStep ==
    ASSUME TypeOK, SentBound, WrittenOnce, [Next]_vars
    PROVE  SentBound' /\ WrittenOnce'
<1>1. ASSUME NEW s \in Sender, Write(s), Reading
      PROVE  SentBound' /\ WrittenOnce'
  <2> DEFINE new == <<s, Len(sent[s])>>
  <2>1. /\ sent' = sent /\ writer' = [writer EXCEPT ![s] = "written"]
        /\ writer[s] = "open"
        /\ written' = Append(written, [line |-> new, opening |-> Opening])
    BY <1>1 DEF Write, wrapperVars
  <2>2. new \in Sent
    BY <2>1, LineToWrite
  <2>3. \A k \in 1..Len(written) : written[k].line # new
    <3> SUFFICES ASSUME NEW k \in 1..Len(written), written[k].line = new PROVE FALSE
      OBVIOUS
    <3>1. written[k].line[1] = s /\ written[k].line[2] = Len(sent[s])
      OBVIOUS
    <3>2. Len(sent[s]) < Len(sent[s])
      BY <3>1, <2>1 DEF WrittenOnce
    <3>3. Len(sent[s]) \in Nat
      BY DEF TypeOK
    <3> QED BY <3>2, <3>3
  <2>4. Sent' = Sent
    BY <2>1 DEF Sent
  <2>5. /\ Len(written') = Len(written) + 1 /\ Len(written) \in Nat
        /\ \A k \in 1..Len(written) : written'[k] = written[k]
        /\ written'[Len(written) + 1].line = new
    <3> DEFINE entry == [line |-> new, opening |-> Opening]
    <3>1. entry.line = new
      OBVIOUS
    <3>2. written \in Seq([line : Line, opening : Nat])
      BY DEF TypeOK
    <3> HIDE DEF entry
    <3> QED BY <2>1, <3>1, <3>2 DEF entry
  <2>6. SentBound'
    BY <2>1, <2>4 DEF SentBound, TypeOK
  <2> HIDE DEF new
  <2>7. new[1] = s
    BY DEF new
  <2>8. ASSUME NEW k \in 1..Len(written')
        PROVE  /\ written'[k].line \in Sent
               /\ writer'[written'[k].line[1]] \in {"sending", "opening", "open"} =>
                    written'[k].line[2] < Len(sent'[written'[k].line[1]])
    <3>1. CASE k \in 1..Len(written)
      <4>1. written'[k].line \in Sent /\ written'[k].line[1] \in Sender
        BY <3>1, <2>5 DEF WrittenOnce, Sent, Line
      <4> QED BY <4>1, <3>1, <2>1, <2>5 DEF WrittenOnce, TypeOK
    <3>2. CASE k = Len(written) + 1
      BY <3>2, <2>1, <2>2, <2>5, <2>7 DEF TypeOK
    <3> QED BY <3>1, <3>2, <2>5
  <2>9. \A j, k \in 1..Len(written') : written'[j].line = written'[k].line => j = k
    <3>1. \A j, k \in 1..Len(written) : written[j].line = written[k].line => j = k
      BY DEF WrittenOnce
    <3> QED BY <3>1, <2>3, <2>5
  <2> QED BY <2>4, <2>6, <2>8, <2>9 DEF WrittenOnce
<1>2. ASSUME NEW s \in Sender, NEW c \in Command, Send(s, c)
      PROVE  SentBound' /\ WrittenOnce'
  <2>1. /\ Len(sent'[s]) = Len(sent[s]) + 1 /\ sent'[s] = Append(sent[s], c)
        /\ Len(sent'[s]) \in 1..MaxSent
        /\ \A r \in Sender \ {s} : sent'[r] = sent[r]
        /\ Sent' = Sent \cup {<<s, Len(sent[s]) + 1>>}
    BY <1>2, SendAdds
  <2>2. /\ writer' = [writer EXCEPT ![s] = "sending"] /\ written' = written
        /\ Cardinality(Sent) < MaxSent
    BY <1>2 DEF Send
  <2>3. IsFiniteSet(Sent') /\ Cardinality(Sent') <= MaxSent
    <3>1. /\ IsFiniteSet(Sent')
          /\ Cardinality(Sent') = Cardinality(Sent) \/ Cardinality(Sent') = Cardinality(Sent) + 1
      BY <2>1, FS_AddElement DEF SentBound
    <3>2. Cardinality(Sent) \in Nat /\ MaxSent \in Nat
      BY FS_CardinalityType, WrapperAssumption DEF SentBound
    <3> QED BY <2>2, <3>1, <3>2
  <2>4. \A r \in Sender : Len(sent'[r]) <= MaxSent /\ (writer'[r] # "idle" => sent'[r] # <<>>)
    BY <2>1, <2>2 DEF SentBound, TypeOK
  <2>5. ASSUME NEW k \in 1..Len(written)
        PROVE  written[k].line[2] < Len(sent'[s]) \/ written[k].line[1] # s
    <3>1. written[k].line \in Sent
      BY DEF WrittenOnce
    <3>2. /\ written[k].line[2] \in Nat
          /\ written[k].line[2] <= Len(sent[written[k].line[1]])
      BY <3>1 DEF Sent, Line
    <3> QED BY <3>2, <2>1 DEF TypeOK
  <2>6. WrittenOnce'
    <3>1. \A k \in 1..Len(written) : written[k].line[1] \in Sender
      BY DEF WrittenOnce, Sent, Line
    <3> QED BY <3>1, <2>1, <2>2, <2>5 DEF WrittenOnce, TypeOK
  <2> QED BY <2>3, <2>4, <2>6 DEF SentBound
<1>3. ASSUME \A s \in Sender : ~(Write(s) /\ Reading),
             \A s \in Sender, c \in Command : ~Send(s, c)
      PROVE  SentBound' /\ WrittenOnce'
  <2>1. /\ UNCHANGED <<sent, written>>
        /\ \A s \in Sender :
             /\ writer'[s] # "idle" => writer[s] # "idle"
             /\ writer'[s] \in {"sending", "opening", "open"} =>
                  writer[s] \in {"sending", "opening", "open"}
    BY <1>3, WriterMoves
  <2>2. Sent' = Sent
    BY <2>1 DEF Sent
  <2>3. SentBound'
    BY <2>1, <2>2 DEF SentBound
  <2>4. \A k \in 1..Len(written) : written[k].line[1] \in Sender
    BY DEF WrittenOnce, Sent, Line
  <2>5. WrittenOnce'
    BY <2>1, <2>2, <2>4 DEF WrittenOnce
  <2> QED BY <2>3, <2>5
<1> QED BY <1>1, <1>2, <1>3

-----------------------------------------------------------------------------
(* What becomes of the lines in the pipe.                                  *)

LEMMA Positions ==
    ASSUME TypeOK, PipeIsSuffix
    PROVE  /\ Len(pipe) \in Nat /\ Len(written) \in Nat /\ Len(took) \in Nat
           /\ Gone \in 0..Len(written) /\ Len(pipe) = Len(written) - Gone
  BY DEF TypeOK, PipeIsSuffix, Gone

\* Nothing moves; the wrapper has not closed a pipe that has lines in it.
LEMMA PipeKept ==
    ASSUME TypeOK, PipeIsSuffix, Openings, LostOnlyInACrowd,
           UNCHANGED <<took, pipe, written, lost>>,
           wrapper = "reading" => wrapper' = "reading" \/ pipe = <<>>
    PROVE  PipeIsSuffix' /\ Openings' /\ LostOnlyInACrowd'
<1>1. PipeIsSuffix' /\ LostOnlyInACrowd' /\ Gone' = Gone
  BY DEF PipeIsSuffix, LostOnlyInACrowd, Gone
<1>2. CASE wrapper = "reading" => wrapper' = "reading"
  BY <1>1, <1>2, Positions DEF Openings
<1>3. CASE pipe = <<>>
  <2>1. (Gone + 1)..Len(written) = {}
    BY <1>3, Positions
  <2> QED BY <1>1, <2>1 DEF Openings
<1> QED BY <1>1, <1>2, <1>3

\* The lines that go with the buffer come after the ones taken, and met an
\* opening that has delivered one of those.
LEMMA ReleaseKeeps ==
    ASSUME TypeOK, WrittenOnce, PipeIsSuffix, Openings, LostOnlyInACrowd,
           Release, UNCHANGED <<took, written>>, wrapper # "reading"
    PROVE  PipeIsSuffix' /\ Openings' /\ LostOnlyInACrowd'
<1>1. /\ pipe' = <<>> /\ lost' = lost \cup ToSet(pipe)
      /\ \A x : x \in ToSet(pipe) <=> \E i \in 1..Len(pipe) : x = pipe[i]
  BY ToSetFacts DEF Release, TypeOK
<1>2. \A x \in ToSet(pipe) : \E k \in (Gone + 1)..Len(written) : x = written[k].line
  <2> SUFFICES ASSUME NEW i \in 1..Len(pipe)
               PROVE  \E k \in (Gone + 1)..Len(written) : pipe[i] = written[k].line
    BY <1>1
  <2>1. Gone + i \in (Gone + 1)..Len(written) /\ pipe[i] = written[Gone + i].line
    BY Positions DEF PipeIsSuffix
  <2> QED BY <2>1
<1>3. Gone' = Len(written) /\ Gone <= Len(written)
  BY <1>1, Positions DEF Gone
<1>4. PipeIsSuffix'
  <2>1. \A l \in lost' : \E k \in 1..Len(written) : l = written[k].line
    BY <1>1, <1>2, Positions DEF PipeIsSuffix
  <2>2. \A i \in 1..Len(took) : \E k \in 1..Len(written) : took[i] = written[k].line
    BY Positions DEF PipeIsSuffix
  <2> QED BY <1>1, <1>3, <2>1, <2>2, Positions DEF PipeIsSuffix
<1>5. Openings'
  BY <1>3, Positions DEF Openings
<1>6. LostOnlyInACrowd'
  <2>1. ASSUME NEW k \in 1..Len(written), written[k].line \in lost'
        PROVE  /\ written[k].opening \in 1..Len(took)
               /\ \E j \in 1..(k - 1) : took[written[k].opening] = written[j].line
    <3>1. CASE written[k].line \in lost
      BY <3>1 DEF LostOnlyInACrowd
    <3>2. CASE written[k].line \in ToSet(pipe)
      <4>1. k \in (Gone + 1)..Len(written)
        <5>1. PICK m \in (Gone + 1)..Len(written) : written[k].line = written[m].line
          BY <3>2, <1>2
        <5>2. m \in 1..Len(written)
          BY Positions
        <5>3. k = m
          BY <5>1, <5>2 DEF WrittenOnce
        <5> QED BY <5>3
      <4>2. written[k].opening \in 1..Len(took)
        BY <4>1 DEF Openings
      <4>3. PICK j \in 1..Gone : took[written[k].opening] = written[j].line
        BY <4>2 DEF PipeIsSuffix
      <4>4. j \in 1..(k - 1)
        BY <4>1, Positions
      <4> QED BY <4>2, <4>3, <4>4
    <3> QED BY <3>1, <3>2, <2>1, <1>1
  <2>2. lost' \cap ToSet(took) = {}
    <3> SUFFICES ASSUME NEW x \in ToSet(pipe), x \in ToSet(took) PROVE FALSE
      BY <1>1 DEF LostOnlyInACrowd
    <3>1. PICK k \in (Gone + 1)..Len(written) : x = written[k].line
      BY <1>2
    <3>2. PICK i \in 1..Len(took) : x = took[i]
      BY ToSetFacts DEF TypeOK
    <3>3. PICK j \in 1..Gone : took[i] = written[j].line
      BY DEF PipeIsSuffix
    <3>4. j \in 1..Len(written) /\ k \in 1..Len(written) /\ j # k
      BY Positions
    <3> QED BY <3>1, <3>2, <3>3, <3>4 DEF WrittenOnce
  <2> QED BY <2>1, <2>2 DEF LostOnlyInACrowd
<1> QED BY <1>4, <1>5, <1>6

\* The line taken is the first one in the pipe; all taken or lost ones were
\* written before it.
LEMMA ReadLineKeeps ==
    ASSUME TypeOK, WrittenOnce, PipeIsSuffix, Openings, LostOnlyInACrowd, ReadLine
    PROVE  PipeIsSuffix' /\ Openings' /\ LostOnlyInACrowd'
<1>1. /\ wrapper = "reading" /\ wrapper' = "took"
      /\ took' = Append(took, Head(pipe)) /\ pipe' = Tail(pipe) /\ pipe # <<>>
      /\ UNCHANGED <<written, lost>>
  BY DEF ReadLine, writerVars
<1>2. /\ Len(pipe) >= 1 /\ pipe[1] = written[Gone + 1].line /\ pipe[1] \in Line
      /\ Len(pipe') = Len(pipe) - 1
      /\ \A i \in 1..(Len(pipe) - 1) : pipe'[i] = pipe[i + 1]
  <2>1. pipe \in Seq(Line)
    BY DEF TypeOK
  <2>2. Len(pipe) \in Nat \ {0}
    BY <1>1, <2>1, TailFacts
  <2> QED BY <1>1, <2>1, <2>2, TailFacts DEF PipeIsSuffix
<1>3. /\ Len(took') = Len(took) + 1
      /\ \A i \in 1..Len(took) : took'[i] = took[i]
      /\ took'[Len(took) + 1] = written[Gone + 1].line
  <2>1. took' = Append(took, pipe[1]) /\ took \in Seq(Line)
    BY <1>1, TailFacts DEF TypeOK
  <2> QED BY <2>1, <1>2, AppendFacts
<1>4. Gone' = Gone + 1 /\ Gone + 1 \in 1..Len(written)
  BY <1>1, <1>2, Positions DEF Gone
<1>5. PipeIsSuffix'
  <2>1. \A i \in 1..Len(pipe') : pipe'[i] = written[Gone' + i].line
    <3> SUFFICES ASSUME NEW i \in 1..Len(pipe') PROVE pipe'[i] = written[Gone' + i].line
      OBVIOUS
    <3>1. i + 1 \in 1..Len(pipe) /\ pipe'[i] = pipe[i + 1]
      BY <1>2, Positions
    <3>2. pipe[i + 1] = written[Gone + (i + 1)].line
      BY <3>1 DEF PipeIsSuffix
    <3>3. Gone + (i + 1) = Gone' + i
      BY <1>4, Positions
    <3> QED BY <3>1, <3>2, <3>3
  <2>2. \A i \in 1..Len(took') : \E k \in 1..Gone' : took'[i] = written[k].line
    <3> SUFFICES ASSUME NEW i \in 1..Len(took')
                 PROVE  \E k \in 1..Gone' : took'[i] = written[k].line
      OBVIOUS
    <3>1. CASE i \in 1..Len(took)
      <4>1. PICK k \in 1..Gone : took[i] = written[k].line
        BY <3>1 DEF PipeIsSuffix
      <4>2. k \in 1..Gone'
        BY <1>4, Positions
      <4> QED BY <4>1, <4>2, <3>1, <1>3
    <3>2. CASE i = Len(took) + 1
      BY <3>2, <1>3, <1>4, Positions
    <3> QED BY <3>1, <3>2, <1>3, Positions
  <2>3. \A l \in lost' : \E k \in 1..Gone' : l = written[k].line
    BY <1>1, <1>4, Positions DEF PipeIsSuffix
  <2>4. Len(pipe') <= Len(written')
    BY <1>1, <1>2, Positions
  <2> QED BY <1>1, <2>1, <2>2, <2>3, <2>4 DEF PipeIsSuffix
<1>6. Openings'
  BY <1>1, <1>3, <1>4, Positions DEF Openings
<1>7. LostOnlyInACrowd'
  <2>1. ASSUME NEW k \in 1..Len(written), written[k].line \in lost
        PROVE  /\ written[k].opening \in 1..Len(took')
               /\ \E j \in 1..(k - 1) : took'[written[k].opening] = written[j].line
    <3>1. /\ written[k].opening \in 1..Len(took)
          /\ \E j \in 1..(k - 1) : took[written[k].opening] = written[j].line
      BY <2>1 DEF LostOnlyInACrowd
    <3> QED BY <3>1, <1>3, Positions
  <2>2. ASSUME NEW i \in 1..Len(took'), NEW j \in 1..Len(took'), i < j
        PROVE  \E k, l \in 1..Len(written) :
                 k < l /\ written[k].line = took'[i] /\ written[l].line = took'[j]
    <3>1. i \in 1..Len(took) /\ (j \in 1..Len(took) \/ j = Len(took) + 1)
      BY <2>2, <1>3, Positions
    <3>2. CASE j \in 1..Len(took)
      <4>1. \E k, l \in 1..Len(written) :
              k < l /\ written[k].line = took[i] /\ written[l].line = took[j]
        BY <3>1, <3>2, <2>2 DEF LostOnlyInACrowd
      <4>2. took'[i] = took[i] /\ took'[j] = took[j]
        BY <3>1, <3>2, <1>3
      <4> QED BY <4>1, <4>2
    <3>3. CASE j = Len(took) + 1
      <4>1. PICK k \in 1..Gone : took[i] = written[k].line
        BY <3>1 DEF PipeIsSuffix
      <4>2. k \in 1..Len(written) /\ k < Gone + 1
        BY <1>4, Positions
      <4> QED BY <4>1, <4>2, <3>1, <3>3, <1>3, <1>4
    <3> QED BY <3>1, <3>2, <3>3
  <2>3. lost \cap ToSet(took') = {}
    <3> SUFFICES ASSUME NEW x \in lost, x \in ToSet(took') PROVE FALSE
      OBVIOUS
    <3>1. PICK i \in 1..Len(took') : x = took'[i]
      BY <1>1, <1>2, TailFacts, AppendFacts, ToSetFacts DEF TypeOK, ToSet
    <3>2. CASE i \in 1..Len(took)
      BY <3>1, <3>2, <1>3, ToSetFacts DEF LostOnlyInACrowd, TypeOK
    <3>3. CASE i = Len(took) + 1
      <4>1. PICK k \in 1..Gone : x = written[k].line
        BY DEF PipeIsSuffix
      <4>2. k \in 1..Len(written) /\ k # Gone + 1
        BY <1>4, Positions
      <4>3. written[k].line = written[Gone + 1].line
        BY <4>1, <3>1, <3>3, <1>3
      <4> QED BY <4>2, <4>3, <1>4 DEF WrittenOnce
    <3> QED BY <3>2, <3>3, <1>3, Positions
  <2> QED BY <1>1, <2>1, <2>2, <2>3 DEF LostOnlyInACrowd
<1> QED BY <1>5, <1>6, <1>7

\* A line written comes last, was never written before, and meets an opening
\* that has delivered a line or the present one.
LEMMA WriteKeeps ==
    ASSUME TypeOK, SentBound, WrittenOnce, PipeIsSuffix, Openings, LostOnlyInACrowd,
           Progress, NEW s \in Sender, Write(s), Reading
    PROVE  PipeIsSuffix' /\ Openings' /\ LostOnlyInACrowd'
<1> DEFINE new == <<s, Len(sent[s])>>
           entry == [line |-> new, opening |-> Opening]
<1>1. /\ writer[s] = "open"
      /\ pipe' = Append(pipe, new) /\ written' = Append(written, entry)
      /\ UNCHANGED <<wrapper, took, lost>>
  BY DEF Write, wrapperVars
<1>2. new \in Line
  BY <1>1, LineToWrite
<1>3. Opening \in 1..(IF wrapper = "reading" THEN Len(took) + 1 ELSE Len(took))
  BY DEF Opening, Reading, Progress, TypeOK
<1>4. entry \in [line : Line, opening : Nat] /\ entry.line = new /\ entry.opening = Opening
  <2>1. Opening \in Nat
    BY <1>3
  <2> QED BY <1>2, <2>1
<1>5. \A k \in 1..Len(written) : written[k].line # new
  <2> SUFFICES ASSUME NEW k \in 1..Len(written), written[k].line = new PROVE FALSE
    OBVIOUS
  <2>1. written[k].line[1] = s /\ written[k].line[2] = Len(sent[s])
    OBVIOUS
  <2>2. Len(sent[s]) < Len(sent[s])
    BY <2>1, <1>1 DEF WrittenOnce
  <2> QED BY <2>2 DEF TypeOK
<1> HIDE DEF new, entry
<1>6. /\ Len(pipe') = Len(pipe) + 1 /\ Len(written') = Len(written) + 1
      /\ \A i \in 1..Len(pipe) : pipe'[i] = pipe[i]
      /\ \A k \in 1..Len(written) : written'[k] = written[k]
      /\ pipe'[Len(pipe) + 1] = new
      /\ written'[Len(written) + 1] = entry
  BY <1>1, <1>2, <1>4, AppendFacts DEF TypeOK
<1>7. Gone' = Gone
  BY <1>6, Positions DEF Gone
<1>8. PipeIsSuffix'
  <2>1. \A i \in 1..Len(pipe') : pipe'[i] = written'[Gone' + i].line
    <3> SUFFICES ASSUME NEW i \in 1..Len(pipe') PROVE pipe'[i] = written'[Gone + i].line
      BY <1>7
    <3>1. CASE i \in 1..Len(pipe)
      <4>1. Gone + i \in 1..Len(written) /\ pipe[i] = written[Gone + i].line
        BY <3>1, Positions DEF PipeIsSuffix
      <4> QED BY <4>1, <3>1, <1>6
    <3>2. CASE i = Len(pipe) + 1
      <4>1. Gone + i = Len(written) + 1
        BY <3>2, Positions
      <4> QED BY <4>1, <3>2, <1>4, <1>6
    <3> QED BY <3>1, <3>2, <1>6, Positions
  <2>2. \A k \in 1..Gone : k \in 1..Len(written) /\ written'[k] = written[k]
    BY <1>6, Positions
  <2>3. Len(pipe') <= Len(written')
    BY <1>6, Positions
  <2> QED BY <1>1, <1>7, <2>1, <2>2, <2>3 DEF PipeIsSuffix
<1>9. Openings'
  <2> SUFFICES ASSUME NEW k \in (Gone + 1)..(Len(written) + 1)
               PROVE  written'[k].opening \in
                        1..(IF wrapper = "reading" THEN Len(took) + 1 ELSE Len(took))
    BY <1>1, <1>6, <1>7 DEF Openings
  <2>1. CASE k \in (Gone + 1)..Len(written)
    <3>1. k \in 1..Len(written)
      BY <2>1, Positions
    <3> QED BY <2>1, <3>1, <1>6 DEF Openings
  <2>2. CASE k = Len(written) + 1
    BY <2>2, <1>3, <1>4, <1>6
  <2> QED BY <2>1, <2>2, Positions
<1>10. LostOnlyInACrowd'
  <2>1. \A l \in lost : l # new
    <3> SUFFICES ASSUME NEW l \in lost PROVE l # new
      OBVIOUS
    <3>1. PICK k \in 1..Gone : l = written[k].line
      BY DEF PipeIsSuffix
    <3>2. k \in 1..Len(written)
      BY Positions
    <3> QED BY <3>1, <3>2, <1>5
  <2>2. ASSUME NEW k \in 1..Len(written'), written'[k].line \in lost
        PROVE  /\ written'[k].opening \in 1..Len(took)
               /\ \E j \in 1..(k - 1) : took[written'[k].opening] = written'[j].line
    <3>1. k \in 1..Len(written) /\ written'[k] = written[k]
      BY <2>1, <2>2, <1>4, <1>6, Positions
    <3>2. /\ written[k].opening \in 1..Len(took)
          /\ \E j \in 1..(k - 1) : took[written[k].opening] = written[j].line
      BY <2>2, <3>1 DEF LostOnlyInACrowd
    <3>3. \A j \in 1..(k - 1) : written'[j] = written[j]
      BY <3>1, <1>6, Positions
    <3> QED BY <3>1, <3>2, <3>3
  <2>3. ASSUME NEW i \in 1..Len(took), NEW j \in 1..Len(took), i < j
        PROVE  \E k, l \in 1..Len(written') :
                 k < l /\ written'[k].line = took[i] /\ written'[l].line = took[j]
    <3>1. PICK k, l \in 1..Len(written) :
            k < l /\ written[k].line = took[i] /\ written[l].line = took[j]
      BY <2>3 DEF LostOnlyInACrowd
    <3>2. k \in 1..Len(written') /\ l \in 1..Len(written')
      BY <1>6, Positions
    <3> QED BY <3>1, <3>2, <1>6
  <2>4. lost \cap ToSet(took) = {}
    BY DEF LostOnlyInACrowd
  <2>5. took' = took /\ lost' = lost
    BY <1>1
  <2> QED BY <2>2, <2>3, <2>4, <2>5 DEF LostOnlyInACrowd
<1> QED BY <1>8, <1>9, <1>10

LEMMA PipeStep ==
    ASSUME TypeOK, LinesInv, Progress, [Next]_vars
    PROVE  PipeIsSuffix' /\ Openings' /\ LostOnlyInACrowd'
<1> USE DEF wrapperVars, writerVars, LinesInv
<1>1. CASE ReadLine
  BY <1>1, ReadLineKeeps
<1>2. CASE EndOfFile
  BY <1>2, PipeKept DEF EndOfFile
<1>3. CASE ClosePipe
  <2>1. CASE Release
    BY <1>3, <2>1, ReleaseKeeps DEF ClosePipe
  <2>2. CASE ~Release
    BY <1>3, <2>2, PipeKept DEF ClosePipe
  <2> QED BY <2>1, <2>2
<1>4. CASE Started \/ OpenPipe \/ Pause \/ Resume \/ Restart \/ Quit \/ StartAgain
  <2>1. UNCHANGED <<took, pipe, written, lost>> /\ wrapper # "reading"
    BY <1>4 DEF Started, OpenPipe, Pause, Resume, Restart, Quit, Received, StartAgain
  <2> QED BY <2>1, PipeKept
<1>5. ASSUME NEW s \in Sender, Echo(s)
      PROVE  PipeIsSuffix' /\ Openings' /\ LostOnlyInACrowd'
  <2>1. CASE Write(s) /\ Reading
    BY <2>1, WriteKeeps
  <2>2. CASE (Write(s) \/ WriterCloses(s)) /\ ~Reading /\ Release
    <3>1. UNCHANGED <<took, written>> /\ wrapper # "reading"
      BY <2>2 DEF Write, WriterCloses, Reading
    <3> QED BY <3>1, <2>2, ReleaseKeeps
  <2>3. CASE (Write(s) \/ WriterCloses(s)) /\ ~(Write(s) /\ Reading) /\ UNCHANGED <<pipe, lost>>
    <3>1. UNCHANGED <<wrapper, took, written>>
      BY <2>3 DEF Write, WriterCloses
    <3> QED BY <3>1, <2>3, PipeKept
  <2>4. CASE WriterOpens(s) \/ ExecFails(s)
    BY <2>4, PipeKept DEF WriterOpens, ExecFails
  <2>5. ASSUME Write(s) \/ WriterCloses(s)
        PROVE  \/ Write(s) /\ Reading
               \/ ~Reading /\ Release
               \/ ~(Write(s) /\ Reading) /\ UNCHANGED <<pipe, lost>>
    BY <2>5 DEF Write, WriterCloses
  <2>6. CASE Write(s) \/ WriterCloses(s)
    BY <2>1, <2>2, <2>3, <2>5, <2>6
  <2> QED BY <1>5, <2>4, <2>6 DEF Echo
<1>6. ASSUME NEW s \in Sender, NEW c \in Command, Send(s, c)
      PROVE  PipeIsSuffix' /\ Openings' /\ LostOnlyInACrowd'
  BY <1>6, PipeKept DEF Send
<1>7. ASSUME NEW p \in Pid, Die(p) \/ Reap(p)
      PROVE  PipeIsSuffix' /\ Openings' /\ LostOnlyInACrowd'
  BY <1>7, PipeKept DEF Die, Reap
<1>8. CASE UNCHANGED vars
  BY <1>8, PipeKept DEF vars
<1> QED BY <1>1, <1>2, <1>3, <1>4, <1>5, <1>6, <1>7, <1>8 DEF Next, Script

-----------------------------------------------------------------------------
(* The node and the commands.                                              *)

\* What was sent stays as it was.
LEMMA TextKept ==
    ASSUME TypeOK, SentBound, [Next]_vars, NEW l \in Sent
    PROVE  sent'[l[1]][l[2]] = sent[l[1]][l[2]]
<1>1. ASSUME NEW s \in Sender, NEW c \in Command, Send(s, c)
      PROVE  sent'[l[1]][l[2]] = sent[l[1]][l[2]]
  <2>1. sent'[s] = Append(sent[s], c) /\ \A r \in Sender \ {s} : sent'[r] = sent[r]
    BY <1>1, SendAdds
  <2>2. l[1] \in Sender /\ l[2] \in 1..Len(sent[l[1]])
    BY DEF Sent, Line, TypeOK
  <2>3. CASE l[1] = s
    BY <2>1, <2>2, <2>3, AppendFacts DEF TypeOK
  <2> QED BY <2>1, <2>2, <2>3
<1>2. ASSUME NEW s \in Sender, Write(s)
      PROVE  sent'[l[1]][l[2]] = sent[l[1]][l[2]]
  BY <1>2 DEF Write
<1> QED BY <1>1, <1>2, WriterMoves

\* The last line taken, and the one before, were sent.
LEMMA LastTook ==
    ASSUME TypeOK, LinesInv
    PROVE  /\ took # <<>> => Last(took) \in Sent
           /\ Done # <<>> => Last(Done) \in Sent
<1>1. took \in Seq(Line) /\ Len(took) \in Nat
  BY DEF TypeOK
<1>2. took # <<>> => Len(took) \in 1..Len(took)
  BY <1>1
<1>3. took # <<>> => Last(took) \in Sent
  BY <1>2, TookOnce DEF Last
<1>4. CASE Done = took
  BY <1>3, <1>4
<1>5. CASE Done = Front(took) /\ Done # <<>>
  <2>1. took # <<>>
    BY <1>1, <1>5 DEF Front
  <2>2. /\ Len(Front(took)) = Len(took) - 1
        /\ \A i \in 1..(Len(took) - 1) : Front(took)[i] = took[i]
    BY <1>1, <2>1, FrontFacts
  <2>3. Len(took) - 1 # 0 /\ Len(took) \in Nat \ {0}
    BY <1>1, <1>5, <2>1, FrontFacts
  <2>4. Len(took) - 1 \in 1..Len(took) /\ Len(took) - 1 \in 1..(Len(took) - 1)
    BY <2>3
  <2>5. Last(Done) = took[Len(took) - 1]
    <3>1. Last(Front(took)) = Front(took)[Len(took) - 1]
      BY <2>2 DEF Last
    <3>2. Front(took)[Len(took) - 1] = took[Len(took) - 1]
      BY <2>2, <2>4
    <3> QED BY <1>5, <3>1, <3>2
  <2> QED BY <1>3, <2>4, <2>5, TookOnce
<1> QED BY <1>3, <1>4, <1>5 DEF Done

\* Senders and echoes do not change what the wrapper has done.
LEMMA ScriptWaits ==
    ASSUME TypeOK, LinesInv, Progress, NodeFollowsCommands, [Next]_vars,
           UNCHANGED <<wrapper, took, child, proc>>
    PROVE  Progress' /\ NodeFollowsCommands'
<1>1. Done' = Done
  BY DEF Done
<1>2. \A p \in Pid : Alive(p)' <=> Alive(p)
  BY DEF Alive
<1>3. child \in Pid
  BY DEF TypeOK
<1>4. took # <<>> => (Text(Last(took)))' = Text(Last(took))
  BY LastTook, TextKept DEF LinesInv, Text
<1>5. Done # <<>> => (Text(Last(Done)))' = Text(Last(Done))
  BY <1>1, LastTook, TextKept DEF LinesInv, Text
<1>6. Progress'
  BY <1>2, <1>3, <1>4 DEF Progress
<1>7. NodeFollowsCommands'
  BY <1>1, <1>2, <1>3, <1>5 DEF NodeFollowsCommands
<1> QED BY <1>6, <1>7

LEMMA ScriptStep ==
    ASSUME TypeOK, TypeOK', LinesInv, Progress, NodeFollowsCommands, Script
    PROVE  Progress' /\ NodeFollowsCommands'
<1> USE DEF wrapperVars, writerVars
<1>0. child \in Nat /\ Len(took) \in Nat /\ child \in Pid
  BY DEF TypeOK, Pid
<1>1. CASE End /\ UNCHANGED took
  <2>1. wrapper' = "over" /\ child' = child /\ took' = took
    BY <1>1 DEF End
  <2> QED BY <2>1, <1>0 DEF Progress, NodeFollowsCommands
<1>2. CASE Started /\ ~End
  BY <1>2, <1>0 DEF Started, Progress, NodeFollowsCommands, Done, Alive
<1>3. CASE OpenPipe
  BY <1>3, <1>0 DEF OpenPipe, Progress, NodeFollowsCommands, Done, Alive, Text
<1>4. CASE ReadLine
  <2>1. /\ wrapper = "reading" /\ wrapper' = "took" /\ pipe # <<>>
        /\ took' = Append(took, Head(pipe))
        /\ UNCHANGED <<child, proc, sent>>
    BY <1>4 DEF ReadLine
  <2>2. Len(took') = Len(took) + 1 /\ took' # <<>> /\ Front(took') = took
    <3>1. Head(pipe) \in Line /\ took \in Seq(Line)
      BY <2>1, TailFacts DEF TypeOK
    <3> QED BY <2>1, <3>1, AppendFacts
  <2>3. Done' = Done
    BY <2>1, <2>2 DEF Done
  <2>4. (Text(Last(Done)))' = Text(Last(Done))
    BY <2>1, <2>3 DEF Text
  <2>5. Progress'
    BY <2>1, <2>2, <1>0 DEF Progress
  <2>6. NodeFollowsCommands'
    BY <2>1, <2>3, <2>4 DEF NodeFollowsCommands, Alive
  <2> QED BY <2>5, <2>6
<1>5. CASE ClosePipe
  BY <1>5, <1>0 DEF ClosePipe, Progress, NodeFollowsCommands
<1>6. ASSUME NEW state \in {"running", "stopped", "zombie"},
             NEW next \in {"loop", "asleep"}, Signal(state, next), ~End
      PROVE  /\ wrapper' = next /\ child' = child
             /\ proc'[child] = "zombie" \/ proc'[child] = state
  BY <1>6 DEF Signal, TypeOK
<1>7. CASE Pause /\ ~End
  <2>1. /\ wrapper = "command" /\ took' = took /\ sent' = sent
        /\ Text(Last(took)) = "pause" /\ Signal("stopped", "loop")
    BY <1>7 DEF Pause, Received
  <2>2. /\ wrapper' = "loop" /\ child' = child
        /\ proc'[child] = "zombie" \/ proc'[child] = "stopped"
    BY <2>1, <1>6, <1>7
  <2>3. took # <<>> /\ child <= Len(took)
    BY <2>1 DEF Progress
  <2>4. (Text(Last(took)))' = "pause"
    BY <2>1 DEF Text
  <2> QED BY <2>1, <2>2, <2>3, <2>4, <1>0 DEF Progress, NodeFollowsCommands, Done, Alive
<1>8. CASE Resume /\ ~End
  <2>1. /\ wrapper = "command" /\ took' = took /\ sent' = sent
        /\ Text(Last(took)) = "resume" /\ Signal("running", "loop")
    BY <1>8 DEF Resume, Received
  <2>2. /\ wrapper' = "loop" /\ child' = child
        /\ proc'[child] = "zombie" \/ proc'[child] = "running"
    BY <2>1, <1>6, <1>8
  <2>3. took # <<>> /\ child <= Len(took)
    BY <2>1 DEF Progress
  <2>4. (Text(Last(took)))' = "resume"
    BY <2>1 DEF Text
  <2> QED BY <2>1, <2>2, <2>3, <2>4, <1>0 DEF Progress, NodeFollowsCommands, Done, Alive
<1>9. CASE Restart /\ ~End
  <2>1. /\ wrapper = "command" /\ took' = took /\ sent' = sent
        /\ Text(Last(took)) = "restart" /\ Signal("zombie", "asleep")
    BY <1>9 DEF Restart, Received
  <2>2. wrapper' = "asleep" /\ child' = child /\ proc'[child] = "zombie"
    BY <2>1, <1>6, <1>9
  <2>3. took # <<>> /\ child <= Len(took)
    BY <2>1 DEF Progress
  <2>4. (Text(Last(took)))' = "restart"
    BY <2>1 DEF Text
  <2> QED BY <2>1, <2>2, <2>3, <2>4, <1>0 DEF Progress, NodeFollowsCommands, Alive
<1>10. CASE StartAgain
  <2>1. /\ wrapper = "asleep" /\ wrapper' = "loop" /\ took' = took /\ sent' = sent
        /\ child' = child + 1 /\ proc' = [proc EXCEPT ![child'] = "running"]
    BY <1>10 DEF StartAgain
  <2>2. took # <<>> /\ child <= Len(took) /\ Text(Last(took)) = "restart"
    BY <2>1 DEF Progress
  <2>3. proc'[child'] = "running"
    BY <2>1 DEF TypeOK
  <2>4. (Text(Last(took)))' = "restart"
    BY <2>1, <2>2 DEF Text
  <2> QED BY <2>1, <2>2, <2>3, <2>4, <1>0 DEF Progress, NodeFollowsCommands, Done
<1>11. Started \/ EndOfFile \/ Pause \/ Resume \/ Restart \/ Quit => took' = took
  BY DEF Started, EndOfFile, Pause, Resume, Restart, Quit, Received
<1>12. EndOfFile \/ Quit => End
  BY DEF EndOfFile, Quit
<1> QED BY <1>1, <1>2, <1>3, <1>4, <1>5, <1>7, <1>8, <1>9, <1>10, <1>11, <1>12 DEF Script

LEMMA FollowsStep ==
    ASSUME TypeOK, TypeOK', LinesInv, Progress, NodeFollowsCommands, [Next]_vars
    PROVE  Progress' /\ NodeFollowsCommands'
<1> USE DEF wrapperVars, writerVars
<1>1. CASE Script
  BY <1>1, ScriptStep
<1>2. ASSUME NEW s \in Sender, Echo(s) PROVE UNCHANGED <<wrapper, took, child, proc>>
  BY <1>2 DEF Echo, WriterOpens, Write, WriterCloses, ExecFails
<1>3. ASSUME NEW s \in Sender, NEW c \in Command, Send(s, c)
      PROVE  UNCHANGED <<wrapper, took, child, proc>>
  BY <1>3 DEF Send
<1>4. ASSUME NEW p \in Pid, Die(p) \/ Reap(p)
      PROVE  Progress' /\ NodeFollowsCommands'
  <2>1. UNCHANGED <<wrapper, took, child, sent>>
    BY <1>4 DEF Die, Reap
  <2>2. child \in Pid /\ proc \in [Pid -> {"none", "running", "stopped", "zombie", "gone"}]
        /\ \A q \in Pid : Alive(q) => q = child
    BY DEF TypeOK
  <2>3. Alive(child)' => Alive(child) /\ proc'[child] = proc[child]
    BY <1>4, <2>1, <2>2 DEF Die, Reap, Alive
  <2>4. proc'[child] = "stopped" => proc[child] = "stopped"
    BY <1>4, <2>1, <2>2 DEF Die, Reap, Alive
  <2>5. Done' = Done /\ (Text(Last(took)))' = Text(Last(took))
    BY <2>1 DEF Done, Text
  <2>6. (Text(Last(Done)))' = Text(Last(Done))
    BY <2>1, <2>5 DEF Text
  <2>7. Progress'
    BY <2>1, <2>3, <2>4, <2>5 DEF Progress
  <2>8. NodeFollowsCommands'
    BY <2>1, <2>3, <2>5, <2>6 DEF NodeFollowsCommands
  <2> QED BY <2>7, <2>8
<1>5. CASE UNCHANGED vars
  BY <1>5, ScriptWaits DEF vars
<1> QED BY <1>1, <1>2, <1>3, <1>4, <1>5, ScriptWaits DEF Next

-----------------------------------------------------------------------------
LEMMA InitIInv == Init => IInv
<1> SUFFICES ASSUME Init PROVE IInv
  OBVIOUS
<1>1. TypeOK
  <2>1. 1 \in Pid
    BY WrapperAssumption DEF Pid
  <2>2. /\ took \in Seq(Line) /\ pipe \in Seq(Line) /\ sent \in [Sender -> Seq(Command)]
        /\ written \in Seq([line : Line, opening : Nat])
    BY DEF Init
  <2>3. /\ proc \in [Pid -> {"none", "running", "stopped", "zombie", "gone"}]
        /\ \A p \in Pid : Alive(p) => p = child
    BY DEF Init, Alive
  <2> QED BY <2>1, <2>2, <2>3 DEF Init, TypeOK
<1>2. SentBound
  <2>1. Sent = {}
    BY DEF Sent, Line, Init
  <2> QED BY <2>1, FS_EmptySet, WrapperAssumption DEF SentBound, Init
<1>3. WrittenOnce /\ PipeIsSuffix /\ Openings
  BY DEF Init, WrittenOnce, PipeIsSuffix, Openings, Gone
<1>4. LostOnlyInACrowd
  BY DEF Init, LostOnlyInACrowd
<1>5. Progress
  BY WrapperAssumption DEF Init, Progress, Pid
<1>6. NodeFollowsCommands
  BY DEF Init, NodeFollowsCommands
<1> QED BY <1>1, <1>2, <1>3, <1>4, <1>5, <1>6 DEF IInv, LinesInv

LEMMA Invariance == Spec => []IInv
<1>1. IInv /\ [Next]_vars => IInv'
  <2> SUFFICES ASSUME IInv, [Next]_vars PROVE IInv'
    OBVIOUS
  <2>1. TypeOK'
    BY TypeStep DEF IInv
  <2>2. SentBound' /\ WrittenOnce'
    BY SentStep DEF IInv, LinesInv
  <2>3. PipeIsSuffix' /\ Openings' /\ LostOnlyInACrowd'
    BY PipeStep DEF IInv
  <2>4. Progress' /\ NodeFollowsCommands'
    BY <2>1, FollowsStep DEF IInv
  <2> QED BY <2>1, <2>2, <2>3, <2>4 DEF IInv, LinesInv
<1> QED BY InitIInv, <1>1, PTL DEF Spec

(***************************************************************************)
(* The pids suffice for every restart, and at most one process of the node *)
(* is alive, child_pid (zombie-wrapper.sh:53-66).                          *)
(***************************************************************************)
THEOREM TypeCorrect == Spec => []TypeOK
  BY Invariance, PTL DEF IInv

(***************************************************************************)
(* A command whose echo has succeeded is lost only when it was written     *)
(* into an opening of the pipe that has delivered an earlier one, and      *)
(* commands are read in the order they were written in                     *)
(* (zombie-wrapper.sh:99-101).                                             *)
(***************************************************************************)
THEOREM EveryOpeningDelivers == Spec => []LostOnlyInACrowd
  BY Invariance, PTL DEF IInv, LinesInv

(***************************************************************************)
(* Between two commands a node that lives is stopped exactly if the last   *)
(* one was a pause (zombie-wrapper.sh:53-78).                              *)
(***************************************************************************)
THEOREM CommandsTakeEffect == Spec => []NodeFollowsCommands
  BY Invariance, PTL DEF IInv
=============================================================================
