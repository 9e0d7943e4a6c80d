-------------------------- MODULE ProbsatExecution --------------------------
(***************************************************************************)
(* One run of the probSAT program by a worker (probsat-execution.cpp): a   *)
(* child process behind a pipe, its output read as it comes and searched   *)
(* for the line with the number of flips, and a limit on its time.         *)
(*                                                                         *)
(* The output is a sequence of pieces that are written and read as a       *)
(* whole; a line may arrive in any number of reads.  Time passes in units  *)
(* that are fine enough to tell before, at and after the limit.            *)
(***************************************************************************)
EXTENDS Naturals, SequencesExt

CONSTANTS Outputs,      \* outputs the child may produce before it exits
          MaxExecTime,  \* probsat_max_exec_time
          BufferSize,   \* pieces one read takes at most
          LastTick      \* bound: when the clock stops

(* "numFlips" is the marker "c numFlips", "few" and "max" the number after  *)
(* it, max being probsat_max_flips.                                         *)
Pieces == {"text", "numFlips", "few", "max", "newline"}

ASSUME PEAssumption ==
  /\ Outputs \subseteq Seq(Pieces)
  /\ {MaxExecTime, BufferSize} \subseteq Nat \ {0}
  /\ LastTick \in Nat /\ LastTick > MaxExecTime

VARIABLES output,    \* all the child is going to write
          written,   \* how many pieces of it are written
          exited,    \* the child has closed its end of the pipe
          pipe,      \* pieces written and not read
          now,       \* time since the start
          pc,        \* where execute_probsat_ is
          bstr,      \* what was read of the current line
          reason,    \* its result code
          numFlips,  \* the number of flips; "unknown" is the initial maximum
          result     \* what execute_probsat returns

childVars == <<output, written, exited>>
vars == <<childVars, pipe, now, pc, bstr, reason, numFlips, result>>

Init ==
  /\ output \in Outputs
  /\ written = 0
  /\ exited = FALSE
  /\ pipe = <<>>
  /\ now = 0
  /\ pc = "select"
  /\ bstr = <<>>
  /\ reason = 0
  /\ numFlips = "unknown"
  /\ result = "none"

-----------------------------------------------------------------------------
(* The child and the clock                                                 *)

Write ==
  /\ ~exited /\ written < Len(output)
  /\ written' = written + 1
  /\ pipe' = Append(pipe, output[written + 1])
  /\ UNCHANGED <<output, exited, now, pc, bstr, reason, numFlips, result>>

(* The child ends when it has written everything, or is ended by SIGPIPE    *)
(* when pclose has closed the pipe.                                         *)
Exit ==
  /\ ~exited
  /\ written = Len(output) \/ pc = "pclose"
  /\ exited' = TRUE
  /\ UNCHANGED <<output, written, pipe, now, pc, bstr, reason, numFlips, result>>

Tick ==
  /\ now < LastTick
  /\ now' = now + 1
  /\ UNCHANGED <<childVars, pipe, pc, bstr, reason, numFlips, result>>

-----------------------------------------------------------------------------
(* The worker                                                              *)

(* Fault: the time is looked at before the pipe. *)
SelectFault ==
  /\ pc = "select"
  /\ \/ /\ now < MaxExecTime
        /\ pipe # <<>> \/ exited
        /\ pc' = "read"
        /\ UNCHANGED reason
     \/ /\ MaxExecTime <= now
        /\ reason' = 1
        /\ pc' = "pclose"
  /\ UNCHANGED <<childVars, pipe, now, bstr, numFlips, result>>

(* pselect returns when there is something to read, the end of the file     *)
(* included, or when the rest of the time is over.                          *)
Select ==
  /\ pc = "select"
  /\ \/ /\ pipe # <<>> \/ exited
        /\ pc' = "read"
        /\ UNCHANGED reason
     \/ /\ pipe = <<>> /\ ~exited
        /\ MaxExecTime <= now
        /\ reason' = 1
        /\ pc' = "pclose"
  /\ UNCHANGED <<childVars, pipe, now, bstr, numFlips, result>>

(* The complete lines of a text, in order, and what follows the last one.   *)
Newlines(text) == {i \in DOMAIN text : text[i] = "newline"}
LineStarts(text) == {1} \union {i + 1 : i \in Newlines(text)}

(* Where the first complete line that begins with the marker begins; none:  *)
(* the set is empty.                                                        *)
MarkerLines(text) ==
  {i \in LineStarts(text) \intersect DOMAIN text :
     text[i] = "numFlips" /\ \E j \in Newlines(text) : j > i}
FirstMarkerLine(text) ==
  {i \in MarkerLines(text) : \A j \in MarkerLines(text) : i <= j}

(* What the worker asserts of probSAT: the number stands behind the marker. *)
ASSUME NumbersAssumption ==
  \A text \in Outputs : \A i \in MarkerLines(text) : text[i + 1] \in {"few", "max"}

(* Fault: the rest of the last read is searched, but not kept. *)
LastLineFault(text) == <<>>

LastLine(text) ==
  LET ends == {0} \union Newlines(text)
  IN  SubSeq(text, 1 + CHOOSE i \in ends : \A j \in ends : j <= i, Len(text))

(* One turn of the inner loop: read what there is, put it behind the rest   *)
(* of the last read, and look at all lines that are complete.  An empty     *)
(* pipe leads back to pselect; a closed one reads as zero characters.       *)
Read ==
  LET size == IF Len(pipe) < BufferSize THEN Len(pipe) ELSE BufferSize
      text == bstr \o SubSeq(pipe, 1, size)
  IN  /\ pc = "read"
      /\ \/ /\ pipe = <<>> /\ ~exited
            /\ pc' = "select"
            /\ UNCHANGED <<pipe, bstr, reason, numFlips>>
         \/ /\ pipe = <<>> /\ exited
            /\ UNCHANGED <<pc, pipe, bstr, reason, numFlips>>
         \/ /\ pipe # <<>>
            /\ pipe' = SubSeq(pipe, size + 1, Len(pipe))
            /\ IF FirstMarkerLine(text) = {}
               THEN /\ bstr' = LastLine(text)
                    /\ UNCHANGED <<pc, reason, numFlips>>
               ELSE /\ \E i \in FirstMarkerLine(text) : numFlips' = text[i + 1]
                    /\ reason' = 255
                    /\ pc' = "pclose"
                    /\ UNCHANGED bstr
      /\ UNCHANGED <<childVars, now, result>>

(* Fault: the status of the child, which SIGPIPE may have ended, replaces   *)
(* the reason.                                                              *)
PcloseFault ==
  /\ pc = "pclose"
  /\ exited
  /\ pc' = "done"
  /\ result' = IF written < Len(output) THEN "ERROR"
               ELSE IF reason = 1 THEN "TIMEOUT"
               ELSE IF numFlips = "max" THEN "MAX_FLIPS" ELSE "SUCCESS"
  /\ UNCHANGED <<childVars, pipe, now, bstr, reason, numFlips>>

(* pclose waits for the child. *)
Pclose ==
  /\ pc = "pclose"
  /\ exited
  /\ pc' = "done"
  /\ result' = CASE reason = 1 -> "TIMEOUT"
                 [] reason = 255 /\ numFlips = "max" -> "MAX_FLIPS"
                 [] reason = 255 /\ numFlips # "max" -> "SUCCESS"
                 [] OTHER -> "ERROR"
  /\ UNCHANGED <<childVars, pipe, now, bstr, reason, numFlips>>

Worker == Select \/ Read \/ Pclose

Finished == pc = "done" /\ UNCHANGED vars

Next == Write \/ Exit \/ Tick \/ Worker \/ Finished

(* The worker's process runs, time passes, and probSAT, which has a limit   *)
(* on its flips, ends some time.                                            *)
Fairness == WF_vars(Worker) /\ WF_vars(Tick) /\ WF_vars(Exit) /\ WF_vars(Write)

Spec == Init /\ [][Next]_vars /\ Fairness

-----------------------------------------------------------------------------
(* Properties                                                              *)

PETypeOK ==
  /\ output \in Outputs
  /\ written \in 0 .. Len(output)
  /\ exited \in BOOLEAN
  /\ pipe \in Seq(Pieces) /\ bstr \in Seq(Pieces)
  /\ now \in 0 .. LastTick
  /\ pc \in {"select", "read", "pclose", "done"}
  /\ reason \in {0, 1, 255}
  /\ numFlips \in {"unknown", "few", "max"}
  /\ result \in {"none", "ERROR", "TIMEOUT", "MAX_FLIPS", "SUCCESS"}

WrittenPart == SubSeq(output, 1, written)
ReadPart == SubSeq(WrittenPart, 1, Len(WrittenPart) - Len(pipe))

(* The number of flips is found as soon as the line with it was read, and   *)
(* only then, however the line was cut into reads; it is the number of the  *)
(* first such line.                                                         *)
FoundWhenRead ==
  /\ PETypeOK
  /\ reason = 255 <=> MarkerLines(ReadPart) # {}
  /\ reason = 255 =>
       \E i \in FirstMarkerLine(ReadPart) : numFlips = ReadPart[i + 1]

(* A timeout is reported only when the time was over and the child still    *)
(* ran without having written an answer that was not looked at.             *)
TimeoutIsLast ==
  [][reason' = 1 /\ reason = 0 =>
       now >= MaxExecTime /\ ~exited /\ MarkerLines(WrittenPart) = {}]_vars

(* When the child gives its answer, the line with the number of flips, the  *)
(* worker gets back to its scheduler, with this answer or with a timeout.   *)
WorkerReturns == MarkerLines(output) # {} => <>(pc = "done" /\ result # "ERROR")

(* The comment on probsat_max_exec_time: "maximum time for a single probsat *)
(* execution": when it is over, the execution ends.                         *)
TimeIsLimited == now >= MaxExecTime /\ exited ~> pc = "done"
=============================================================================
