------------------------------ MODULE Recorder ------------------------------
(***************************************************************************)
(* scripts/trace/recorder.py: a program that reads trace lines from its    *)
(* standard input, sorts the io of pynvme into a file for every queue and  *)
(* every five minutes, and saves the files in one archive each time the    *)
(* user says so in the window of a second process.                         *)
(*                                                                         *)
(* A line is [pynvme, time, qid, op, ranges]; trims have several ranges.   *)
(* The two processes share a queue, which is looked at before each line.   *)
(***************************************************************************)
EXTENDS Integers, Sequences, SequencesExt

CONSTANTS Lines,     \* lines of the standard input
          PERIOD,    \* 300000000, the microseconds of a directory
          FILES,     \* queues with a file, 1 .. 4
          SAMPLE,    \* 100: one line of so many is in the diagram
          MaxLines,  \* bound: lines
          MaxClicks  \* bound: answers of the user

VARIABLES rpc,          \* "base", "run", "save", "stopped", "end", "crashed"
          clicks,       \* the queue: "OK" or "None"
          answers,      \* answers given
          time_base,
          current_dir,  \* the directory at hand, in a set; {} for None
          files,        \* directory |-> queue |-> entries
          counter,
          diagram,      \* X: the times of the dots
          archive,      \* what was saved last, [files, diagram] in a set
          recorded,     \* history: line after line of this recording
          stdin         \* lines read

recvars == <<rpc, clicks, answers, time_base, current_dir, files, counter,
             diagram, archive, recorded, stdin>>

RecorderInit ==
    /\ rpc = "base" /\ clicks = <<>> /\ answers = 0
    /\ time_base = 0 /\ current_dir = {} /\ files = <<>>
    /\ counter = 0 /\ diagram = <<>>
    /\ archive = {} /\ recorded = <<>> /\ stdin = 0

-----------------------------------------------------------------------------
(* subprocess_gui: OK means start or stop, anything else is the end. *)
subprocess_gui(answer) ==
    /\ answers < MaxClicks
    /\ \A i \in DOMAIN clicks : clicks[i] # "None"
    /\ clicks' = Append(clicks, answer)
    /\ answers' = answers + 1
    /\ UNCHANGED <<rpc, time_base, current_dir, files, counter, diagram,
                   archive, recorded, stdin>>

(* create_trace_file: os.makedirs raises when the directory is there; the
   files of a new one are empty. *)
MakedirsRaises(dir) == dir \notin current_dir /\ dir \in DOMAIN files

create_trace_file(dir) ==
    IF dir \in current_dir THEN files
    ELSE [d \in DOMAIN files \cup {dir} |->
             IF d = dir THEN [q \in FILES |-> <<>>] ELSE files[d]]

(* trace_io_file: one entry for a command, one for each range of trims. *)
trace_io_file(usec, l) ==
    [i \in 1 .. (IF l.op = "trims" THEN l.ranges ELSE 1) |->
        [usec |-> usec, op |-> l.op]]

(* trace_io_diagram: a dot for each range; a flush has none. *)
trace_io_diagram(usec, l) ==
    [i \in 1 .. (IF l.op = "trims" THEN l.ranges
                 ELSE IF l.op = "flush" THEN 0 ELSE 1) |-> usec]

(* recorder_run: what an earlier recording left is removed, and the first
   line gives the time; its io is not recorded. *)
StartRun(l) ==
    /\ rpc = "base"
    /\ rpc' = "run"
    /\ files' = <<>> /\ current_dir' = {} /\ counter' = 0
    /\ time_base' = l.time
    /\ recorded' = <<>>
    /\ UNCHANGED <<clicks, answers, diagram, archive>>

(* A line when the user has said something: the call returns, its files are
   closed, and the line is lost. *)
Answered(next) ==
    /\ clicks # <<>>
    /\ clicks' = Tail(clicks)
    /\ rpc' = IF Head(clicks) = "None" THEN "end" ELSE next
    /\ UNCHANGED <<answers, time_base, current_dir, files, counter, archive,
                   recorded>>

Record(l) ==
    LET global_usec == l.time - time_base
        dir  == global_usec \div PERIOD
        made == create_trace_file(dir)
    IN  /\ rpc = "run" /\ clicks = <<>> /\ l.pynvme
        /\ IF MakedirsRaises(dir) \/ l.qid \notin FILES
           THEN /\ rpc' = "crashed"
                /\ UNCHANGED <<files, current_dir, counter, diagram, recorded>>
           ELSE /\ files' = [made EXCEPT ![dir][l.qid] =
                                @ \o trace_io_file(global_usec % PERIOD, l)]
                /\ current_dir' = {dir}
                /\ counter' = counter + 1
                /\ diagram' = IF counter' % SAMPLE = 0
                              THEN diagram \o trace_io_diagram(global_usec, l)
                              ELSE diagram
                /\ recorded' = Append(recorded, l)
                /\ UNCHANGED rpc
        /\ UNCHANGED <<clicks, answers, time_base, archive>>

Skip(l) ==
    /\ clicks = <<>>
    /\ (rpc = "run" /\ ~l.pynvme) \/ rpc = "stopped"
    /\ UNCHANGED <<rpc, clicks, answers, time_base, current_dir, files,
                   counter, diagram, archive, recorded>>

(* The loop of the program: X, Y and C are new for each recording. *)
ReadLine(l) ==
    /\ stdin < MaxLines /\ stdin' = stdin + 1
    /\ \/ StartRun(l)
       \/ rpc = "run" /\ Answered("save") /\ UNCHANGED diagram
       \/ rpc = "stopped" /\ Answered("base") /\ diagram' = <<>>
       \/ Record(l)
       \/ Skip(l)

(* generate_trace_file: all files go into the archive. *)
generate_trace_file == files

(* generate_trace_diagram: the picture starts at the first line. *)
generate_trace_diagram == SelectSeq(diagram, LAMBDA usec : usec >= 0)

(* recorder_stop_save, up to its loop: the archive goes into the picture. *)
recorder_stop_save ==
    /\ rpc = "save"
    /\ archive' = {[files |-> generate_trace_file,
                    diagram |-> generate_trace_diagram]}
    /\ files' = <<>>
    /\ rpc' = "stopped"
    /\ UNCHANGED <<clicks, answers, time_base, current_dir, counter, diagram,
                   recorded, stdin>>

(* The end of the input: the loops return None, but the first line has to be
   there. *)
EndOfInput ==
    /\ rpc \in {"base", "run", "stopped"}
    /\ rpc' = IF rpc = "base" THEN "crashed" ELSE "end"
    /\ UNCHANGED <<clicks, answers, time_base, current_dir, files, counter,
                   diagram, archive, recorded, stdin>>

RecorderNext ==
    \/ \E answer \in {"OK", "None"} : subprocess_gui(answer)
    \/ \E l \in Lines : ReadLine(l)
    \/ recorder_stop_save
    \/ EndOfInput

-----------------------------------------------------------------------------
(* The io of queue q in directory dir, among the lines of this recording. *)
Recorded(dir, q) ==
    LET own == SelectSeq(recorded, LAMBDA l :
                   l.qid = q /\ (l.time - time_base) \div PERIOD = dir)
    IN  FlattenSeq([i \in DOMAIN own |->
           [j \in 1 .. (IF own[i].op = "trims" THEN own[i].ranges ELSE 1) |->
               [usec |-> own[i].time - time_base - dir * PERIOD,
                op   |-> own[i].op]]])

(* What is saved when the user stops a recording replays, for every queue and
   every five minutes, the io of this recording and of no other, all of it, in
   order and at its time, however many recordings there were and however the
   times go back and forth; its diagram has times of this recording only. *)
TraceHoldsRun ==
    rpc = "stopped" =>
        \A a \in archive :
            /\ \A dir \in DOMAIN a.files, q \in FILES :
                  a.files[dir][q] = Recorded(dir, q)
            /\ \A i \in DOMAIN recorded :
                  (recorded[i].time - time_base) \div PERIOD \in DOMAIN a.files
            /\ \A x \in ToSet(a.diagram) :
                  \E i \in DOMAIN recorded :
                      i % SAMPLE = 0 /\ x = recorded[i].time - time_base
=============================================================================
