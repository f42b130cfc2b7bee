------------------------------ MODULE Session ------------------------------
(***************************************************************************)
(* The three processes that run one query, and the pipes between them:     *)
(* monitor/src/main.rs starts a disk (disk_simulator.rs) and a database    *)
(* (database/src/main.rs, disk_manager.rs), sends the query, answers       *)
(* get_memory_limit, and after "validate" collects lines up to "!".        *)
(*                                                                         *)
(* A pipe holds at most PipeSize messages; a write to a full one waits, a  *)
(* write to one nobody can read fails (Rust ignores SIGPIPE), and a read   *)
(* from an empty one nobody can write is end of file.  A message is a      *)
(* line, or one chunk of block data.  A reader's BufReader only adds to    *)
(* the capacity of the pipe.  The operators of the database are any        *)
(* program that calls the DiskManager and yields the rows of answer.       *)
(***************************************************************************)
EXTENDS Integers, SequencesExt

CONSTANTS
    Lines,          \* the text of rows
    PipeSize,
    OutSize,        \* rows monitor_out (a BufWriter) holds before it writes
    Chunks,         \* chunks of the data of one get or put block command
    MayFail,        \* subset of {"database", "disk"}
    MaxAnswer,      \* bound: rows of an answer
    MaxRequests,    \* bound: block commands the operators send
    MaxPadding      \* bound: empty lines recorded after end of file

ASSUME SessionAssumption ==
    /\ PipeSize \in Nat \ {0} /\ OutSize \in Nat \ {0} /\ Chunks \in Nat \ {0}
    /\ MayFail \subseteq {"database", "disk"}
    /\ MaxAnswer \in Nat /\ MaxRequests \in Nat /\ MaxPadding \in Nat \ {0}
    /\ Lines \cap {"blank", "!", "validate", "get_memory_limit"} = {}

Message == Lines \cup {"query", "limit", "blank", "!", "validate", "get_memory_limit"}

VARIABLES
    expected,      \* the lines of expected_output_file
    answer,        \* the lines of the rows the operators yield
    sort_before_check,
    monitor,       \* where the monitor is
    db_lines,      \* what validate has collected
    result,        \* what handle_db returned: none, ok or error
    database,      \* where the database is
    request,       \* block commands sent so far
    transfer,      \* chunks the database still sends or awaits for the last one
    sent,          \* rows the operators have yielded
    monitor_out,   \* lines in the BufWriter
    disk,          \* running, dead or failed
    serving,       \* what the disk still sends or awaits for the one it serves
    queries,       \* pipe from the monitor to the database
    results,       \* pipe from the database to the monitor
    commands,      \* pipe from the database to the disk
    blocks         \* pipe from the disk to the database

given   == <<expected, answer, sort_before_check>>
mon     == <<monitor, db_lines, result>>
db      == <<database, request, transfer, sent, monitor_out>>
dsk     == <<disk, serving>>
vars    == <<given, mon, db, dsk, queries, results, commands, blocks>>

(* A process is dead when it has ended or panicked, and failed when it was *)
(* killed or a command of the disk went wrong.                             *)
Alive(process) == process \notin {"dead", "failed"}
Failure == "failed" \in {database, disk}

-----------------------------------------------------------------------------
Transfer == [kind : {"none", "get", "put"}, left : 0 .. Chunks, request : 0 .. MaxRequests + 1]
Idle     == [kind |-> "none", left |-> 0, request |-> 0]
After(t) == IF t.left = 1 THEN Idle ELSE [t EXCEPT !.left = @ - 1]

(* setup_disk_process and setup_db_process have returned.                  *)
Init ==
    /\ expected \in BoundedSeq(Lines, MaxAnswer)
    /\ answer \in BoundedSeq(Lines, MaxAnswer)
    /\ sort_before_check \in BOOLEAN
    /\ monitor = "send_query" /\ db_lines = <<>> /\ result = "none"
    /\ database = "open_disk" /\ request = 0 /\ transfer = Idle
    /\ sent = 0 /\ monitor_out = <<>>
    /\ disk = "running" /\ serving = Idle
    /\ queries = <<>> /\ results = <<>> /\ commands = <<>> /\ blocks = <<>>

-----------------------------------------------------------------------------
(* monitor_main and handle_db                                              *)
Return(r) == result' = r /\ monitor' = "wait_database"

(* write_all of a line to the database, then on to the next step.          *)
MonitorWrite(from, line, to) ==
    /\ monitor = from
    /\ \/ /\ Alive(database) /\ Len(queries) < PipeSize
          /\ queries' = Append(queries, line)
          /\ monitor' = to
          /\ UNCHANGED result
       \/ /\ ~Alive(database)
          /\ Return("error")
          /\ UNCHANGED queries
    /\ UNCHANGED <<given, db_lines, db, dsk, results, commands, blocks>>

SendQuery == MonitorWrite("send_query", "query", "read_command")
SendLimitAndValidate == MonitorWrite("send_limit", "limit", "validate")   \* mutant
SendLimit == MonitorWrite("send_limit", "limit", "read_command")

ReadCommand ==
    /\ monitor = "read_command"
    /\ results # <<>>
    /\ results' = Tail(results)
    /\ CASE Head(results) = "get_memory_limit" -> monitor' = "send_limit" /\ UNCHANGED result
         [] Head(results) = "validate"         -> monitor' = "validate" /\ UNCHANGED result
         [] OTHER                              -> Return("error")
    /\ UNCHANGED <<given, db_lines, db, dsk, queries, commands, blocks>>

(* "Program did not validate the result"                                   *)
ReadCommandEof ==
    /\ monitor = "read_command"
    /\ results = <<>> /\ ~Alive(database)
    /\ Return("error")
    /\ UNCHANGED <<given, db_lines, db, dsk, queries, results, commands, blocks>>

(* validate: collect a line; "!" ends the collection and compares.         *)
Places(l, lines) == { i \in DOMAIN lines : lines[i] = l }
Matches(lines) ==
    IF sort_before_check
    THEN \A l \in ToSet(lines) \cup ToSet(expected) :
            Cardinality(Places(l, lines)) = Cardinality(Places(l, expected))
    ELSE lines = expected

CollectLine ==
    /\ monitor = "validate"
    /\ results # <<>>
    /\ results' = Tail(results)
    /\ IF Head(results) = "!"
       THEN Return(IF Matches(db_lines) THEN "ok" ELSE "error") /\ UNCHANGED db_lines
       ELSE db_lines' = Append(db_lines, Head(results)) /\ UNCHANGED <<monitor, result>>
    /\ UNCHANGED <<given, db, dsk, queries, commands, blocks>>

(* Mutant: end of file ends the collection, as "!" does.                   *)
CollectEofEnds ==
    /\ monitor = "validate"
    /\ results = <<>> /\ ~Alive(database)
    /\ Return(IF Matches(db_lines) THEN "ok" ELSE "error")
    /\ UNCHANGED <<given, db_lines, db, dsk, queries, results, commands, blocks>>

(* read_line returns 0 at end of file and leaves the line empty ("blank").  *)
CollectEof ==
    /\ monitor = "validate"
    /\ results = <<>> /\ ~Alive(database)
    /\ Len(db_lines) < MaxAnswer + MaxPadding
    /\ db_lines' = Append(db_lines, "blank")
    /\ UNCHANGED <<given, monitor, result, db, dsk, queries, results, commands, blocks>>

WaitDatabase ==
    /\ monitor = "wait_database" /\ ~Alive(database)
    /\ monitor' = "wait_disk"
    /\ UNCHANGED <<given, db_lines, result, db, dsk, queries, results, commands, blocks>>

WaitDisk ==
    /\ monitor = "wait_disk" /\ ~Alive(disk)
    /\ monitor' = "ended"
    /\ UNCHANGED <<given, db_lines, result, db, dsk, queries, results, commands, blocks>>

Monitor == \/ SendQuery \/ SendLimit \/ ReadCommand \/ ReadCommandEof
           \/ CollectLine \/ CollectEof \/ WaitDatabase \/ WaitDisk

-----------------------------------------------------------------------------

(* DiskManager: a get is answered before anything else is sent; the data   *)
(* of a put follows its line and nothing answers it.  Its errors are       *)
(* unwrapped: the database unwinds, which flushes monitor_out, and exits.  *)
Running == Alive(database) /\ database # "unwind"

CanSend == Alive(disk) /\ Len(commands) < PipeSize

MetadataOrBlocks ==
    IF database = "open_disk" THEN { [kind |-> "get", left |-> 1, request |-> 1] }
    ELSE [kind : {"get", "put"}, left : {Chunks}, request : {request + 1}]

SendCommand ==
    /\ transfer = Idle
    /\ \/ database = "open_disk"
       \/ database \in {"build", "stream"} /\ request <= MaxRequests
    /\ \/ /\ CanSend
          /\ \E t \in MetadataOrBlocks :
                transfer' = t /\ commands' = Append(commands, t) /\ request' = t.request
          /\ UNCHANGED database
       \/ /\ ~Alive(disk)
          /\ database' = "unwind"
          /\ UNCHANGED <<commands, transfer, request>>
    /\ UNCHANGED <<given, mon, dsk, sent, monitor_out, queries, results, blocks>>

SendData ==
    /\ Running /\ transfer.kind = "put"
    /\ \/ /\ CanSend
          /\ commands' = Append(commands, Idle)
          /\ transfer' = After(transfer)
          /\ UNCHANGED database
       \/ ~Alive(disk) /\ database' = "unwind" /\ UNCHANGED <<commands, transfer>>
    /\ UNCHANGED <<given, mon, dsk, request, sent, monitor_out, queries, results, blocks>>

ReadData ==
    /\ Running /\ transfer.kind = "get"
    /\ \/ /\ blocks # <<>>
          /\ blocks' = Tail(blocks)
          /\ transfer' = After(transfer)
          /\ database' = IF database = "open_disk" THEN "read_query" ELSE database
       \/ /\ blocks = <<>> /\ ~Alive(disk)
          /\ database' = "unwind"
          /\ UNCHANGED <<blocks, transfer>>
    /\ UNCHANGED <<given, mon, dsk, request, sent, monitor_out, queries, results, commands>>

(* db_main: the monitor holds its end open, so a read waits for the line.  *)
ReadLine ==
    /\ database \in {"read_query", "read_limit"}
    /\ queries # <<>>
    /\ queries' = Tail(queries)
    /\ database' = IF database = "read_query" THEN "ask_limit" ELSE "build"
    /\ UNCHANGED <<given, mon, dsk, request, transfer, sent, monitor_out, results, commands, blocks>>

PrintLine(line, to) ==
    /\ monitor_out' = Append(monitor_out, line)
    /\ database' = to
    /\ UNCHANGED <<given, mon, dsk, request, transfer, queries, results, commands, blocks>>

AskLimitUnflushed ==   \* mutant
    database = "ask_limit" /\ PrintLine("get_memory_limit", "read_limit") /\ UNCHANGED sent
AskLimit == database = "ask_limit" /\ PrintLine("get_memory_limit", "flush_limit") /\ UNCHANGED sent
Built == /\ database = "build" /\ transfer = Idle
         /\ PrintLine("validate", "flush_validate") /\ UNCHANGED sent
Yield == /\ database = "stream" /\ transfer = Idle /\ sent < Len(answer)
         /\ PrintLine(answer[sent + 1],
                      IF Len(monitor_out) < OutSize THEN "stream" ELSE "flush_rows")
         /\ sent' = sent + 1
Finish == /\ database = "stream" /\ transfer = Idle /\ sent = Len(answer)
          /\ PrintLine("!", "flush_end") /\ UNCHANGED sent

(* flush() and the drop of monitor_out write out all of it; a row that     *)
(* finds it full, all that was there before.                               *)
Flushing == database \in {"flush_limit", "flush_validate", "flush_rows", "flush_end", "unwind"}

Flushed(left) ==
    CASE database = "flush_limit" /\ left = 0 -> "read_limit"
      [] database = "flush_validate" /\ left = 0 -> "stream"
      [] database = "flush_rows" /\ left = 1 -> "stream"
      [] database \in {"flush_end", "unwind"} /\ left = 0 -> "dead"
      [] OTHER -> database

FlushLine ==
    /\ Flushing
    /\ monitor_out # <<>>
    /\ Len(results) < PipeSize
    /\ results' = Append(results, Head(monitor_out))
    /\ monitor_out' = Tail(monitor_out)
    /\ database' = Flushed(Len(monitor_out) - 1)
    /\ UNCHANGED <<given, mon, dsk, request, transfer, sent, queries, commands, blocks>>

UnwindEmpty ==
    /\ database = "unwind" /\ monitor_out = <<>>
    /\ database' = "dead"
    /\ UNCHANGED <<given, mon, dsk, request, transfer, sent, monitor_out, queries, results, commands, blocks>>

Database == \/ SendCommand \/ SendData \/ ReadData \/ ReadLine \/ AskLimit
            \/ Built \/ Yield \/ Finish \/ FlushLine \/ UnwindEmpty

(* The process is killed or aborts (an allocation beyond RLIMIT_AS): what  *)
(* is buffered is lost.                                                    *)
DatabaseFail ==
    /\ "database" \in MayFail /\ Alive(database)
    /\ database' = "failed"
    /\ monitor_out' = <<>>
    /\ UNCHANGED <<given, mon, dsk, request, transfer, sent, queries, results, commands, blocks>>

-----------------------------------------------------------------------------
(* DiskSimulator::simulate                                                 *)
DiskUnchanged == UNCHANGED <<given, mon, db, queries, results>>

(* Mutant: a block too many is served.                                     *)
DiskReadExtra ==
    /\ Alive(disk) /\ serving = Idle
    /\ commands # <<>>
    /\ serving' = [Head(commands) EXCEPT !.left = @ + 1]
    /\ commands' = Tail(commands)
    /\ UNCHANGED <<disk, blocks>> /\ DiskUnchanged

DiskRead ==
    /\ Alive(disk) /\ serving = Idle
    /\ commands # <<>>
    /\ serving' = Head(commands)
    /\ commands' = Tail(commands)
    /\ UNCHANGED <<disk, blocks>> /\ DiskUnchanged

(* Mutant: only an end between commands is noticed.                        *)
DiskEofIdle ==
    /\ Alive(disk) /\ serving = Idle
    /\ commands = <<>> /\ ~Alive(database)
    /\ disk' = "dead"
    /\ UNCHANGED <<serving, commands, blocks>> /\ DiskUnchanged

(* End of file between commands, or read_exact in the middle of a put.     *)
DiskEof ==
    /\ Alive(disk) /\ serving.kind # "get"
    /\ commands = <<>> /\ ~Alive(database)
    /\ disk' = "dead"
    /\ UNCHANGED <<serving, commands, blocks>> /\ DiskUnchanged

DiskGet ==
    /\ Alive(disk) /\ serving.kind = "get"
    /\ \/ /\ Alive(database) /\ Len(blocks) < PipeSize
          /\ blocks' = Append(blocks, serving.request)
          /\ serving' = After(serving)
          /\ UNCHANGED disk
       \/ ~Alive(database) /\ disk' = "dead" /\ UNCHANGED <<blocks, serving>>
    /\ UNCHANGED commands /\ DiskUnchanged

DiskPut ==
    /\ Alive(disk) /\ serving.kind = "put"
    /\ commands # <<>>
    /\ commands' = Tail(commands)
    /\ serving' = After(serving)
    /\ UNCHANGED <<disk, blocks>> /\ DiskUnchanged

Disk == DiskRead \/ DiskEof \/ DiskGet \/ DiskPut

(* The command fails: an absent block, a protected one.                    *)
DiskFail ==
    /\ "disk" \in MayFail /\ Alive(disk) /\ serving # Idle
    /\ disk' = "failed"
    /\ UNCHANGED <<serving, commands, blocks>> /\ DiskUnchanged

-----------------------------------------------------------------------------
Next == Monitor \/ Database \/ Disk \/ DatabaseFail \/ DiskFail

Spec == Init /\ [][Next]_vars

(* Each process is a running thread: it takes a step it can take.          *)
FairSpec == Spec /\ WF_vars(Monitor) /\ WF_vars(Database) /\ WF_vars(Disk)

-----------------------------------------------------------------------------
TypeOK ==
    /\ monitor \in {"send_query", "read_command", "send_limit", "validate",
                    "wait_database", "wait_disk", "ended"}
    /\ db_lines \in Seq(Lines \cup {"blank"}) /\ result \in {"none", "ok", "error"}
    /\ database \in {"open_disk", "read_query", "ask_limit", "flush_limit", "read_limit",
                     "build", "flush_validate", "stream", "flush_rows", "flush_end",
                     "unwind", "dead", "failed"}
    /\ request \in 0 .. MaxRequests + 1 /\ sent \in 0 .. Len(answer)
    /\ transfer \in Transfer /\ serving \in Transfer
    /\ disk \in {"running", "dead", "failed"}
    /\ monitor_out \in Seq(Message) /\ Len(monitor_out) <= OutSize + 1
    /\ queries \in Seq(Message) /\ results \in Seq(Message)
    /\ commands \in Seq(Transfer) /\ blocks \in Seq(1 .. MaxRequests + 1)
    /\ \A n \in {Len(queries), Len(results), Len(commands), Len(blocks)} : n <= PipeSize

(* The monitor reports success only for the answer that was expected, all  *)
(* of it: not for the part of it that a failing database got out.          *)
NoFalseSuccess == result = "ok" => Matches(answer)

(* ... and failure only if the answer is wrong or a process failed.        *)
FailsForCause == result = "error" => ~Matches(answer) \/ Failure

(* Block data belongs to the command the database waits for, and is no     *)
(* more than it still waits for; and the disk takes no data of a put for a *)
(* command and no command for data: the two never get out of step.         *)
InStep ==
    /\ Running /\ blocks # <<>> =>
        /\ transfer.kind = "get"
        /\ \A i \in DOMAIN blocks : blocks[i] = transfer.request
        /\ Len(blocks) <= transfer.left
    /\ commands # <<>> =>
        /\ serving = Idle => Head(commands) # Idle
        /\ serving.kind = "put" => Head(commands) = Idle

(* However small the pipes, nobody waits for somebody who waits for him,   *)
(* and whoever fails, and when, the monitor ends: except when a failure    *)
(* ends the database after its validate and before its "!".                *)
EndsUnlessLost ==
    \/ <>(monitor = "ended")
    \/ <>[](monitor = "validate" /\ ~Alive(database) /\ Failure)

(* The disk outlives the database only to notice its end.                  *)
DiskFollows == ~Alive(database) ~> ~Alive(disk)
=============================================================================
