--------------------------- MODULE SessionProofs ---------------------------
(***************************************************************************)
(* Proofs about Session: the verdict is true, the processes keep in step,  *)
(* none waits in a cycle, and every step but one leads to the end.         *)
(***************************************************************************)
EXTENDS Session, WellFoundedInduction, TLAPS

(* What the pipes and BufWriter hold fits where the processes are: a data   *)
(* chunk is Idle, a command or transfer under way has chunks left, and      *)
(* monitor_out is empty where the code has just flushed it.                 *)
Proper(t) == t = Idle \/ (t.kind # "none" /\ t.left >= 1 /\ t.request >= 1)

Shape ==
    /\ answer \in Seq(Lines)
    /\ Proper(transfer) /\ Proper(serving)
    /\ \A i \in 1 .. Len(commands) : Proper(commands[i])
    /\ database \in {"open_disk", "read_query", "ask_limit", "read_limit", "build"} =>
          monitor_out = <<>>
    /\ database \in {"flush_limit", "flush_validate", "flush_end"} => monitor_out # <<>>
    /\ database = "stream" => Len(monitor_out) <= OutSize
    /\ database = "flush_rows" => Len(monitor_out) >= 2

(* Blocks are transferred by new() of the DiskManager, one of which is asked *)
(* for, and by the operators.                                               *)
Engaged ==
    transfer # Idle =>
        /\ database \in {"open_disk", "build", "stream", "unwind", "dead", "failed"}
        /\ database = "open_disk" => transfer.left = 1

(* The lines the database prints, whatever the operators do.                *)
LineOf(rows, i) ==
    CASE i = 1             -> "get_memory_limit"
      [] i = 2             -> "validate"
      [] i = Len(rows) + 3 -> "!"
      [] OTHER             -> rows[i - 2]

(* The monitor has read c lines and written asked ones.                     *)
Position(c, asked) ==
    \/ monitor = "send_query" /\ c = 0 /\ asked = 0 /\ db_lines = <<>>
    \/ monitor = "read_command" /\ c \in {0, 1} /\ asked = c + 1 /\ db_lines = <<>>
    \/ monitor = "send_limit" /\ c = 1 /\ asked = 1 /\ db_lines = <<>>
    \/ /\ monitor = "validate" /\ asked = 2
       /\ c = 2 + Len(db_lines) /\ Len(db_lines) <= Len(answer)
       /\ \A i \in 1 .. Len(db_lines) : db_lines[i] = answer[i]

(* The database has printed that many lines and read that many; it stops    *)
(* half-way only by a failure.                                              *)
Progress(printed, read) ==
    \/ database \in {"open_disk", "read_query"} /\ printed = 0 /\ read = 0 /\ sent = 0
    \/ database = "ask_limit" /\ printed = 0 /\ read = 1 /\ sent = 0
    \/ database \in {"flush_limit", "read_limit"} /\ printed = 1 /\ read = 1 /\ sent = 0
    \/ database = "build" /\ printed = 1 /\ read = 2 /\ sent = 0
    \/ database \in {"flush_validate", "stream", "flush_rows"} /\ printed = sent + 2 /\ read = 2
    \/ database = "flush_end" /\ printed = Len(answer) + 3 /\ read = 2
    \/ /\ database = "dead" /\ printed = Len(answer) + 3 /\ read = 2
       /\ monitor_out = <<>>
    \/ /\ database \in {"unwind", "dead", "failed"} /\ Failure
       /\ read >= 0 /\ (printed >= 1 => read >= 1)
       /\ database = "unwind" => printed <= Len(answer) + 2

(* The lines printed and not read yet are in results, then in monitor_out.  *)
Lined(c) ==
    /\ c + Len(results) + Len(monitor_out) <= Len(answer) + 3
    /\ \A i \in 1 .. Len(results) : results[i] = LineOf(answer, c + i)
    /\ \A i \in 1 .. Len(monitor_out) : monitor_out[i] = LineOf(answer, c + Len(results) + i)

Dialogue(c, asked) ==
    /\ Lined(c)
    /\ Position(c, asked)
    /\ Progress(c + Len(results) + Len(monitor_out), asked - Len(queries))

Returned == monitor \in {"wait_database", "wait_disk", "ended"}
AtEof    == monitor = "validate" /\ results = <<>> /\ ~Alive(database)

Talk ==
    /\ disk = "dead" => ~Alive(database)
    /\ \/ Returned /\ ~Alive(database)
       \/ AtEof /\ Failure
       \/ \E c \in 0 .. Len(answer) + 3, asked \in 0 .. 2 : Dialogue(c, asked)

Outcome == NoFalseSuccess /\ FailsForCause

(* f counts, from the message the disk reads next to the one sent last, the *)
(* data chunks still due before the next command.                           *)
Due(t) == IF t.kind = "put" THEN t.left ELSE 0

Framed(f, cs, s) ==
    /\ f[0] = Due(s)
    /\ \A i \in 1 .. Len(cs) :
          /\ cs[i].kind = "none" <=> f[i - 1] > 0
          /\ f[i] = IF f[i - 1] > 0 THEN f[i - 1] - 1 ELSE Due(cs[i])

Framing ==
    \E f \in [0 .. Len(commands) -> 0 .. Chunks] :
        /\ Framed(f, commands, serving)
        /\ Running => f[Len(commands)] = Due(transfer)

(* The get the database waits for is on its way to the disk, being served,  *)
(* or served; there is no other.                                            *)
NoGet(n) == serving.kind # "get" /\ \A i \in 1 .. n : commands[i].kind # "get"

Awaited ==
    \/ /\ commands # <<>> /\ commands[Len(commands)] = transfer
       /\ NoGet(Len(commands) - 1) /\ blocks = <<>>
    \/ /\ commands = <<>> /\ serving.kind = "get" /\ serving.request = transfer.request
       /\ serving.left + Len(blocks) = transfer.left
    \/ /\ commands = <<>> /\ serving.kind # "get"
       /\ Len(blocks) = transfer.left

Pace ==
    Running =>
        IF transfer.kind = "get"
        THEN Awaited /\ \A i \in 1 .. Len(blocks) : blocks[i] = transfer.request
        ELSE NoGet(Len(commands)) /\ blocks = <<>>

Inv == TypeOK /\ Shape /\ Engaged /\ Talk /\ Outcome /\ Framing /\ Pace

(* Who can take a step, by the guards of the actions: the monitor a step     *)
(* other than reading end of file once more.                                *)
MonitorCan ==
    \/ monitor \in {"send_query", "send_limit"} /\ (Len(queries) < PipeSize \/ ~Alive(database))
    \/ monitor \in {"read_command", "validate"} /\ results # <<>>
    \/ monitor = "read_command" /\ ~Alive(database)
    \/ monitor = "wait_database" /\ ~Alive(database)
    \/ monitor = "wait_disk" /\ ~Alive(disk)

SendCan == CanSend \/ ~Alive(disk)

DatabaseCan ==
    \/ database = "open_disk" /\ transfer = Idle /\ SendCan
    \/ Running /\ transfer.kind = "put" /\ SendCan
    \/ Running /\ transfer.kind = "get" /\ (blocks # <<>> \/ ~Alive(disk))
    \/ database \in {"read_query", "read_limit"} /\ queries # <<>>
    \/ database = "ask_limit"
    \/ database \in {"build", "stream"} /\ transfer = Idle
    \/ Flushing /\ monitor_out # <<>> /\ Len(results) < PipeSize
    \/ database = "unwind" /\ monitor_out = <<>>

DiskCan ==
    /\ Alive(disk)
    /\ \/ serving.kind # "get" /\ (commands # <<>> \/ ~Alive(database))
       \/ serving.kind = "get" /\ (Len(blocks) < PipeSize \/ ~Alive(database))

(* validate reads end of file for ever: the database ended before its "!".   *)
Lost == monitor = "validate" /\ results = <<>> /\ ~Alive(database) /\ Failure

NobodyStuck == MonitorCan \/ DatabaseCan \/ DiskCan \/ monitor = "ended" \/ Lost

-----------------------------------------------------------------------------
(* Pipes as the proofs use them.                                            *)
LEMMA Taken ==
  ASSUME NEW S, NEW s \in Seq(S), s # <<>>
  PROVE  /\ Head(s) = s[1] /\ Head(s) \in S /\ Tail(s) \in Seq(S)
         /\ Len(s) \in Nat \ {0} /\ Len(Tail(s)) = Len(s) - 1
         /\ \A i \in 1 .. Len(s) - 1 : Tail(s)[i] = s[i + 1] /\ i + 1 \in 1 .. Len(s)
OBVIOUS

LEMMA Put ==
  ASSUME NEW S, NEW s \in Seq(S), NEW e \in S
  PROVE  /\ Append(s, e) \in Seq(S) /\ Len(s) \in Nat
         /\ Len(Append(s, e)) = Len(s) + 1 /\ Append(s, e)[Len(s) + 1] = e
         /\ \A i \in 1 .. Len(s) : Append(s, e)[i] = s[i]
OBVIOUS

LEMMA Length == \A S : \A s \in Seq(S) : Len(s) \in Nat /\ (s = <<>> <=> Len(s) = 0)
OBVIOUS

(* The messages of block data.                                              *)
LEMMA IdleTransfer == Idle \in Transfer /\ Proper(Idle)
  BY SessionAssumption DEF Idle, Transfer, Proper

LEMMA AfterTransfer ==
  ASSUME NEW t \in Transfer, Proper(t), t.kind # "none"
  PROVE  After(t) \in Transfer /\ Proper(After(t))
<1>1. CASE t.left = 1
  BY <1>1, IdleTransfer DEF After
<1>2. CASE t.left # 1
  <2>1. t # Idle
    BY DEF Idle
  <2>2. t.left - 1 \in 0 .. Chunks /\ t.left - 1 >= 1
    BY <1>2, <2>1, SessionAssumption DEF Transfer, Proper
  <2>3. After(t) = [t EXCEPT !.left = t.left - 1]
    BY <1>2 DEF After
  <2> QED
    BY <2>1, <2>2, <2>3 DEF Transfer, Proper
<1> QED
  BY <1>1, <1>2

(* Every step of the monitor, the database and the disk keeps the types and *)
(* the shape of the buffers.                                                *)
Typed == TypeOK /\ Shape

LEMMA InitTyped == Init => Typed
<1> SUFFICES ASSUME Init PROVE Typed
  OBVIOUS
<1>1. \A S : <<>> \in Seq(S) /\ Len(<<>>) = 0
  OBVIOUS
<1>2. answer \in Seq(Lines)
  BY SessionAssumption DEF Init, BoundedSeq, SeqOf
<1> QED
  BY <1>1, <1>2, IdleTransfer, SessionAssumption DEF Init, Typed, TypeOK, Shape

(* The line validate reads next: the rows in their order, then "!".         *)
LEMMA NextLine ==
  ASSUME Typed, Talk, monitor = "validate", results # <<>>
  PROVE  LET n == Len(db_lines)
         IN  /\ n \in 0 .. Len(answer) /\ \A i \in 1 .. n : db_lines[i] = answer[i]
             /\ Head(results) = IF n = Len(answer) THEN "!" ELSE answer[n + 1]
             /\ n < Len(answer) => Head(results) \in Lines /\ Head(results) # "!"
<1>1. PICK c \in 0 .. Len(answer) + 3, asked \in 0 .. 2 : Dialogue(c, asked)
  BY DEF Talk, Returned, AtEof
<1>2. /\ c = 2 + Len(db_lines) /\ Len(db_lines) <= Len(answer)
      /\ \A i \in 1 .. Len(db_lines) : db_lines[i] = answer[i]
  BY <1>1 DEF Dialogue, Position
<1>3. answer \in Seq(Lines) /\ Len(answer) \in Nat /\ Len(db_lines) \in Nat
  BY DEF Typed, Shape, TypeOK
<1>4. Head(results) = results[1] /\ 1 \in 1 .. Len(results)
  BY Taken DEF Typed, TypeOK
<1>5. Head(results) = LineOf(answer, c + 1)
  BY <1>1, <1>4 DEF Dialogue, Lined
<1>6. Head(results) = IF Len(db_lines) = Len(answer) THEN "!" ELSE answer[Len(db_lines) + 1]
  BY <1>2, <1>3, <1>5 DEF LineOf
<1>7. Len(db_lines) < Len(answer) => answer[Len(db_lines) + 1] \in Lines
  BY <1>3
<1> QED
  BY <1>2, <1>3, <1>6, <1>7, SessionAssumption

LEMMA MonitorTyped == ASSUME Typed, Talk, Monitor PROVE Typed'
<1> USE DEF given, db, dsk
<1>1. ASSUME NEW from, NEW line \in {"query", "limit"}, NEW to \in {"read_command", "validate"},
             MonitorWrite(from, line, to)
      PROVE  Typed'
  <2>1. /\ UNCHANGED <<given, db_lines, db, dsk, results, commands, blocks>>
        /\ monitor' \in {"read_command", "validate", "wait_database"}
        /\ result' \in {result, "error"}
    BY <1>1 DEF MonitorWrite, Return
  <2>2. queries' \in Seq(Message) /\ Len(queries') <= PipeSize
    <3>1. queries \in Seq(Message) /\ Len(queries) \in Nat /\ Len(queries) <= PipeSize
      BY DEF Typed, TypeOK
    <3>2. line \in Message
      BY DEF Message
    <3>3. CASE queries' = queries
      BY <3>1, <3>3
    <3>4. CASE Len(queries) < PipeSize /\ queries' = Append(queries, line)
      BY <3>1, <3>2, <3>4, Put, SessionAssumption
    <3> QED
      BY <1>1, <3>3, <3>4 DEF MonitorWrite
  <2> QED
    BY <2>1, <2>2 DEF Typed, TypeOK, Shape
<1>2. CASE SendQuery \/ SendLimit
  BY <1>1, <1>2 DEF SendQuery, SendLimit
<1>3. ASSUME results # <<>>
      PROVE  /\ Head(results) \in Message /\ Tail(results) \in Seq(Message)
             /\ Len(Tail(results)) <= PipeSize
  BY <1>3, Taken, SessionAssumption DEF Typed, TypeOK
<1>4. CASE ReadCommand
  BY <1>3, <1>4 DEF ReadCommand, Return, Typed, TypeOK, Shape
<1>5. CASE ReadCommandEof
  BY <1>5 DEF ReadCommandEof, Return, Typed, TypeOK, Shape
<1>6. CASE CollectLine
  <2>1. ASSUME Head(results) # "!" PROVE db_lines' \in Seq(Lines \cup {"blank"})
    <3>1. Head(results) \in Lines \cup {"blank"} /\ db_lines \in Seq(Lines \cup {"blank"})
      BY <1>6, <2>1, NextLine DEF CollectLine, Typed, TypeOK
    <3>2. db_lines' = Append(db_lines, Head(results))
      BY <1>6, <2>1 DEF CollectLine
    <3> QED
      BY <3>1, <3>2, Put, Zenon
  <2> QED
    BY <1>3, <1>6, <2>1 DEF CollectLine, Return, Typed, TypeOK, Shape
<1>7. CASE CollectEof
  BY <1>7, Put DEF CollectEof, Typed, TypeOK, Shape
<1>8. CASE WaitDatabase \/ WaitDisk
  BY <1>8 DEF WaitDatabase, WaitDisk, Typed, TypeOK, Shape
<1> QED
  BY <1>2, <1>4, <1>5, <1>6, <1>7, <1>8 DEF Monitor

(* A command is a proper one, and a message sent leaves the pipe typed.     *)
LEMMA CommandTyped ==
  ASSUME Typed, database = "open_disk" \/ request <= MaxRequests, NEW t \in MetadataOrBlocks
  PROVE  t \in Transfer /\ Proper(t) /\ t.request \in 0 .. MaxRequests + 1
<1>1. CASE database = "open_disk"
  <2>1. t = [kind |-> "get", left |-> 1, request |-> 1]
    BY <1>1 DEF MetadataOrBlocks
  <2> QED
    BY <2>1, SessionAssumption DEF Transfer, Proper
<1>2. CASE database # "open_disk"
  <2>1. t \in [kind : {"get", "put"}, left : {Chunks}, request : {request + 1}]
    BY <1>2 DEF MetadataOrBlocks
  <2>2. request + 1 \in 0 .. MaxRequests + 1 /\ request + 1 >= 1
    BY <1>2, SessionAssumption DEF Typed, TypeOK
  <2> QED
    BY <2>1, <2>2, SessionAssumption DEF Transfer, Proper
<1> QED
  BY <1>1, <1>2

LEMMA CommandSent ==
  ASSUME Typed, CanSend, NEW t \in Transfer, Proper(t), commands' = Append(commands, t)
  PROVE  /\ commands' \in Seq(Transfer) /\ Len(commands') <= PipeSize
         /\ \A i \in 1 .. Len(commands') : Proper(commands'[i])
<1>1. commands \in Seq(Transfer) /\ Len(commands) < PipeSize
  BY DEF Typed, TypeOK, CanSend
<1>2. /\ commands' \in Seq(Transfer) /\ Len(commands) \in Nat
      /\ Len(commands') = Len(commands) + 1 /\ commands'[Len(commands) + 1] = t
      /\ \A i \in 1 .. Len(commands) : commands'[i] = commands[i]
  BY <1>1, Put
<1>3. ASSUME NEW i \in 1 .. Len(commands') PROVE Proper(commands'[i])
  <2>1. i = Len(commands) + 1 \/ i \in 1 .. Len(commands)
    BY <1>2
  <2> QED
    BY <1>2, <2>1 DEF Typed, Shape
<1> QED
  BY <1>1, <1>2, <1>3, SessionAssumption

LEMMA DatabaseTyped == ASSUME Typed, Talk, Database \/ DatabaseFail PROVE Typed'
<1> USE DEF given, mon, dsk
<1>1. CASE SendCommand
  <2>1. CASE database' = "unwind" /\ UNCHANGED <<commands, transfer, request>>
    BY <1>1, <2>1 DEF SendCommand, Typed, TypeOK, Shape
  <2>2. CASE UNCHANGED database
    <3>1. PICK t \in MetadataOrBlocks :
             /\ CanSend /\ transfer' = t /\ commands' = Append(commands, t)
             /\ request' = t.request
      BY <1>1, <2>2 DEF SendCommand
    <3>2. t \in Transfer /\ Proper(t) /\ t.request \in 0 .. MaxRequests + 1
      BY <1>1, CommandTyped DEF SendCommand
    <3>3. /\ commands' \in Seq(Transfer) /\ Len(commands') <= PipeSize
          /\ \A i \in 1 .. Len(commands') : Proper(commands'[i])
      BY <3>1, <3>2, CommandSent
    <3> QED
      BY <1>1, <2>2, <3>1, <3>2, <3>3 DEF SendCommand, Typed, TypeOK, Shape
  <2> QED
    BY <1>1, <2>1, <2>2 DEF SendCommand
<1>2. ASSUME transfer.kind # "none" PROVE After(transfer) \in Transfer /\ Proper(After(transfer))
  BY <1>2, AfterTransfer DEF Typed, TypeOK, Shape
<1>3. CASE SendData
  <2>1. CASE database' = "unwind" /\ UNCHANGED <<commands, transfer>>
    BY <1>3, <2>1 DEF SendData, Typed, TypeOK, Shape
  <2>2. CASE /\ CanSend /\ commands' = Append(commands, Idle)
             /\ transfer' = After(transfer) /\ UNCHANGED database
    <3>1. /\ commands' \in Seq(Transfer) /\ Len(commands') <= PipeSize
          /\ \A i \in 1 .. Len(commands') : Proper(commands'[i])
      BY <2>2, IdleTransfer, CommandSent
    <3> QED
      BY <1>2, <1>3, <2>2, <3>1 DEF SendData, Typed, TypeOK, Shape
  <2> QED
    BY <1>3, <2>1, <2>2 DEF SendData
<1>4. CASE ReadData
  <2>1. CASE database' = "unwind" /\ UNCHANGED <<blocks, transfer>>
    BY <1>4, <2>1 DEF ReadData, Typed, TypeOK, Shape
  <2>2. CASE /\ blocks # <<>> /\ blocks' = Tail(blocks) /\ transfer' = After(transfer)
             /\ database' = IF database = "open_disk" THEN "read_query" ELSE database
    <3>1. blocks' \in Seq(1 .. MaxRequests + 1) /\ Len(blocks') <= PipeSize
      BY <2>2, Taken, SessionAssumption DEF Typed, TypeOK
    <3> QED
      BY <1>2, <1>4, <2>2, <3>1 DEF ReadData, Typed, TypeOK, Shape
  <2> QED
    BY <1>4, <2>1, <2>2 DEF ReadData
<1>5. CASE ReadLine
  <2>1. queries' \in Seq(Message) /\ Len(queries') <= PipeSize
    BY <1>5, Taken, SessionAssumption DEF ReadLine, Typed, TypeOK
  <2> QED
    BY <1>5, <2>1 DEF ReadLine, Typed, TypeOK, Shape
<1>6. ASSUME NEW line \in Message, NEW to, PrintLine(line, to)
      PROVE  /\ monitor_out' \in Seq(Message) /\ Len(monitor_out) \in Nat
             /\ Len(monitor_out') = Len(monitor_out) + 1 /\ monitor_out' # <<>>
             /\ database' = to
             /\ UNCHANGED <<given, mon, dsk, request, transfer, queries, results, commands, blocks>>
  <2>1. monitor_out \in Seq(Message) /\ monitor_out' = Append(monitor_out, line)
    BY <1>6 DEF PrintLine, Typed, TypeOK
  <2>2. /\ monitor_out' \in Seq(Message) /\ Len(monitor_out) \in Nat
        /\ Len(monitor_out') = Len(monitor_out) + 1
    BY <2>1, Put, Zenon
  <2>3. monitor_out' # <<>>
    BY <2>2, Length
  <2> QED
    BY <1>6, <2>2, <2>3 DEF PrintLine
<1>7. CASE AskLimit \/ Built
  <2>1. PICK line \in Message, to \in {"flush_limit", "flush_validate"} :
           PrintLine(line, to) /\ monitor_out = <<>> /\ UNCHANGED sent
    BY <1>7 DEF AskLimit, Built, Typed, Shape, Message
  <2>2. Len(monitor_out) = 0 /\ Len(monitor_out') = Len(monitor_out) + 1
    BY <1>6, <2>1
  <2>3. Len(monitor_out') <= OutSize + 1
    BY <2>2, SessionAssumption
  <2>4. TypeOK'
    BY <1>6, <2>1, <2>3 DEF Typed, TypeOK
  <2>5. Shape'
    BY <1>6, <2>1, <2>3 DEF Typed, TypeOK, Shape
  <2> QED
    BY <2>4, <2>5 DEF Typed
<1>8. CASE Yield
  <2>1. sent + 1 \in 0 .. Len(answer) /\ answer[sent + 1] \in Message
    BY <1>8 DEF Yield, Typed, TypeOK, Shape, Message
  <2>2. PICK to \in {"stream", "flush_rows"} :
           /\ PrintLine(answer[sent + 1], to)
           /\ to = IF Len(monitor_out) < OutSize THEN "stream" ELSE "flush_rows"
    BY <1>8 DEF Yield
  <2>3. Len(monitor_out) <= OutSize /\ sent' = sent + 1
    BY <1>8 DEF Yield, Typed, Shape
  <2>4. Len(monitor_out') <= OutSize + 1
        /\ (to = "stream" => Len(monitor_out') <= OutSize)
        /\ (to = "flush_rows" => Len(monitor_out') >= 2)
    BY <1>6, <2>1, <2>2, <2>3, SessionAssumption
  <2>5. TypeOK'
    BY <1>6, <2>1, <2>2, <2>3, <2>4 DEF Typed, TypeOK
  <2>6. Shape'
    BY <1>6, <2>1, <2>2, <2>3, <2>4 DEF Typed, TypeOK, Shape
  <2> QED
    BY <2>5, <2>6 DEF Typed
<1>9. CASE Finish
  <2>1. PrintLine("!", "flush_end") /\ Len(monitor_out) <= OutSize /\ "!" \in Message /\ UNCHANGED sent
    BY <1>9 DEF Finish, Typed, Shape, Message
  <2>2. Len(monitor_out') <= OutSize + 1
    BY <1>6, <2>1, SessionAssumption
  <2>3. TypeOK'
    BY <1>6, <2>1, <2>2 DEF Typed, TypeOK
  <2>4. Shape'
    BY <1>6, <2>1, <2>2 DEF Typed, TypeOK, Shape
  <2> QED
    BY <2>3, <2>4 DEF Typed
<1>10. CASE FlushLine
  <2>1. /\ monitor_out' = Tail(monitor_out) /\ Head(monitor_out) \in Message
        /\ monitor_out' \in Seq(Message) /\ Len(monitor_out') = Len(monitor_out) - 1
        /\ Len(monitor_out) \in Nat \ {0}
    BY <1>10, Taken DEF FlushLine, Typed, TypeOK
  <2>2. results' \in Seq(Message) /\ Len(results') <= PipeSize
    BY <1>10, <2>1, Put, SessionAssumption DEF FlushLine, Typed, TypeOK
  <2>3. /\ monitor_out' = <<>> <=> Len(monitor_out) - 1 = 0
        /\ Len(monitor_out') <= OutSize + 1 /\ Len(monitor_out') <= OutSize
    <3>1. Len(monitor_out) <= OutSize + 1
      BY DEF Typed, TypeOK
    <3> QED
      BY <2>1, <3>1, Length, SessionAssumption
  <2>4. database' = Flushed(Len(monitor_out) - 1) /\ Flushing
    BY <1>10 DEF FlushLine
  <2>5. /\ database' \in {"read_limit", "stream", "dead", database}
        /\ database' = "read_limit" => monitor_out' = <<>>
        /\ database' = "stream" => Len(monitor_out') <= OutSize
        /\ database' \in {"flush_limit", "flush_validate", "flush_end"} => monitor_out' # <<>>
        /\ database' = "flush_rows" => Len(monitor_out') >= 2
    <3>1. database = "flush_rows" => Len(monitor_out) >= 2
      BY DEF Typed, Shape
    <3>2. /\ database' = "read_limit" => Len(monitor_out) - 1 = 0
          /\ database' \in {"flush_limit", "flush_validate", "flush_end"} =>
                Len(monitor_out) - 1 # 0
          /\ database' = "flush_rows" => database = "flush_rows" /\ Len(monitor_out) - 1 # 1
          /\ database' \in {"read_limit", "stream", "dead", database}
      BY <2>4 DEF Flushed, Flushing
    <3> QED
      BY <2>1, <2>3, <3>1, <3>2
  <2>6. database' \notin {"open_disk", "read_query", "ask_limit", "build"}
    BY <2>4 DEF Flushed, Flushing
  <2>7. UNCHANGED <<given, mon, dsk, request, transfer, sent, queries, commands, blocks>>
    BY <1>10 DEF FlushLine
  <2>8. TypeOK'
    <3>1. database' \in {"read_limit", "stream", "dead", "flush_limit", "flush_validate",
                         "flush_rows", "flush_end", "unwind"}
      BY <2>4, <2>5 DEF Flushing
    <3> QED
      BY <2>1, <2>2, <2>3, <2>7, <3>1 DEF Typed, TypeOK
  <2>9. Shape'
    BY <2>3, <2>5, <2>6, <2>7 DEF Typed, TypeOK, Shape
  <2> QED
    BY <2>8, <2>9 DEF Typed
<1>11. CASE UnwindEmpty
  BY <1>11 DEF UnwindEmpty, Typed, TypeOK, Shape
<1>12. CASE DatabaseFail
  <2>1. <<>> \in Seq(Message) /\ Len(<<>>) = 0
    OBVIOUS
  <2> QED
    BY <1>12, <2>1, SessionAssumption DEF DatabaseFail, Typed, TypeOK, Shape
<1> QED
  BY <1>1, <1>3, <1>4, <1>5, <1>7, <1>8, <1>9, <1>10, <1>11, <1>12 DEF Database

LEMMA DiskTyped == ASSUME Typed, Disk \/ DiskFail PROVE Typed'
<1> USE DEF DiskUnchanged, given, mon, db
<1>1. ASSUME commands # <<>>, commands' = Tail(commands)
      PROVE  /\ Head(commands) \in Transfer /\ Proper(Head(commands))
             /\ commands' \in Seq(Transfer) /\ Len(commands') <= PipeSize
             /\ \A i \in 1 .. Len(commands') : Proper(commands'[i])
  <2>1. /\ Head(commands) = commands[1] /\ Head(commands) \in Transfer
        /\ commands' \in Seq(Transfer)
        /\ Len(commands) \in Nat \ {0} /\ Len(commands') = Len(commands) - 1
        /\ \A i \in 1 .. Len(commands) - 1 :
              commands'[i] = commands[i + 1] /\ i + 1 \in 1 .. Len(commands)
    BY <1>1, Taken DEF Typed, TypeOK
  <2>2. Len(commands) <= PipeSize /\ \A i \in 1 .. Len(commands) : Proper(commands[i])
    BY DEF Typed, TypeOK, Shape
  <2>3. Len(commands') <= PipeSize
    BY <2>1, <2>2, SessionAssumption
  <2>4. 1 \in 1 .. Len(commands)
    BY <2>1
  <2>5. Proper(Head(commands))
    BY <2>1, <2>2, <2>4
  <2>6. \A i \in 1 .. Len(commands') : Proper(commands'[i])
    BY <2>1, <2>2
  <2> QED
    BY <2>1, <2>3, <2>5, <2>6
<1>2. ASSUME serving.kind # "none" PROVE After(serving) \in Transfer /\ Proper(After(serving))
  BY <1>2, AfterTransfer DEF Typed, TypeOK, Shape
<1>3. CASE DiskRead
  BY <1>1, <1>3 DEF DiskRead, Typed, TypeOK, Shape
<1>4. CASE DiskEof \/ DiskFail
  <2>1. /\ disk' \in {"dead", "failed"}
        /\ UNCHANGED <<given, mon, db, serving, queries, results, commands, blocks>>
    BY <1>4 DEF DiskEof, DiskFail
  <2> QED
    BY <2>1 DEF Typed, TypeOK, Shape
<1>5. CASE DiskGet
  <2>1. CASE disk' = "dead" /\ UNCHANGED <<blocks, serving>>
    BY <1>5, <2>1 DEF DiskGet, Typed, TypeOK, Shape
  <2>2. CASE /\ Len(blocks) < PipeSize /\ blocks' = Append(blocks, serving.request)
             /\ serving' = After(serving) /\ UNCHANGED disk
    <3>1. serving.request \in 1 .. MaxRequests + 1 /\ serving.kind # "none"
      <4>1. serving # Idle /\ serving.kind # "none"
        BY <1>5 DEF DiskGet, Idle
      <4> QED
        BY <4>1, SessionAssumption DEF Typed, TypeOK, Shape, Proper, Transfer
    <3>2. blocks \in Seq(1 .. MaxRequests + 1)
      BY DEF Typed, TypeOK
    <3>3. /\ blocks' \in Seq(1 .. MaxRequests + 1) /\ Len(blocks) \in Nat
          /\ Len(blocks') = Len(blocks) + 1
      BY <2>2, <3>1, <3>2, Put, Zenon
    <3>4. Len(blocks') <= PipeSize
      BY <2>2, <3>3, SessionAssumption
    <3> QED
      BY <1>2, <1>5, <2>2, <3>1, <3>3, <3>4 DEF DiskGet, Typed, TypeOK, Shape
  <2> QED
    BY <1>5, <2>1, <2>2 DEF DiskGet
<1>6. CASE DiskPut
  BY <1>1, <1>2, <1>6 DEF DiskPut, Typed, TypeOK, Shape
<1> QED
  BY <1>3, <1>4, <1>5, <1>6 DEF Disk

LEMMA TypedStep == ASSUME Typed, Talk, [Next]_vars PROVE Typed'
<1>1. CASE UNCHANGED vars
  BY <1>1 DEF vars, given, mon, db, dsk, Typed, TypeOK, Shape
<1> QED
  BY <1>1, MonitorTyped, DatabaseTyped, DiskTyped DEF Next

(* A transfer begins and goes on only where blocks are asked for.           *)
LEMMA EngagedStep == ASSUME Typed, Engaged, [Next]_vars PROVE Engaged'
<1>1. CASE SendCommand
  <2>1. CASE UNCHANGED database
    <3>1. PICK t \in MetadataOrBlocks : transfer' = t
      BY <1>1, <2>1 DEF SendCommand
    <3>2. database = "open_disk" => t.left = 1
      BY <3>1 DEF MetadataOrBlocks
    <3> QED
      BY <1>1, <2>1, <3>1, <3>2 DEF SendCommand, Engaged
  <2>2. CASE database' = "unwind" /\ UNCHANGED transfer
    BY <2>2 DEF Engaged
  <2> QED
    BY <1>1, <2>1, <2>2 DEF SendCommand
<1>2. ASSUME transfer # Idle, Running
      PROVE  /\ database \in {"open_disk", "build", "stream"}
             /\ database = "open_disk" => After(transfer) = Idle
  BY <1>2 DEF Engaged, Running, Alive, After
<1>3. transfer.kind # "none" => transfer # Idle
  BY DEF Idle
<1>4. CASE SendData
  BY <1>2, <1>3, <1>4 DEF SendData, Engaged
<1>5. CASE ReadData
  BY <1>2, <1>3, <1>5 DEF ReadData, Engaged
<1>6. CASE ReadLine \/ AskLimit \/ Built \/ Yield \/ Finish
  BY <1>6 DEF ReadLine, AskLimit, Built, Yield, Finish, PrintLine, Engaged
<1>7. CASE FlushLine \/ UnwindEmpty \/ DatabaseFail
  BY <1>7 DEF FlushLine, Flushing, Flushed, UnwindEmpty, DatabaseFail, Engaged
<1>8. CASE Monitor \/ Disk \/ DiskFail \/ UNCHANGED vars
  <2>1. UNCHANGED <<database, transfer>>
    BY <1>8 DEF vars, db, Monitor, SendQuery, SendLimit, MonitorWrite, ReadCommand,
       ReadCommandEof, CollectLine, CollectEof, WaitDatabase, WaitDisk,
       Disk, DiskFail, DiskRead, DiskEof, DiskGet, DiskPut, DiskUnchanged
  <2> QED
    BY <2>1 DEF Engaged
<1> QED
  BY <1>1, <1>4, <1>5, <1>6, <1>7, <1>8 DEF Next, Database

-----------------------------------------------------------------------------
(* The dialogue: reading, flushing and printing a line keep the lines in    *)
(* their order.                                                             *)
LEMMA LineRead ==
  ASSUME Typed, NEW c \in Nat, Lined(c), results # <<>>,
         results' = Tail(results), UNCHANGED <<monitor_out, answer>>
  PROVE  /\ Lined(c + 1)' /\ Head(results) = LineOf(answer, c + 1)
         /\ c + 1 \in 0 .. Len(answer) + 3
         /\ (c + 1) + Len(results') + Len(monitor_out) = c + Len(results) + Len(monitor_out)
<1>1. /\ Head(results) = results[1] /\ Len(results) \in Nat \ {0}
      /\ Len(results') = Len(results) - 1
      /\ \A i \in 1 .. Len(results) - 1 : results'[i] = results[i + 1] /\ i + 1 \in 1 .. Len(results)
  BY Taken DEF Typed, TypeOK
<1>2. Len(monitor_out) \in Nat /\ Len(answer) \in Nat
  BY DEF Typed, TypeOK, Shape
<1>3. (c + 1) + Len(results') + Len(monitor_out) = c + Len(results) + Len(monitor_out)
      /\ (c + 1) + Len(results') = c + Len(results)
  BY <1>1, <1>2
<1>4. Head(results) = LineOf(answer, c + 1)
  BY <1>1 DEF Lined
<1>5. ASSUME NEW i \in 1 .. Len(results') PROVE results'[i] = LineOf(answer, (c + 1) + i)
  <2>1. results'[i] = LineOf(answer, c + (i + 1)) /\ c + (i + 1) = (c + 1) + i
    BY <1>1 DEF Lined
  <2> QED
    BY <2>1
<1>6. ASSUME NEW i \in 1 .. Len(monitor_out')
      PROVE  monitor_out'[i] = LineOf(answer, (c + 1) + Len(results') + i)
  BY <1>3 DEF Lined
<1>7. Lined(c + 1)'
  BY <1>3, <1>5, <1>6 DEF Lined
<1>8. c + 1 \in 0 .. Len(answer) + 3
  BY <1>1, <1>2 DEF Lined
<1> QED
  BY <1>3, <1>4, <1>7, <1>8

LEMMA LineFlushed ==
  ASSUME Typed, NEW c \in Nat, Lined(c), monitor_out # <<>>,
         results' = Append(results, Head(monitor_out)), monitor_out' = Tail(monitor_out),
         UNCHANGED answer
  PROVE  /\ Lined(c)'
         /\ c + Len(results') + Len(monitor_out') = c + Len(results) + Len(monitor_out)
<1>1. /\ Head(monitor_out) = monitor_out[1] /\ Len(monitor_out) \in Nat \ {0}
      /\ Head(monitor_out) \in Message /\ Len(monitor_out') = Len(monitor_out) - 1
      /\ \A i \in 1 .. Len(monitor_out) - 1 :
            monitor_out'[i] = monitor_out[i + 1] /\ i + 1 \in 1 .. Len(monitor_out)
  BY Taken DEF Typed, TypeOK
<1>2. results \in Seq(Message)
  BY DEF Typed, TypeOK
<1>3. /\ Len(results) \in Nat /\ Len(results') = Len(results) + 1
      /\ results'[Len(results) + 1] = Head(monitor_out)
      /\ \A i \in 1 .. Len(results) : results'[i] = results[i]
  BY <1>1, <1>2, Put
<1>4. c + Len(results') + Len(monitor_out') = c + Len(results) + Len(monitor_out)
  BY <1>1, <1>3
<1>5. ASSUME NEW i \in 1 .. Len(results') PROVE results'[i] = LineOf(answer, c + i)
  <2>1. CASE i \in 1 .. Len(results)
    BY <1>3, <2>1 DEF Lined
  <2>2. CASE i = Len(results) + 1
    <3>1. monitor_out[1] = LineOf(answer, c + Len(results) + 1)
          /\ c + Len(results) + 1 = c + (Len(results) + 1)
      BY <1>1, <1>3 DEF Lined
    <3> QED
      BY <1>1, <1>3, <2>2, <3>1
  <2> QED
    BY <1>3, <2>1, <2>2
<1>6. ASSUME NEW i \in 1 .. Len(monitor_out')
      PROVE  monitor_out'[i] = LineOf(answer, c + Len(results') + i)
  <2>1. monitor_out'[i] = LineOf(answer, c + Len(results) + (i + 1))
        /\ c + Len(results) + (i + 1) = c + Len(results') + i
    BY <1>1, <1>3 DEF Lined
  <2> QED
    BY <2>1
<1> QED
  BY <1>4, <1>5, <1>6 DEF Lined

LEMMA LinePrinted ==
  ASSUME Typed, NEW c \in Nat, Lined(c), NEW line \in Message,
         monitor_out' = Append(monitor_out, line), UNCHANGED <<results, answer>>,
         c + Len(results) + Len(monitor_out) <= Len(answer) + 2,
         line = LineOf(answer, c + Len(results) + Len(monitor_out) + 1)
  PROVE  /\ Lined(c)'
         /\ c + Len(results') + Len(monitor_out') = c + Len(results) + Len(monitor_out) + 1
<1>1. monitor_out \in Seq(Message) /\ Len(results) \in Nat /\ Len(answer) \in Nat
  BY DEF Typed, TypeOK, Shape
<1>2. /\ Len(monitor_out) \in Nat /\ Len(monitor_out') = Len(monitor_out) + 1
      /\ monitor_out'[Len(monitor_out) + 1] = line
      /\ \A i \in 1 .. Len(monitor_out) : monitor_out'[i] = monitor_out[i]
  BY <1>1, Put
<1>3. c + Len(results') + Len(monitor_out') = c + Len(results) + Len(monitor_out) + 1
  BY <1>1, <1>2
<1>4. ASSUME NEW i \in 1 .. Len(monitor_out')
      PROVE  monitor_out'[i] = LineOf(answer, c + Len(results) + i)
  <2>1. CASE i \in 1 .. Len(monitor_out)
    BY <1>2, <2>1 DEF Lined
  <2>2. CASE i = Len(monitor_out) + 1
    <3>1. c + Len(results) + Len(monitor_out) + 1 = c + Len(results) + (Len(monitor_out) + 1)
      BY <1>1, <1>2
    <3> QED
      BY <1>2, <2>2, <3>1
  <2> QED
    BY <1>2, <2>1, <2>2
<1>5. c + Len(results') + Len(monitor_out') <= Len(answer') + 3
  BY <1>1, <1>2, <1>3
<1> QED
  BY <1>3, <1>4, <1>5 DEF Lined

(* Talk holds at the start, and the monitor keeps it: it reads and answers  *)
(* the lines in their order, until it returns or reads end of file.         *)
LEMMA InitTalk == Init => Talk
<1> SUFFICES ASSUME Init PROVE Talk
  OBVIOUS
<1>1. answer \in Seq(Lines) /\ Len(<<>>) = 0
  BY SessionAssumption DEF Init, BoundedSeq, SeqOf
<1>2. Len(answer) \in Nat
  BY <1>1
<1>3. results = <<>> /\ monitor_out = <<>> /\ queries = <<>>
  BY DEF Init
<1>4. Lined(0) /\ Position(0, 0)
  BY <1>1, <1>2, <1>3 DEF Init, Lined, Position
<1>e. Len(results) = 0 /\ Len(monitor_out) = 0 /\ Len(queries) = 0
  BY <1>1, <1>3, Zenon
<1>5. 0 + Len(results) + Len(monitor_out) = 0 /\ 0 - Len(queries) = 0
  BY <1>e
<1>6. Progress(0 + Len(results) + Len(monitor_out), 0 - Len(queries))
  BY <1>5 DEF Init, Progress
<1>7. Dialogue(0, 0)
  BY <1>4, <1>6 DEF Dialogue
<1> QED
  BY <1>2, <1>7 DEF Init, Talk

(* Who has read all rows and finds "!" next reads it from a database that    *)
(* has ended; who finds nothing there, and the database dead, after a failure. *)
LEMMA EndRead ==
  ASSUME Typed, NEW c \in 0 .. Len(answer) + 3, NEW asked \in 0 .. 2, Lined(c),
         Position(c, asked), Progress(c + Len(results) + Len(monitor_out), asked - Len(queries)),
         monitor = "validate", results # <<>>, Len(db_lines) = Len(answer)
  PROVE  ~Alive(database)
<1>1. /\ Len(results) \in Nat \ {0} /\ Len(monitor_out) \in Nat /\ Len(answer) \in Nat
      /\ Len(queries) \in Nat /\ sent \in 0 .. Len(answer)
      /\ monitor_out = <<>> <=> Len(monitor_out) = 0
  BY Length DEF Typed, TypeOK, Shape
<1>2. c = 2 + Len(answer) /\ c + Len(results) + Len(monitor_out) <= Len(answer) + 3
  BY DEF Position, Lined
<1>3. /\ c + Len(results) + Len(monitor_out) = Len(answer) + 3
      /\ Len(monitor_out) = 0 /\ Len(answer) + 3 > sent + 2
  BY <1>1, <1>2
<1>4. database # "flush_end"
  BY <1>1, <1>3 DEF Typed, Shape
<1> QED
  BY <1>1, <1>3, <1>4 DEF Progress, Alive

LEMMA EndUnread ==
  ASSUME Typed, NEW c \in 0 .. Len(answer) + 3, NEW asked \in 0 .. 2,
         Position(c, asked), Progress(c + Len(results) + Len(monitor_out), asked - Len(queries)),
         monitor = "validate", results = <<>>, ~Alive(database)
  PROVE  Failure
<1> SUFFICES ASSUME ~Failure PROVE FALSE
  OBVIOUS
<1>1. /\ c + Len(results) + Len(monitor_out) = Len(answer) + 3
      /\ monitor_out = <<>>
  BY DEF Progress, Alive
<1>2. Len(results) = 0 /\ Len(monitor_out) = 0 /\ Len(answer) \in Nat
  BY <1>1, Length DEF Typed, TypeOK, Shape
<1>3. c <= 2 + Len(answer)
  BY <1>2 DEF Position, Typed, TypeOK
<1> QED
  BY <1>1, <1>2, <1>3

LEMMA MonitorTalk == ASSUME Typed, Talk, Monitor PROVE Talk'
<1> USE DEF given, db, dsk
<1>1. UNCHANGED <<answer, db, dsk>>
  BY DEF Monitor, SendQuery, SendLimit, MonitorWrite, ReadCommand, ReadCommandEof,
         CollectLine, CollectEof, WaitDatabase, WaitDisk
<1>2. (disk = "dead" => ~Alive(database))'
  BY <1>1 DEF Talk, Alive
<1>3. CASE Returned /\ ~Alive(database)
  <2>1. Returned'
    BY <1>3 DEF Returned, Monitor, SendQuery, SendLimit, MonitorWrite, ReadCommand,
                ReadCommandEof, CollectLine, CollectEof, WaitDatabase, WaitDisk
  <2> QED
    BY <1>1, <1>2, <1>3, <2>1 DEF Talk
<1>4. CASE AtEof /\ Failure
  <2>1. CollectEof
    BY <1>4 DEF AtEof, Monitor, SendQuery, SendLimit, MonitorWrite, ReadCommand,
                ReadCommandEof, CollectLine, WaitDatabase, WaitDisk
  <2>2. (AtEof /\ Failure)'
    BY <1>1, <1>4, <2>1 DEF AtEof, CollectEof, Alive, Failure
  <2> QED
    BY <1>2, <2>2 DEF Talk
<1>5. ASSUME NEW c \in 0 .. Len(answer) + 3, NEW asked \in 0 .. 2, Dialogue(c, asked)
      PROVE  Talk'
  <2>1. /\ Lined(c) /\ Position(c, asked) /\ c \in Nat
        /\ Progress(c + Len(results) + Len(monitor_out), asked - Len(queries))
    BY <1>5 DEF Dialogue, Typed, Shape
  <2>2. ASSUME NEW d \in 0 .. Len(answer) + 3, NEW a \in 0 .. 2, Lined(d)', Position(d, a)',
               d + Len(results') + Len(monitor_out) = c + Len(results) + Len(monitor_out),
               a - Len(queries') = asked - Len(queries)
        PROVE  Talk'
    <3>1. Progress(d + Len(results) + Len(monitor_out), a - Len(queries))'
      BY <1>1, <2>1, <2>2 DEF Progress, Failure
    <3>2. Dialogue(d, a)'
      BY <1>1, <2>2, <3>1 DEF Dialogue
    <3> QED
      BY <1>1, <1>2, <2>2, <3>2 DEF Talk
  <2>3. CASE SendQuery \/ SendLimit
    <3>1. /\ UNCHANGED <<given, db_lines, db, dsk, results, commands, blocks>>
          /\ \/ monitor' = "wait_database" /\ ~Alive(database)
             \/ /\ monitor' = "read_command"
                /\ \E line \in Message : queries' = Append(queries, line)
      BY <2>3 DEF SendQuery, SendLimit, MonitorWrite, Return, Message
    <3>2. CASE monitor' = "wait_database" /\ ~Alive(database)
      BY <1>1, <1>2, <3>2 DEF Talk, Returned
    <3>3. CASE monitor' = "read_command" /\ \E line \in Message : queries' = Append(queries, line)
      <4>1. queries \in Seq(Message)
        BY DEF Typed, TypeOK
      <4>2. Len(queries') = Len(queries) + 1 /\ Len(queries) \in Nat
        BY <3>3, <4>1, Put
      <4>3. asked = c /\ asked \in {0, 1}
        BY <2>1, <2>3 DEF Position, SendQuery, SendLimit, MonitorWrite
      <4>4. Lined(c)'
        BY <2>1, <3>1 DEF Lined
      <4>5. Position(c, asked + 1)'
        BY <2>1, <2>3, <3>1, <3>3, <4>3
           DEF Position, SendQuery, SendLimit, MonitorWrite
      <4>6. asked + 1 \in 0 .. 2 /\ (asked + 1) - Len(queries') = asked - Len(queries)
        BY <4>2, <4>3
      <4> QED
        BY <2>2, <3>1, <4>4, <4>5, <4>6
    <3> QED
      BY <3>1, <3>2, <3>3
  <2>4. CASE ReadCommand
    <3>0. results # <<>> /\ results' = Tail(results) /\ UNCHANGED <<monitor_out, answer>>
      BY <1>1, <2>4 DEF ReadCommand, given, db
    <3>1. /\ Lined(c + 1)' /\ Head(results) = LineOf(answer, c + 1)
          /\ c + 1 \in 0 .. Len(answer) + 3
          /\ (c + 1) + Len(results') + Len(monitor_out) = c + Len(results) + Len(monitor_out)
      <4>1. c \in Nat /\ Lined(c)
        BY <2>1
      <4> QED
        BY <3>0, <4>1, LineRead
    <3>2. c \in {0, 1} /\ asked = c + 1 /\ db_lines = <<>> /\ monitor = "read_command"
      BY <2>1, <2>4 DEF Position, ReadCommand
    <3>3. Head(results) = IF c = 0 THEN "get_memory_limit" ELSE "validate"
      <4>1. CASE c = 0
        BY <3>1, <4>1 DEF LineOf
      <4>2. CASE c = 1
        <5>1. c + 1 # 1 /\ c + 1 = 2
          BY <4>2
        <5> QED
          BY <3>1, <4>2, <5>1 DEF LineOf
      <4> QED
        BY <3>2, <4>1, <4>2
    <3>4. monitor' = (IF c = 0 THEN "send_limit" ELSE "validate")
          /\ UNCHANGED <<db_lines, answer, queries>>
      BY <2>4, <3>2, <3>3 DEF ReadCommand
    <3>5. Len(<<>>) = 0 /\ Len(answer) \in Nat
      BY DEF Typed, Shape
    <3>6. Position(c + 1, asked)'
      BY <3>2, <3>4, <3>5 DEF Position
    <3> QED
      BY <1>1, <2>2, <3>1, <3>4, <3>6
  <2>5. CASE CollectLine
    <3>1. ASSUME Head(results) = "!" PROVE Talk'
      <4>1. monitor = "validate" /\ results # <<>> /\ Len(db_lines) = Len(answer)
        BY <2>5, <3>1, NextLine DEF CollectLine
      <4>2. ~Alive(database)
        BY <2>1, <4>1, EndRead
      <4> QED
        BY <1>1, <1>2, <2>5, <3>1, <4>2 DEF CollectLine, Return, Talk, Returned
    <3>2. ASSUME Head(results) # "!" PROVE Talk'
      <4>1. /\ Lined(c + 1)' /\ c + 1 \in 0 .. Len(answer) + 3
            /\ (c + 1) + Len(results') + Len(monitor_out) = c + Len(results) + Len(monitor_out)
        BY <1>1, <2>1, <2>5, LineRead DEF CollectLine
      <4>2. /\ monitor' = "validate" /\ monitor = "validate"
            /\ db_lines' = Append(db_lines, Head(results)) /\ UNCHANGED <<answer, queries>>
            /\ results # <<>>
        BY <2>5, <3>2 DEF CollectLine
      <4>3. /\ Len(db_lines) < Len(answer) /\ Head(results) = answer[Len(db_lines) + 1]
            /\ \A i \in 1 .. Len(db_lines) : db_lines[i] = answer[i]
            /\ Head(results) \in Lines
        BY <3>2, <4>2, NextLine DEF Typed, Shape, TypeOK
      <4>4. db_lines \in Seq(Lines \cup {"blank"}) /\ Head(results) \in Lines \cup {"blank"}
        BY <4>3 DEF Typed, TypeOK
      <4>5. /\ Len(db_lines) \in Nat /\ Len(db_lines') = Len(db_lines) + 1
            /\ db_lines'[Len(db_lines) + 1] = Head(results)
            /\ \A i \in 1 .. Len(db_lines) : db_lines'[i] = db_lines[i]
        BY <4>2, <4>4, Put
      <4>6. \A i \in 1 .. Len(db_lines') : db_lines'[i] = answer[i]
        <5>1. \A i \in 1 .. Len(db_lines') : i \in 1 .. Len(db_lines) \/ i = Len(db_lines) + 1
          BY <4>5
        <5> QED
          BY <4>3, <4>5, <5>1
      <4>7. asked = 2 /\ c = 2 + Len(db_lines) /\ Len(answer) \in Nat
        BY <2>1, <4>2 DEF Position, Typed, Shape
      <4>8. c + 1 = 2 + Len(db_lines') /\ Len(db_lines') <= Len(answer)
        BY <4>3, <4>5, <4>7
      <4>9. Position(c + 1, asked)'
        BY <4>2, <4>6, <4>7, <4>8 DEF Position
      <4> QED
        BY <1>1, <2>2, <4>1, <4>2, <4>9
    <3> QED
      BY <3>1, <3>2
  <2>6. CASE CollectEof
    <3>1. Failure
      BY <2>1, <2>6, EndUnread DEF CollectEof
    <3> QED
      BY <1>1, <1>2, <2>6, <3>1 DEF CollectEof, Talk, AtEof, Alive, Failure
  <2>7. CASE ReadCommandEof \/ WaitDatabase \/ WaitDisk
    <3>1. ~Alive(database)
      BY <2>1, <2>7 DEF ReadCommandEof, WaitDatabase, WaitDisk, Position
    <3> QED
      BY <1>1, <1>2, <2>7, <3>1
         DEF ReadCommandEof, WaitDatabase, WaitDisk, Return, Talk, Returned
  <2> QED
    BY <2>3, <2>4, <2>5, <2>6, <2>7 DEF Monitor
<1> QED
  BY <1>3, <1>4, <1>5 DEF Talk

(* The database keeps it too: it prints the lines in their order and stops  *)
(* half-way only when the disk or the process itself has failed.            *)
LEMMA DatabaseAlive == Database \/ DatabaseFail => Alive(database)
  BY DEF Database, DatabaseFail, SendCommand, SendData, ReadData, ReadLine, AskLimit, Built,
         Yield, Finish, FlushLine, UnwindEmpty, Flushing, Running, Alive

LEMMA DatabaseTalk == ASSUME Typed, Engaged, Talk, Database \/ DatabaseFail PROVE Talk'
<1> USE DEF given, mon, dsk
<1>1. UNCHANGED <<answer, monitor, db_lines, disk>> /\ Alive(database)
  BY DatabaseAlive
     DEF Database, DatabaseFail, SendCommand, SendData, ReadData, ReadLine, AskLimit, Built,
         Yield, Finish, PrintLine, FlushLine, UnwindEmpty
<1>2. (disk = "dead" => ~Alive(database))'
  BY <1>1 DEF Talk
<1>4. ASSUME NEW c \in 0 .. Len(answer) + 3, NEW asked \in 0 .. 2, Dialogue(c, asked)
      PROVE  Talk'
  <2>1. PICK p \in Nat : p = c + Len(results) + Len(monitor_out)
    BY DEF Typed, TypeOK, Shape
  <2>2. PICK r \in Int : r = asked - Len(queries)
    <3>1. Len(queries) \in Nat
      BY DEF Typed, TypeOK
    <3>2. asked - Len(queries) \in Int
      BY <3>1
    <3> QED
      BY <3>2, Zenon
  <2>3. /\ Lined(c) /\ Position(c, asked) /\ c \in Nat /\ Progress(p, r)
        /\ Len(answer) \in Nat
    BY <1>4, <2>1, <2>2 DEF Dialogue, Typed, Shape
  <2>f. sent \in 0 .. Len(answer) /\ r >= 0 /\ (p >= 1 => r >= 1) /\ p <= Len(answer) + 3
    <3>1. sent \in 0 .. Len(answer)
      BY DEF Typed, TypeOK
    <3>2. p <= Len(answer) + 3
      BY <2>1, <2>3 DEF Lined
    <3> QED
      BY <2>3, <3>1, <3>2 DEF Progress
  <2>4. ASSUME NEW q \in Nat, NEW t \in Int, Progress(q, t)', Lined(c)',
               q = c + Len(results') + Len(monitor_out'), t = asked - Len(queries')
        PROVE  Talk'
    <3>1. Progress(c + Len(results) + Len(monitor_out), asked - Len(queries))'
      BY <2>4
    <3>2. Position(c, asked)'
      BY <1>1, <2>3 DEF Position
    <3>3. Dialogue(c, asked)'
      BY <2>4, <3>1, <3>2 DEF Dialogue
    <3> QED
      BY <1>1, <1>2, <3>3 DEF Talk
  <2>5. ASSUME UNCHANGED <<results, monitor_out, queries, sent>>,
               \/ database' = database
               \/ database = "open_disk" /\ database' = "read_query"
               \/ /\ ~Alive(disk) /\ database' = "unwind"
                  /\ database \in {"open_disk", "build", "stream"}
        PROVE  Talk'
    <3>1. Lined(c)'
      BY <1>1, <2>3, <2>5 DEF Lined
    <3>2. ~Alive(disk) => disk = "failed"
      BY <1>1 DEF Talk, Alive
    <3>3. Progress(p, r)'
      <4>1. CASE database' = database
        BY <1>1, <2>3, <2>5, <4>1 DEF Progress, Failure
      <4>2. CASE database = "open_disk" /\ database' = "read_query"
        BY <1>1, <2>3, <2>5, <4>2 DEF Progress
      <4>3. CASE /\ ~Alive(disk) /\ database' = "unwind"
                 /\ database \in {"open_disk", "build", "stream"}
        <5>1. p <= Len(answer) + 2
          BY <2>3, <2>f, <4>3 DEF Progress
        <5>2. Failure'
          BY <1>1, <3>2, <4>3 DEF Failure
        <5> QED
          BY <1>1, <2>f, <4>3, <5>1, <5>2 DEF Progress
      <4> QED
        BY <2>5, <4>1, <4>2, <4>3
    <3> QED
      BY <2>1, <2>2, <2>4, <2>5, <3>1, <3>3
  <2>6. CASE SendCommand \/ SendData \/ ReadData
    <3>1. SendData \/ ReadData => database \in {"open_disk", "build", "stream"}
      BY DEF SendData, ReadData, Running, Alive, Engaged, Idle
    <3> QED
      BY <2>5, <2>6, <3>1 DEF SendCommand, SendData, ReadData
  <2>7. CASE ReadLine
    <3>1. Lined(c)' /\ UNCHANGED <<results, monitor_out, sent>>
      BY <1>1, <2>3, <2>7 DEF Lined, ReadLine
    <3>2. Len(queries') = Len(queries) - 1 /\ Len(queries) \in Nat
      BY <2>7, Taken DEF ReadLine, Typed, TypeOK
    <3>3. r + 1 = asked - Len(queries')
      BY <2>2, <3>2
    <3>4. Progress(p, r + 1)'
      BY <1>1, <2>3, <2>7, <3>1 DEF Progress, ReadLine, Failure
    <3> QED
      BY <2>1, <2>4, <3>1, <3>3, <3>4
  <2>8. ASSUME NEW line \in Message, NEW to, PrintLine(line, to), Progress(p + 1, r)',
               p <= Len(answer) + 2, line = LineOf(answer, p + 1)
        PROVE  Talk'
    <3>1. monitor_out' = Append(monitor_out, line) /\ UNCHANGED <<results, queries>>
      BY <2>8 DEF PrintLine
    <3>2. Lined(c)' /\ c + Len(results') + Len(monitor_out') = p + 1
      BY <1>1, <2>1, <2>3, <2>8, <3>1, LinePrinted
    <3> QED
      BY <2>2, <2>4, <2>8, <3>1, <3>2
  <2>9. CASE AskLimit
    <3>1. p = 0 /\ r = 1 /\ sent = 0 /\ database = "ask_limit"
      BY <2>3, <2>9 DEF Progress, AskLimit, Failure, Alive
    <3>2. PrintLine("get_memory_limit", "flush_limit") /\ sent' = sent
      BY <2>9 DEF AskLimit
    <3>3. Progress(p + 1, r)'
      BY <3>1, <3>2 DEF Progress, PrintLine
    <3>4. "get_memory_limit" \in Message /\ "get_memory_limit" = LineOf(answer, p + 1)
      BY <3>1 DEF Message, LineOf
    <3> QED
      BY <2>3, <2>8, <3>1, <3>2, <3>3, <3>4
  <2>10. CASE Built
    <3>1. p = 1 /\ r = 2 /\ sent = 0 /\ database = "build"
      BY <2>3, <2>10 DEF Progress, Built, Failure, Alive
    <3>2. PrintLine("validate", "flush_validate") /\ sent' = sent
      BY <2>10 DEF Built
    <3>3. Progress(p + 1, r)'
      BY <3>1, <3>2 DEF Progress, PrintLine
    <3>4. "validate" \in Message /\ "validate" = LineOf(answer, p + 1)
      BY <3>1 DEF Message, LineOf
    <3> QED
      BY <2>3, <2>8, <3>1, <3>2, <3>3, <3>4
  <2>11. CASE Yield
    <3>1. p = sent + 2 /\ r = 2 /\ database = "stream" /\ sent \in Nat /\ sent < Len(answer)
      BY <2>3, <2>11 DEF Progress, Yield, Failure, Alive, Typed, TypeOK
    <3>2. PICK to \in {"stream", "flush_rows"} : PrintLine(answer[sent + 1], to) /\ sent' = sent + 1
      BY <2>11 DEF Yield
    <3>3. Progress(p + 1, r)'
      BY <3>1, <3>2 DEF Progress, PrintLine
    <3>4. answer[sent + 1] \in Message /\ answer[sent + 1] = LineOf(answer, p + 1)
      <4>1. sent + 1 \in 1 .. Len(answer) /\ answer \in Seq(Lines)
        BY <2>3, <3>1 DEF Typed, Shape
      <4>2. answer[sent + 1] \in Message
        BY <4>1 DEF Message
      <4>3. p + 1 # 1 /\ p + 1 # 2 /\ p + 1 # Len(answer) + 3 /\ (p + 1) - 2 = sent + 1
        BY <2>3, <3>1
      <4> QED
        BY <4>2, <4>3 DEF LineOf
    <3> QED
      BY <2>3, <2>8, <3>1, <3>2, <3>3, <3>4
  <2>12. CASE Finish
    <3>1. p = Len(answer) + 2 /\ r = 2 /\ database = "stream"
      BY <2>3, <2>12 DEF Progress, Finish, Failure, Alive
    <3>2. PrintLine("!", "flush_end") /\ sent' = sent
      BY <2>12 DEF Finish
    <3>3. Progress(p + 1, r)'
      BY <1>1, <2>3, <3>1, <3>2 DEF Progress, PrintLine
    <3>4. "!" \in Message /\ "!" = LineOf(answer, p + 1)
      BY <2>3, <3>1 DEF Message, LineOf
    <3> QED
      BY <2>3, <2>8, <3>1, <3>2, <3>3, <3>4
  <2>13. CASE FlushLine
    <3>1. Lined(c)' /\ c + Len(results') + Len(monitor_out') = p
      BY <1>1, <2>1, <2>3, <2>13, LineFlushed DEF FlushLine
    <3>2. /\ Len(monitor_out') = Len(monitor_out) - 1 /\ Len(monitor_out) \in Nat
          /\ monitor_out' = <<>> <=> Len(monitor_out) - 1 = 0
      BY <2>13, Taken, Length DEF FlushLine, Typed, TypeOK
    <3>3. database' = Flushed(Len(monitor_out) - 1) /\ Flushing /\ UNCHANGED <<sent, queries>>
      BY <2>13 DEF FlushLine
    <3>4. Progress(p, r)'
      BY <1>1, <2>3, <2>f, <3>2, <3>3 DEF Progress, Flushed, Flushing, Failure
    <3> QED
      BY <2>2, <2>4, <3>1, <3>3, <3>4
  <2>14. CASE UnwindEmpty
    <3>1. /\ UNCHANGED <<results, monitor_out, queries, sent>>
          /\ database = "unwind" /\ database' = "dead"
      BY <2>14 DEF UnwindEmpty
    <3>2. Lined(c)' /\ Progress(p, r)'
      BY <1>1, <2>3, <2>f, <3>1 DEF Lined, Progress, Failure
    <3> QED
      BY <2>1, <2>2, <2>4, <3>1, <3>2
  <2>15. CASE DatabaseFail
    <3>1. database' = "failed" /\ monitor_out' = <<>> /\ UNCHANGED <<results, queries>>
      BY <2>15 DEF DatabaseFail
    <3>2. Len(<<>>) = 0 /\ Len(results) \in Nat /\ Len(monitor_out) \in Nat
      BY DEF Typed, TypeOK
    <3>3. Lined(c)'
      BY <1>1, <2>3, <3>1, <3>2 DEF Lined
    <3>5. PICK q \in Nat : q = c + Len(results') + Len(monitor_out')
      BY <2>3, <3>1, <3>2
    <3>6. q <= p
      BY <2>1, <2>3, <3>1, <3>2, <3>5
    <3>7. Progress(q, r)'
      BY <2>f, <3>1, <3>6 DEF Progress, Failure
    <3> QED
      BY <2>2, <2>4, <3>1, <3>3, <3>5, <3>7
  <2> QED
    BY <2>6, <2>7, <2>9, <2>10, <2>11, <2>12, <2>13, <2>14, <2>15 DEF Database
<1> QED
  BY <1>1, <1>4 DEF Talk, AtEof

LEMMA DiskTalk == ASSUME Typed, Talk, Disk \/ DiskFail PROVE Talk'
<1>1. /\ UNCHANGED <<answer, mon, db, queries, results>>
      /\ disk' \in {disk, "failed"} \/ (disk' = "dead" /\ ~Alive(database))
      /\ disk # "failed"
  <2>1. UNCHANGED <<answer, mon, db, queries, results>>
    BY DEF Disk, DiskFail, DiskRead, DiskEof, DiskGet, DiskPut, DiskUnchanged, given
  <2>2. disk' = disk \/ disk' = "failed" \/ (disk' = "dead" /\ ~Alive(database))
    BY DEF Disk, DiskFail, DiskRead, DiskEof, DiskGet, DiskPut
  <2>3. disk # "failed"
    BY DEF Disk, DiskFail, DiskRead, DiskEof, DiskGet, DiskPut, Alive
  <2> QED
    BY <2>1, <2>2, <2>3
<1>2. (disk = "dead" => ~Alive(database))'
  BY <1>1 DEF Talk, db
<1>3. ASSUME NEW c \in 0 .. Len(answer) + 3, NEW asked \in 0 .. 2, Dialogue(c, asked)
      PROVE  Dialogue(c, asked)'
  <2>1. Lined(c)' /\ Position(c, asked)'
    BY <1>1, <1>3 DEF Dialogue, Lined, Position, mon, db
  <2>2. Progress(c + Len(results) + Len(monitor_out), asked - Len(queries))'
    BY <1>1, <1>3 DEF Dialogue, Progress, Failure, db
  <2> QED
    BY <2>1, <2>2 DEF Dialogue
<1>4. Failure => Failure'
  BY <1>1 DEF Failure, db
<1>5. (Returned /\ ~Alive(database) => (Returned /\ ~Alive(database))')
      /\ (AtEof => AtEof')
  BY <1>1 DEF Returned, AtEof, mon, db
<1>6. answer' = answer
  BY <1>1
<1> QED
  BY <1>2, <1>3, <1>4, <1>5, <1>6 DEF Talk

LEMMA TalkStep == ASSUME Typed, Engaged, Talk, [Next]_vars PROVE Talk'
<1>1. CASE UNCHANGED vars
  BY <1>1 DEF vars, given, mon, db, dsk, Talk, Returned, AtEof, Dialogue, Lined, Position,
              Progress, Failure
<1> QED
  BY <1>1, MonitorTalk, DatabaseTalk, DiskTalk DEF Next

-----------------------------------------------------------------------------
(* The verdict.  A database that ended without failing has printed and      *)
(* flushed everything, so a monitor that has not read the "!" can only find *)
(* it dead after a failure.                                                 *)
LEMMA DeadBeforeEnd ==
  ASSUME Typed, Talk, ~Alive(database),
         \/ monitor \in {"send_query", "send_limit"}
         \/ monitor = "read_command" /\ results = <<>>
  PROVE  Failure
<1> SUFFICES ASSUME ~Failure PROVE FALSE
  OBVIOUS
<1>1. PICK c \in 0 .. Len(answer) + 3, asked \in 0 .. 2 : Dialogue(c, asked)
  BY DEF Talk, Returned, AtEof
<1>2. /\ c + Len(results) + Len(monitor_out) = Len(answer) + 3 /\ asked - Len(queries) = 2
      /\ monitor_out = <<>>
  BY <1>1 DEF Dialogue, Progress, Alive
<1>3. Len(queries) \in Nat /\ Len(answer) \in Nat /\ Len(<<>>) = 0
  BY DEF Typed, TypeOK, Shape
<1>4. asked = 2
  BY <1>2, <1>3
<1>5. monitor = "read_command" /\ results = <<>> /\ c \in {0, 1}
  BY <1>1, <1>4 DEF Dialogue, Position
<1>6. Len(results) = 0 /\ Len(monitor_out) = 0
  BY <1>2, <1>3, <1>5, Zenon
<1> QED
  BY <1>2, <1>3, <1>5, <1>6

LEMMA SameMatch == ASSUME UNCHANGED given PROVE Matches(answer)' <=> Matches(answer)
<1>1. expected' = expected /\ answer' = answer /\ sort_before_check' = sort_before_check
  BY DEF given
<1> QED
  BY <1>1 DEF Matches, Places, ToSet

LEMMA OutcomeStep == ASSUME Typed, Talk, Outcome, [Next]_vars PROVE Outcome'
<1>1. UNCHANGED given
  BY DEF Next, vars, Monitor, SendQuery, SendLimit, MonitorWrite, ReadCommand, ReadCommandEof,
         CollectLine, CollectEof, WaitDatabase, WaitDisk, Database, DatabaseFail, SendCommand,
         SendData, ReadData, ReadLine, AskLimit, Built, Yield, Finish, PrintLine, FlushLine,
         UnwindEmpty, Disk, DiskFail, DiskRead, DiskEof, DiskGet, DiskPut, DiskUnchanged
<1>2. Failure => Failure'
  <2>1. database = "failed" => database' = "failed"
    BY DatabaseAlive DEF Next, vars, Alive, db, Monitor, SendQuery, SendLimit, MonitorWrite,
       ReadCommand, ReadCommandEof, CollectLine, CollectEof, WaitDatabase, WaitDisk,
       Disk, DiskFail, DiskRead, DiskEof, DiskGet, DiskPut, DiskUnchanged
  <2>2. disk = "failed" => disk' = "failed"
    BY DEF Next, vars, Alive, dsk, Monitor, SendQuery, SendLimit, MonitorWrite, ReadCommand,
       ReadCommandEof, CollectLine, CollectEof, WaitDatabase, WaitDisk, Database, DatabaseFail,
       SendCommand, SendData, ReadData, ReadLine, AskLimit, Built, Yield, Finish, PrintLine,
       FlushLine, UnwindEmpty, Disk, DiskFail, DiskRead, DiskEof, DiskGet, DiskPut
  <2> QED
    BY <2>1, <2>2 DEF Failure
<1>3. ASSUME result' = result PROVE Outcome'
  BY <1>1, <1>2, <1>3, SameMatch DEF Outcome, NoFalseSuccess, FailsForCause
<1>4. ASSUME result' = "error", Failure PROVE Outcome'
  BY <1>2, <1>4 DEF Outcome, NoFalseSuccess, FailsForCause
<1>5. CASE SendQuery \/ SendLimit
  <2>1. \/ result' = result
        \/ result' = "error" /\ ~Alive(database) /\ monitor \in {"send_query", "send_limit"}
    BY <1>5 DEF SendQuery, SendLimit, MonitorWrite, Return
  <2> QED
    BY <1>3, <1>4, <2>1, DeadBeforeEnd
<1>6. CASE ReadCommand
  <2>1. PICK c \in 0 .. Len(answer) + 3, asked \in 0 .. 2 : Dialogue(c, asked)
    BY <1>6 DEF ReadCommand, Talk, Returned, AtEof
  <2>2. c \in {0, 1} /\ Lined(c)
    BY <1>6, <2>1 DEF ReadCommand, Dialogue, Position
  <2>3. Head(results) = results[1] /\ 1 \in 1 .. Len(results)
    BY <1>6, Taken DEF ReadCommand, Typed, TypeOK
  <2>4. Head(results) = LineOf(answer, c + 1)
    BY <2>2, <2>3 DEF Lined
  <2>5. Head(results) \in {"get_memory_limit", "validate"}
    BY <2>2, <2>4 DEF LineOf
  <2> QED
    BY <1>3, <1>6, <2>5 DEF ReadCommand
<1>7. CASE ReadCommandEof
  BY <1>4, <1>7, DeadBeforeEnd DEF ReadCommandEof, Return
<1>8. CASE CollectLine
  <2>1. CASE Head(results) = "!"
    <3>1. /\ Len(db_lines) = Len(answer)
          /\ \A i \in 1 .. Len(db_lines) : db_lines[i] = answer[i]
      <4>1. monitor = "validate" /\ results # <<>>
        BY <1>8 DEF CollectLine
      <4>2. /\ Len(db_lines) \in 0 .. Len(answer)
            /\ \A i \in 1 .. Len(db_lines) : db_lines[i] = answer[i]
            /\ ~(Len(db_lines) < Len(answer))
        BY <2>1, <4>1, NextLine
      <4>3. Len(answer) \in Nat
        BY DEF Typed, Shape
      <4> QED
        BY <4>2, <4>3
    <3>2. db_lines \in Seq(Lines \cup {"blank"}) /\ answer \in Seq(Lines \cup {"blank"})
      BY DEF Typed, TypeOK, Shape
    <3>3. db_lines = answer
      BY <3>1, <3>2
    <3>4. result' = IF Matches(answer) THEN "ok" ELSE "error"
      BY <1>8, <2>1, <3>3 DEF CollectLine, Return
    <3> QED
      BY <1>1, <3>4, SameMatch DEF Outcome, NoFalseSuccess, FailsForCause
  <2>2. CASE Head(results) # "!"
    BY <1>3, <1>8, <2>2 DEF CollectLine
  <2> QED
    BY <2>1, <2>2
<1>9. CASE CollectEof \/ WaitDatabase \/ WaitDisk
  BY <1>3, <1>9 DEF CollectEof, WaitDatabase, WaitDisk
<1>10. CASE Database \/ DatabaseFail \/ Disk \/ DiskFail \/ UNCHANGED vars
  <2>1. UNCHANGED result
    BY <1>10 DEF vars, mon, Database, DatabaseFail, SendCommand, SendData, ReadData, ReadLine,
       AskLimit, Built, Yield, Finish, PrintLine, FlushLine, UnwindEmpty, Disk, DiskFail,
       DiskRead, DiskEof, DiskGet, DiskPut, DiskUnchanged
  <2> QED
    BY <1>3, <2>1
<1> QED
  BY <1>5, <1>6, <1>7, <1>8, <1>9, <1>10 DEF Next, Monitor

-----------------------------------------------------------------------------
(* Framing: a message sent at the end, or taken at the front, keeps the     *)
(* count of the data chunks due.                                            *)
LEMMA DueTransfer == \A t \in Transfer : Due(t) \in 0 .. Chunks
  BY SessionAssumption DEF Due, Transfer

LEMMA FrameSent ==
  ASSUME NEW cs \in Seq(Transfer), NEW s, NEW t \in Transfer,
         NEW f \in [0 .. Len(cs) -> 0 .. Chunks], Framed(f, cs, s),
         t.kind = "none" <=> f[Len(cs)] > 0
  PROVE  LET ds == Append(cs, t)
         IN  \E g \in [0 .. Len(ds) -> 0 .. Chunks] :
                /\ Framed(g, ds, s)
                /\ g[Len(ds)] = IF f[Len(cs)] > 0 THEN f[Len(cs)] - 1 ELSE Due(t)
<1> DEFINE n  == Len(cs)
           ds == Append(cs, t)
           d  == IF f[n] > 0 THEN f[n] - 1 ELSE Due(t)
           g  == [i \in 0 .. n + 1 |-> IF i = n + 1 THEN d ELSE f[i]]
<1>1. /\ n \in Nat /\ Len(ds) = n + 1 /\ ds[n + 1] = t
      /\ \A i \in 1 .. n : ds[i] = cs[i]
  BY Put
<1>2. f[n] \in 0 .. Chunks /\ \A i \in 0 .. n : f[i] \in 0 .. Chunks
  BY <1>1
<1>3. d \in 0 .. Chunks
  BY <1>2, DueTransfer, SessionAssumption
<1>4. /\ g \in [0 .. n + 1 -> 0 .. Chunks] /\ g[n + 1] = d
      /\ \A i \in 0 .. n : g[i] = f[i]
  <2> HIDE DEF d
  <2>1. \A i \in 0 .. n : i # n + 1 /\ i \in 0 .. n + 1
    BY <1>1
  <2>2. \A i \in 0 .. n + 1 : i = n + 1 \/ i \in 0 .. n
    BY <1>1
  <2> QED
    BY <1>1, <1>2, <1>3, <2>1, <2>2
<1> HIDE DEF g, ds, d
<1>5. g[0] = Due(s)
  BY <1>1, <1>4 DEF Framed
<1>6. ASSUME NEW i \in 1 .. n + 1
      PROVE  /\ ds[i].kind = "none" <=> g[i - 1] > 0
             /\ g[i] = IF g[i - 1] > 0 THEN g[i - 1] - 1 ELSE Due(ds[i])
  <2>1. CASE i = n + 1
    <3>1. i - 1 = n /\ g[i - 1] = f[n] /\ ds[i] = t /\ g[i] = d
      BY <1>1, <1>4, <2>1
    <3> QED
      BY <3>1 DEF d
  <2>2. CASE i \in 1 .. n
    <3>1. i \in 0 .. n /\ i - 1 \in 0 .. n
      BY <1>1, <2>2
    <3>2. g[i] = f[i] /\ g[i - 1] = f[i - 1] /\ ds[i] = cs[i]
      BY <1>1, <1>4, <2>2, <3>1
    <3> QED
      BY <2>2, <3>2 DEF Framed
  <2> QED
    BY <1>1, <2>1, <2>2
<1>7. Framed(g, ds, s)
  BY <1>1, <1>5, <1>6 DEF Framed
<1> QED
  BY <1>1, <1>4, <1>7 DEF ds, d

LEMMA FrameTaken ==
  ASSUME NEW cs \in Seq(Transfer), cs # <<>>, NEW s, NEW t,
         NEW f \in [0 .. Len(cs) -> 0 .. Chunks], Framed(f, cs, s), Due(t) = f[1]
  PROVE  LET ds == Tail(cs)
         IN  \E g \in [0 .. Len(ds) -> 0 .. Chunks] :
                Framed(g, ds, t) /\ g[Len(ds)] = f[Len(cs)]
<1> DEFINE n  == Len(cs)
           ds == Tail(cs)
           g  == [i \in 0 .. n - 1 |-> f[i + 1]]
<1>1. /\ n \in Nat \ {0} /\ Len(ds) = n - 1
      /\ \A i \in 1 .. n - 1 : ds[i] = cs[i + 1] /\ i + 1 \in 1 .. n
  BY Taken
<1>2. \A i \in 0 .. n - 1 : i + 1 \in 0 .. n /\ i + 1 \in 1 .. n
  BY <1>1
<1>3. g \in [0 .. n - 1 -> 0 .. Chunks] /\ \A i \in 0 .. n - 1 : g[i] = f[i + 1]
  BY <1>2
<1> HIDE DEF g, ds
<1>4. g[0] = Due(t) /\ g[n - 1] = f[n]
  <2>1. 0 \in 0 .. n - 1 /\ n - 1 \in 0 .. n - 1 /\ (n - 1) + 1 = n /\ 0 + 1 = 1
    BY <1>1
  <2>2. g[0] = f[0 + 1] /\ g[n - 1] = f[(n - 1) + 1]
    BY <1>3, <2>1
  <2> QED
    BY <2>1, <2>2
<1>5. ASSUME NEW i \in 1 .. n - 1
      PROVE  /\ ds[i].kind = "none" <=> g[i - 1] > 0
             /\ g[i] = IF g[i - 1] > 0 THEN g[i - 1] - 1 ELSE Due(ds[i])
  <2>1. i \in 0 .. n - 1 /\ i - 1 \in 0 .. n - 1 /\ (i - 1) + 1 = i /\ (i + 1) - 1 = i
        /\ i + 1 \in 1 .. n
    BY <1>1
  <2>2. g[i] = f[i + 1] /\ g[i - 1] = f[i] /\ ds[i] = cs[i + 1]
    BY <1>1, <1>3, <2>1
  <2>3. /\ cs[i + 1].kind = "none" <=> f[(i + 1) - 1] > 0
        /\ f[i + 1] = IF f[(i + 1) - 1] > 0 THEN f[(i + 1) - 1] - 1 ELSE Due(cs[i + 1])
    BY <2>1 DEF Framed
  <2> QED
    BY <2>1, <2>2, <2>3
<1>6. Framed(g, ds, t)
  BY <1>1, <1>4, <1>5 DEF Framed
<1> QED
  BY <1>1, <1>3, <1>4, <1>6 DEF ds

LEMMA AfterOf ==
  ASSUME NEW t \in Transfer, Proper(t), t.kind # "none"
  PROVE  /\ After(t).left = t.left - 1 /\ t.left \in 1 .. Chunks
         /\ t.left = 1 => After(t) = Idle
         /\ t.left # 1 => After(t).kind = t.kind /\ After(t).request = t.request
         /\ Due(After(t)) = IF t.kind = "put" THEN t.left - 1 ELSE 0
<1>1. t # Idle /\ t.left \in 1 .. Chunks
  BY SessionAssumption DEF Idle, Proper, Transfer
<1>2. CASE t.left = 1
  BY <1>1, <1>2 DEF After, Idle, Due
<1>3. CASE t.left # 1
  <2>1. After(t) = [t EXCEPT !.left = t.left - 1]
    BY <1>3 DEF After
  <2> QED
    BY <1>1, <1>3, <2>1 DEF Transfer, Due
<1> QED
  BY <1>2, <1>3

(* A database that has died, or unwinds, never sends again.                 *)
LEMMA StaysRunning == ASSUME [Next]_vars, Running' PROVE Running
  BY DEF Next, vars, db, Monitor, SendQuery, SendLimit, MonitorWrite, ReadCommand, ReadCommandEof,
         CollectLine, CollectEof, WaitDatabase, WaitDisk, Database, DatabaseFail, SendCommand,
         SendData, ReadData, ReadLine, AskLimit, Built, Yield, Finish, PrintLine, FlushLine,
         Flushed, UnwindEmpty, Disk, DiskFail, DiskRead, DiskEof, DiskGet, DiskPut,
         DiskUnchanged, Running, Alive

(* The steps that move nothing between the database and the disk.           *)
Elsewhere == UNCHANGED <<commands, serving, transfer, blocks>>

LEMMA MovesElsewhere ==
  ASSUME \/ Monitor \/ ReadLine \/ AskLimit \/ Built \/ Yield \/ Finish \/ FlushLine
         \/ UnwindEmpty \/ DatabaseFail \/ DiskEof \/ DiskFail \/ UNCHANGED vars
  PROVE  Elsewhere
  BY DEF Elsewhere, vars, db, dsk, Monitor, SendQuery, SendLimit, MonitorWrite, ReadCommand,
         ReadCommandEof, CollectLine, CollectEof, WaitDatabase, WaitDisk, DatabaseFail,
         ReadLine, AskLimit, Built, Yield, Finish, PrintLine, FlushLine, UnwindEmpty,
         DiskFail, DiskEof, DiskUnchanged

LEMMA FramingStep == ASSUME Typed, Framing, [Next]_vars PROVE Framing'
<1>1. PICK f \in [0 .. Len(commands) -> 0 .. Chunks] :
         Framed(f, commands, serving) /\ (Running => f[Len(commands)] = Due(transfer))
  BY DEF Framing
<1>2. /\ commands \in Seq(Transfer) /\ transfer \in Transfer /\ serving \in Transfer
      /\ Proper(transfer) /\ Proper(serving) /\ Idle \in Transfer
      /\ Len(commands) \in Nat
  BY IdleTransfer DEF Typed, TypeOK, Shape
<1>3. Running' => Running
  BY StaysRunning
<1>4. CASE Elsewhere
  BY <1>1, <1>3, <1>4 DEF Elsewhere, Framing
<1>5. ASSUME UNCHANGED <<commands, serving>>, Running' => Due(transfer') = Due(transfer)
      PROVE  Framing'
  BY <1>1, <1>3, <1>5 DEF Framing
<1>6. ASSUME NEW t \in Transfer, commands' = Append(commands, t), serving' = serving,
             Running, t.kind = "none" <=> f[Len(commands)] > 0,
             Due(transfer') = IF f[Len(commands)] > 0 THEN f[Len(commands)] - 1 ELSE Due(t)
      PROVE  Framing'
  <2>1. PICK g \in [0 .. Len(commands') -> 0 .. Chunks] :
           /\ Framed(g, commands', serving)
           /\ g[Len(commands')] = IF f[Len(commands)] > 0 THEN f[Len(commands)] - 1 ELSE Due(t)
    BY <1>1, <1>2, <1>6, FrameSent
  <2> QED
    BY <1>6, <2>1 DEF Framing
<1>7. ASSUME commands # <<>>, commands' = Tail(commands), UNCHANGED transfer,
             Due(serving') = f[1]
      PROVE  Framing'
  <2>1. PICK g \in [0 .. Len(commands') -> 0 .. Chunks] :
           Framed(g, commands', serving') /\ g[Len(commands')] = f[Len(commands)]
    BY <1>1, <1>2, <1>7, FrameTaken
  <2> QED
    BY <1>1, <1>3, <1>7, <2>1 DEF Framing
<1>8. CASE SendCommand
  <2>1. Running /\ f[Len(commands)] = 0 /\ serving' = serving
    BY <1>1, <1>8 DEF SendCommand, Running, Alive, Due, Idle, dsk
  <2>2. CASE database' = "unwind" /\ UNCHANGED <<commands, transfer>>
    BY <1>5, <2>1, <2>2
  <2>3. CASE \E t \in MetadataOrBlocks : transfer' = t /\ commands' = Append(commands, t)
    <3>1. PICK t \in MetadataOrBlocks : transfer' = t /\ commands' = Append(commands, t)
      BY <2>3
    <3>2. t \in Transfer /\ t.kind # "none"
      BY <1>8, CommandTyped DEF SendCommand, MetadataOrBlocks
    <3> QED
      BY <1>6, <2>1, <3>1, <3>2
  <2> QED
    BY <1>8, <2>2, <2>3 DEF SendCommand
<1>9. CASE SendData
  <2>1. /\ Running /\ serving' = serving /\ transfer.kind = "put"
        /\ f[Len(commands)] = transfer.left /\ transfer.left \in 1 .. Chunks
    BY <1>1, <1>2, <1>9, AfterOf DEF SendData, Due, dsk
  <2>2. CASE database' = "unwind" /\ UNCHANGED <<commands, transfer>>
    BY <1>5, <2>1, <2>2
  <2>3. CASE commands' = Append(commands, Idle) /\ transfer' = After(transfer)
    <3>1. Due(transfer') = f[Len(commands)] - 1 /\ f[Len(commands)] > 0
      BY <1>2, <2>1, <2>3, AfterOf
    <3>2. Idle.kind = "none"
      BY DEF Idle
    <3> QED
      BY <1>2, <1>6, <2>1, <2>3, <3>1, <3>2
  <2> QED
    BY <1>9, <2>2, <2>3 DEF SendData
<1>10. CASE ReadData
  <2>1. transfer.kind = "get" /\ UNCHANGED <<commands, serving>>
        /\ transfer' \in {transfer, After(transfer)}
    BY <1>10 DEF ReadData, dsk
  <2>2. Due(After(transfer)) = 0 /\ Due(transfer) = 0
    BY <1>2, <2>1, AfterOf DEF Due
  <2> QED
    BY <1>5, <2>1, <2>2
<1>11. commands # <<>> => /\ Head(commands) = commands[1] /\ 1 \in 1 .. Len(commands)
                          /\ f[0] = Due(serving) /\ 1 - 1 = 0
                          /\ commands[1].kind = "none" <=> f[0] > 0
                          /\ f[1] = IF f[0] > 0 THEN f[0] - 1 ELSE Due(commands[1])
  <2>1. commands # <<>> => Head(commands) = commands[1] /\ 1 \in 1 .. Len(commands)
    BY <1>2, Taken
  <2> QED
    BY <1>1, <2>1 DEF Framed
<1>12. CASE DiskRead
  <2>1. /\ commands # <<>> /\ commands' = Tail(commands) /\ UNCHANGED transfer
        /\ serving' = Head(commands) /\ Due(serving) = 0
    BY <1>12 DEF DiskRead, DiskUnchanged, db, Due, Idle
  <2> QED
    BY <1>7, <1>11, <2>1
<1>13. CASE DiskGet
  <2>1. /\ UNCHANGED <<commands, transfer>> /\ Due(serving') = Due(serving)
    BY <1>2, <1>13, AfterOf DEF DiskGet, DiskUnchanged, db, Due
  <2> QED
    BY <1>1, <1>3, <2>1 DEF Framing, Framed
<1>14. CASE DiskPut
  <2>1. /\ commands # <<>> /\ commands' = Tail(commands) /\ UNCHANGED transfer
        /\ serving' = After(serving) /\ serving.kind = "put"
    BY <1>14 DEF DiskPut, DiskUnchanged, db
  <2>2. /\ Due(serving) = serving.left /\ serving.left \in 1 .. Chunks
        /\ Due(serving') = serving.left - 1
    BY <1>2, <2>1, AfterOf DEF Due
  <2> QED
    BY <1>7, <1>11, <2>1, <2>2
<1> QED
  BY <1>4, <1>8, <1>9, <1>10, <1>12, <1>13, <1>14, MovesElsewhere DEF Next, Database, Disk

-----------------------------------------------------------------------------
(* Pacing: a get goes to the disk, is served and is read before anything    *)
(* else is sent.                                                            *)
LEMMA PaceSent ==
  ASSUME Typed, Framing, Pace, Running, SendCommand \/ SendData
  PROVE  Pace'
<1>1. /\ commands \in Seq(Transfer) /\ transfer \in Transfer /\ Proper(transfer)
      /\ Idle \in Transfer /\ Len(commands) \in Nat /\ Idle.kind = "none"
  BY IdleTransfer DEF Typed, TypeOK, Shape, Idle
<1>2. /\ transfer.kind # "get" /\ serving.kind # "get" /\ blocks = <<>>
      /\ \A i \in 1 .. Len(commands) : commands[i].kind # "get"
  BY DEF Pace, NoGet, SendCommand, SendData, Idle
<1>3. serving' = serving /\ blocks' = blocks
  BY DEF SendCommand, SendData, dsk
<1>4. CASE database' = "unwind"
  BY <1>4 DEF Pace, Running
<1>5. ASSUME NEW t \in Transfer, commands' = Append(commands, t)
      PROVE  /\ Len(commands') = Len(commands) + 1 /\ commands'[Len(commands')] = t
             /\ commands' # <<>>
             /\ \A i \in 1 .. Len(commands) : commands'[i].kind # "get"
  <2>1. /\ Len(commands') = Len(commands) + 1 /\ commands'[Len(commands) + 1] = t
        /\ \A i \in 1 .. Len(commands) : commands'[i] = commands[i]
    BY <1>1, <1>5, Put
  <2>2. commands' # <<>>
    BY <1>1, <1>5
  <2> QED
    BY <1>1, <1>2, <2>1, <2>2
<1>6. ASSUME NEW t \in Transfer, t.kind # "get", commands' = Append(commands, t),
             transfer'.kind # "get"
      PROVE  Pace'
  <2>1. \A i \in 1 .. Len(commands') : commands'[i].kind # "get"
    <3>1. \A i \in 1 .. Len(commands) + 1 : i = Len(commands) + 1 \/ i \in 1 .. Len(commands)
      BY <1>1
    <3> QED
      BY <1>5, <1>6, <3>1
  <2> QED
    BY <1>2, <1>3, <1>6, <2>1 DEF Pace, NoGet
<1>7. ASSUME NEW t \in MetadataOrBlocks, SendCommand, transfer' = t,
             commands' = Append(commands, t)
      PROVE  Pace'
  <2>1. t \in Transfer
    BY <1>7, CommandTyped DEF SendCommand
  <2>2. CASE t.kind = "get"
    <3>1. \A i \in 1 .. Len(commands') - 1 : commands'[i].kind # "get"
      BY <1>1, <1>5, <1>7, <2>1
    <3>2. Awaited'
      BY <1>2, <1>3, <1>5, <1>7, <2>1, <3>1 DEF Awaited, NoGet
    <3> QED
      BY <1>2, <1>3, <1>7, <2>2, <3>2 DEF Pace
  <2> QED
    BY <1>6, <1>7, <2>1, <2>2
<1>8. CASE SendCommand
  BY <1>4, <1>7, <1>8 DEF SendCommand
<1>9. CASE SendData
  <2>1. After(transfer).kind # "get"
    BY <1>1, <1>9, AfterOf DEF SendData
  <2> QED
    BY <1>1, <1>4, <1>6, <1>9, <2>1 DEF SendData
<1> QED
  BY <1>8, <1>9

LEMMA PaceRead == ASSUME Typed, Framing, Pace, Running, ReadData PROVE Pace'
<1>1. /\ transfer \in Transfer /\ Proper(transfer) /\ serving \in Transfer /\ Proper(serving)
      /\ blocks \in Seq(1 .. MaxRequests + 1) /\ Len(blocks) \in Nat
  BY DEF Typed, TypeOK, Shape
<1>2. CASE database' = "unwind"
  BY <1>2 DEF Pace, Running
<1>3. CASE blocks # <<>> /\ blocks' = Tail(blocks) /\ transfer' = After(transfer)
  <2>1. commands' = commands /\ serving' = serving /\ transfer.kind = "get"
    BY DEF ReadData, dsk
  <2>2. /\ After(transfer).left = transfer.left - 1 /\ transfer.left \in 1 .. Chunks
        /\ transfer.left = 1 => After(transfer) = Idle
        /\ transfer.left # 1 => /\ After(transfer).kind = transfer.kind
                                /\ After(transfer).request = transfer.request
    BY <1>1, <2>1, AfterOf
  <2>3. /\ Len(blocks') = Len(blocks) - 1 /\ Len(blocks) >= 1
        /\ \A i \in 1 .. Len(blocks) - 1 : blocks'[i] = blocks[i + 1] /\ i + 1 \in 1 .. Len(blocks)
    BY <1>1, <1>3, Taken
  <2>4. Awaited /\ \A i \in 1 .. Len(blocks) : blocks[i] = transfer.request
    BY <2>1 DEF Pace
  <2>5. \A i \in 1 .. Len(blocks') : blocks'[i] = transfer.request
    BY <2>3, <2>4
  <2>6. CASE commands = <<>> /\ serving.kind = "get" /\ serving.request = transfer.request
             /\ serving.left + Len(blocks) = transfer.left
    <3>1. serving.left \in 1 .. Chunks
      BY <1>1, <2>6, AfterOf
    <3>2. transfer.left # 1
      BY <2>2, <2>3, <2>6, <3>1
    <3>3. transfer'.kind = "get" /\ transfer'.request = transfer.request
          /\ transfer'.left = transfer.left - 1
      BY <1>3, <2>1, <2>2, <3>2
    <3>4. serving.left + Len(blocks') = transfer.left - 1
      BY <1>1, <2>2, <2>3, <2>6, <3>1
    <3>5. Awaited'
      BY <2>1, <2>6, <3>3, <3>4 DEF Awaited
    <3> QED
      BY <2>5, <3>3, <3>5 DEF Pace
  <2>7. CASE commands = <<>> /\ serving.kind # "get" /\ Len(blocks) = transfer.left
    <3>1. Len(blocks') = transfer.left - 1
      BY <2>2, <2>3, <2>7
    <3>2. CASE transfer.left = 1
      <4>1. transfer'.kind = "none"
        BY <1>3, <2>2, <3>2 DEF Idle
      <4>2. blocks' = <<>>
        BY <1>1, <1>3, <3>1, <3>2, Taken, Length
      <4>3. \A i \in 1 .. Len(commands) : FALSE
        BY <2>7
      <4> QED
        BY <2>1, <2>7, <4>1, <4>2, <4>3 DEF Pace, NoGet
    <3>3. CASE transfer.left # 1
      <4>1. transfer'.kind = "get" /\ transfer'.request = transfer.request
            /\ transfer'.left = transfer.left - 1
        BY <1>3, <2>1, <2>2, <3>3
      <4>2. Awaited'
        BY <2>1, <2>7, <3>1, <4>1 DEF Awaited
      <4> QED
        BY <2>5, <4>1, <4>2 DEF Pace
    <3> QED
      BY <3>2, <3>3
  <2> QED
    BY <1>3, <2>4, <2>6, <2>7 DEF Awaited
<1> QED
  BY <1>2, <1>3 DEF ReadData

(* The disk takes a message that is not the get awaited, or is the last.    *)
LEMMA PaceTaken ==
  ASSUME Typed, Framing, Pace, Running, DiskRead \/ DiskPut
  PROVE  Pace'
<1>1. /\ transfer \in Transfer /\ serving \in Transfer /\ Proper(serving)
      /\ commands \in Seq(Transfer) /\ Len(commands) \in Nat
      /\ blocks \in Seq(1 .. MaxRequests + 1)
  BY DEF Typed, TypeOK, Shape
<1>2. /\ commands # <<>> /\ commands' = Tail(commands)
      /\ UNCHANGED <<transfer, blocks>> /\ serving.kind # "get"
      /\ \/ serving' = Head(commands)
         \/ serving' = After(serving) /\ serving.kind = "put"
  BY DEF DiskRead, DiskPut, DiskUnchanged, db, Idle
<1>3. /\ Head(commands) = commands[1] /\ Len(commands) >= 1 /\ Len(commands') = Len(commands) - 1
      /\ \A i \in 1 .. Len(commands) - 1 : commands'[i] = commands[i + 1] /\ i + 1 \in 1 .. Len(commands)
  BY <1>1, <1>2, Taken
<1>4. serving' = After(serving) => serving'.kind # "get" \/ serving.kind # "put"
  BY <1>1, <1>2, AfterOf DEF Idle
<1>5. serving.kind = "put" => commands[1].kind = "none"
  <2>1. PICK f \in [0 .. Len(commands) -> 0 .. Chunks] : Framed(f, commands, serving)
    BY DEF Framing
  <2>2. serving.kind = "put" => f[0] > 0
    BY <1>1, <2>1, AfterOf DEF Framed, Due
  <2>3. 1 \in 1 .. Len(commands) /\ 1 - 1 = 0
    BY <1>1, <1>3
  <2> QED
    BY <2>1, <2>2, <2>3 DEF Framed
<1>6. CASE transfer.kind # "get"
  <2>1. \A i \in 1 .. Len(commands) : commands[i].kind # "get"
    BY <1>6 DEF Pace, NoGet
  <2>2. \A i \in 1 .. Len(commands') : commands'[i].kind # "get"
    BY <1>1, <1>3, <2>1
  <2>3. serving'.kind # "get"
    BY <1>1, <1>2, <1>3, <1>4, <2>1
  <2> QED
    BY <1>2, <1>6, <2>2, <2>3 DEF Pace, NoGet
<1>7. CASE transfer.kind = "get"
  <2>1. /\ commands[Len(commands)] = transfer /\ blocks = <<>>
        /\ \A i \in 1 .. Len(commands) - 1 : commands[i].kind # "get"
    BY <1>2, <1>7 DEF Pace, Awaited, NoGet
  <2>2. CASE Len(commands) = 1
    <3>1. serving' = transfer
      BY <1>2, <1>3, <1>5, <1>7, <2>1, <2>2
    <3>2. commands' = <<>>
      BY <1>1, <1>2, <1>3, <2>2, Taken, Length
    <3>3. Len(blocks) = 0
      BY <2>1
    <3>4. serving'.left + Len(blocks') = transfer'.left
      BY <1>1, <1>2, <3>1, <3>3 DEF Transfer
    <3>5. Awaited'
      BY <1>2, <1>7, <3>1, <3>2, <3>4 DEF Awaited
    <3> QED
      BY <1>2, <1>7, <2>1, <3>3, <3>5 DEF Pace
  <2>3. CASE Len(commands) # 1
    <3>1. /\ Len(commands) - 1 \in 1 .. Len(commands) - 1 /\ (Len(commands) - 1) + 1 = Len(commands)
          /\ 1 \in 1 .. Len(commands) - 1
      BY <1>1, <1>3, <2>3
    <3>2. commands'[Len(commands')] = transfer
      BY <1>3, <2>1, <3>1
    <3>3. \A i \in 1 .. Len(commands') - 1 : commands'[i].kind # "get"
      BY <1>1, <1>3, <2>1
    <3>4. serving'.kind # "get"
      BY <1>2, <1>3, <1>4, <2>1, <3>1
    <3>5. commands' # <<>>
      <4>1. Len(commands') # 0 /\ Len(<<>>) = 0
        BY <1>1, <1>3, <2>3
      <4> QED
        BY <4>1, Zenon
    <3>6. Awaited'
      BY <1>2, <2>1, <3>2, <3>3, <3>4, <3>5 DEF Awaited, NoGet
    <3> QED
      BY <1>2, <1>7, <2>1, <3>6 DEF Pace
  <2> QED
    BY <2>2, <2>3
<1> QED
  BY <1>6, <1>7

LEMMA PaceServed == ASSUME Typed, Pace, Running, DiskGet PROVE Pace'
<1>1. /\ transfer \in Transfer /\ serving \in Transfer /\ Proper(serving)
      /\ blocks \in Seq(1 .. MaxRequests + 1) /\ Len(blocks) \in Nat
  BY DEF Typed, TypeOK, Shape
<1>2. /\ serving.kind = "get" /\ serving' = After(serving)
      /\ blocks' = Append(blocks, serving.request) /\ UNCHANGED <<commands, transfer>>
  BY DEF DiskGet, DiskUnchanged, db, Running
<1>3. transfer.kind = "get" /\ Awaited /\ \A i \in 1 .. Len(blocks) : blocks[i] = transfer.request
  BY <1>2 DEF Pace, NoGet
<1>4. /\ commands = <<>> /\ serving.request = transfer.request
      /\ serving.left + Len(blocks) = transfer.left
  BY <1>2, <1>3 DEF Awaited, NoGet
<1>5. /\ After(serving).left = serving.left - 1 /\ serving.left \in 1 .. Chunks
      /\ serving.left = 1 => After(serving) = Idle
      /\ serving.left # 1 => /\ After(serving).kind = serving.kind
                             /\ After(serving).request = serving.request
  BY <1>1, <1>2, AfterOf
<1>6. /\ Len(blocks') = Len(blocks) + 1 /\ blocks'[Len(blocks) + 1] = transfer.request
      /\ \A i \in 1 .. Len(blocks) : blocks'[i] = blocks[i]
  <2>1. serving.request \in 1 .. MaxRequests + 1
    BY <1>1, <1>2, SessionAssumption DEF Transfer, Proper, Idle
  <2> QED
    BY <1>1, <1>2, <1>4, <2>1, Put
<1>7. \A i \in 1 .. Len(blocks') : blocks'[i] = transfer.request
  <2>1. \A i \in 1 .. Len(blocks) + 1 : i = Len(blocks) + 1 \/ i \in 1 .. Len(blocks)
    BY <1>1
  <2> QED
    BY <1>3, <1>6, <2>1
<1>8. CASE serving.left = 1
  <2>1. Len(blocks') = transfer.left /\ serving'.kind # "get"
    BY <1>1, <1>2, <1>4, <1>5, <1>6, <1>8 DEF Idle
  <2>2. Awaited'
    BY <1>2, <1>4, <2>1 DEF Awaited
  <2> QED
    BY <1>2, <1>3, <1>7, <2>2 DEF Pace
<1>9. CASE serving.left # 1
  <2>1. serving'.left + Len(blocks') = transfer.left
    <3>1. serving'.left = serving.left - 1 /\ Len(blocks') = Len(blocks) + 1
      BY <1>2, <1>5, <1>6
    <3>2. serving.left \in Int /\ Len(blocks) \in Int
      BY <1>1, <1>5
    <3> QED
      BY <1>4, <3>1, <3>2
  <2>2. Awaited'
    BY <1>2, <1>4, <1>5, <1>9, <2>1 DEF Awaited
  <2> QED
    BY <1>2, <1>3, <1>7, <2>2 DEF Pace
<1> QED
  BY <1>8, <1>9

LEMMA PaceStep == ASSUME Typed, Framing, Pace, [Next]_vars PROVE Pace'
<1>1. CASE ~Running'
  BY <1>1 DEF Pace
<1>2. CASE Running'
  <2>1. Running
    BY <1>2, StaysRunning
  <2>2. CASE Elsewhere
    BY <2>1, <2>2 DEF Elsewhere, Pace, Awaited, NoGet
  <2> QED
    BY <2>1, <2>2, PaceSent, PaceRead, PaceTaken, PaceServed, MovesElsewhere
       DEF Next, Database, Disk
<1> QED
  BY <1>1, <1>2

-----------------------------------------------------------------------------
(* The inductive invariant.                                                 *)
LEMMA InitFraming == Init => Framing
<1> SUFFICES ASSUME Init PROVE Framing
  OBVIOUS
<1> DEFINE f == [i \in 0 .. 0 |-> 0]
<1>1. commands = <<>> /\ serving = Idle /\ transfer = Idle /\ Len(<<>>) = 0
  BY DEF Init
<1>2. f \in [0 .. 0 -> 0 .. Chunks] /\ f[0] = 0 /\ Due(Idle) = 0
  BY SessionAssumption DEF Due, Idle
<1>3. Framed(f, commands, serving) /\ f[Len(commands)] = Due(transfer)
  BY <1>1, <1>2 DEF Framed
<1> QED
  BY <1>1, <1>2, <1>3 DEF Framing

LEMMA InitInv == Init => Inv
<1> SUFFICES ASSUME Init PROVE Inv
  OBVIOUS
<1>1. Outcome
  BY DEF Init, Outcome, NoFalseSuccess, FailsForCause
<1>2. Pace /\ Engaged
  BY DEF Init, Pace, NoGet, Engaged, Idle
<1> QED
  BY <1>1, <1>2, InitTyped, InitTalk, InitFraming DEF Inv, Typed

LEMMA InvStep == Inv /\ [Next]_vars => Inv'
  BY TypedStep, EngagedStep, TalkStep, OutcomeStep, FramingStep, PaceStep DEF Inv, Typed

LEMMA Invariance == Spec => []Inv
  BY InitInv, InvStep, PTL DEF Spec

(* The pipes of the three processes hold messages of the protocol, and never *)
(* more than their capacity; every process is at a place of its code.       *)
THEOREM Types == Spec => []TypeOK
<1>1. Inv => TypeOK
  BY DEF Inv
<1> QED
  BY <1>1, Invariance, PTL

(* handle_db returns success only when the rows the operators yielded,      *)
(* in the order they were printed, match the file of expected rows, however *)
(* the processes fail.                                                      *)
THEOREM Truthful == Spec => []NoFalseSuccess
<1>1. Inv => NoFalseSuccess
  BY DEF Inv, Outcome
<1> QED
  BY <1>1, Invariance, PTL

(* handle_db returns an error only when the answer is wrong or a process    *)
(* has failed: the flushes and the line protocol lose nothing else.         *)
THEOREM Blameless == Spec => []FailsForCause
<1>1. Inv => FailsForCause
  BY DEF Inv, Outcome
<1> QED
  BY <1>1, Invariance, PTL

(* The database and the disk keep step: what a get returns is the data of   *)
(* that get, and the disk takes a message for a command exactly when it was *)
(* sent as one.                                                             *)
THEOREM Paced == Spec => []InStep
<1>1. ASSUME Inv PROVE InStep
  <2>1. /\ commands \in Seq(Transfer) /\ transfer \in Transfer /\ Len(blocks) \in Nat
        /\ blocks \in Seq(1 .. MaxRequests + 1) /\ DOMAIN blocks = 1 .. Len(blocks)
        /\ serving \in Transfer /\ Proper(serving)
    BY <1>1 DEF Inv, TypeOK, Shape
  <2>2. ASSUME Running, blocks # <<>>
        PROVE  /\ transfer.kind = "get"
               /\ \A i \in DOMAIN blocks : blocks[i] = transfer.request
               /\ Len(blocks) <= transfer.left
    <3>1. transfer.kind = "get" /\ Awaited /\ \A i \in 1 .. Len(blocks) : blocks[i] = transfer.request
      BY <1>1, <2>2 DEF Inv, Pace
    <3>2. CASE serving.left + Len(blocks) = transfer.left
      <4>1. serving.left \in Nat
        BY <2>1 DEF Transfer
      <4> QED
        BY <2>1, <3>1, <3>2, <4>1
    <3>3. CASE Len(blocks) = transfer.left
      BY <2>1, <3>1, <3>3
    <3> QED
      BY <2>2, <3>1, <3>2, <3>3 DEF Awaited
  <2>3. ASSUME commands # <<>>
        PROVE  /\ serving = Idle => Head(commands) # Idle
               /\ serving.kind = "put" => Head(commands) = Idle
    <3>1. Head(commands) = commands[1] /\ 1 \in 1 .. Len(commands) /\ 1 - 1 = 0
      BY <2>1, <2>3, Taken
    <3>2. PICK f \in [0 .. Len(commands) -> 0 .. Chunks] : Framed(f, commands, serving)
      BY <1>1 DEF Inv, Framing
    <3>3. f[0] = Due(serving) /\ (commands[1].kind = "none" <=> f[0] > 0)
      BY <3>1, <3>2 DEF Framed
    <3>4. Proper(commands[1])
      BY <1>1, <3>1 DEF Inv, Shape
    <3>5. serving = Idle => Due(serving) = 0
      BY DEF Due, Idle
    <3>6. serving.kind = "put" => Due(serving) > 0
      BY <2>1, AfterOf DEF Due
    <3> QED
      BY <3>1, <3>3, <3>4, <3>5, <3>6 DEF Proper, Idle
  <2> QED
    BY <2>2, <2>3 DEF InStep
<1> QED
  BY <1>1, Invariance, PTL

(* A database that waits for the disk, or could send it something, does not  *)
(* wait for a disk that waits for the database.                             *)
LEMMA ExchangeMoves ==
  ASSUME Inv, Running, transfer # Idle \/ database = "open_disk"
  PROVE  DatabaseCan \/ DiskCan
<1>1. /\ Len(commands) \in Nat /\ Len(blocks) \in Nat /\ PipeSize \in Nat \ {0}
      /\ commands = <<>> <=> Len(commands) = 0
      /\ blocks = <<>> <=> Len(blocks) = 0
      /\ transfer \in Transfer /\ Proper(transfer)
  BY Length, SessionAssumption DEF Inv, TypeOK, Shape
<1>2. transfer.kind \in {"none", "get", "put"} /\ (transfer.kind = "none" <=> transfer = Idle)
  BY <1>1 DEF Transfer, Proper, Idle
<1>3. CASE transfer.kind = "get"
  <2>1. CASE blocks # <<>> \/ ~Alive(disk)
    BY <1>3, <2>1 DEF DatabaseCan
  <2>2. CASE blocks = <<>> /\ Alive(disk)
    <3>1. Awaited /\ transfer.left >= 1 /\ Len(blocks) = 0
      BY <1>1, <1>2, <1>3, <2>2 DEF Inv, Pace, Proper, Idle
    <3>2. \/ commands # <<>> /\ serving.kind # "get"
          \/ serving.kind = "get"
      BY <3>1 DEF Awaited, NoGet
    <3>3. Len(blocks) < PipeSize
      BY <1>1, <3>1
    <3> QED
      BY <2>2, <3>2, <3>3 DEF DiskCan
  <2> QED
    BY <2>1, <2>2
<1>4. CASE transfer.kind # "get"
  <2>1. CASE SendCan
    BY <1>2, <1>4, <2>1 DEF DatabaseCan
  <2>2. CASE ~SendCan
    <3>1. Alive(disk) /\ commands # <<>>
      BY <1>1, <2>2 DEF SendCan, CanSend
    <3>2. serving.kind # "get"
      BY <1>4 DEF Inv, Pace, NoGet
    <3> QED
      BY <3>1, <3>2 DEF DiskCan
  <2> QED
    BY <2>1, <2>2
<1> QED
  BY <1>3, <1>4

(* Nor does it wait for a monitor that has read all there is in its pipe.   *)
LEMMA EmptyMoves ==
  ASSUME Inv, Alive(database), results = <<>>, monitor \in {"read_command", "validate"}
  PROVE  DatabaseCan \/ DiskCan
<1>1. /\ Len(results) = 0 /\ Len(queries) \in Nat /\ Len(answer) \in Nat
      /\ Len(monitor_out) \in Nat /\ PipeSize \in Nat \ {0}
      /\ queries = <<>> <=> Len(queries) = 0
      /\ monitor_out = <<>> <=> Len(monitor_out) = 0
  BY Length, SessionAssumption DEF Inv, TypeOK, Shape
<1>2. CASE Running /\ (transfer # Idle \/ database = "open_disk")
  BY <1>2, ExchangeMoves
<1>3. CASE database \in {"ask_limit", "build", "stream"} /\ transfer = Idle
  BY <1>3 DEF DatabaseCan
<1>4. CASE Flushing
  <2>1. Len(results) < PipeSize
    BY <1>1
  <2>2. database = "unwind" \/ monitor_out # <<>>
    <3>1. database = "flush_rows" => monitor_out # <<>>
      BY <1>1 DEF Inv, Shape
    <3> QED
      BY <1>4, <3>1 DEF Flushing, Inv, Shape
  <2> QED
    BY <1>4, <2>1, <2>2 DEF DatabaseCan
<1>5. CASE database \in {"read_query", "read_limit"}
  <2>1. PICK c \in 0 .. Len(answer) + 3, asked \in 0 .. 2 : Dialogue(c, asked)
    BY DEF Inv, Talk, Returned, AtEof
  <2>2. monitor_out = <<>> /\ Len(monitor_out) = 0
    BY <1>1, <1>5 DEF Inv, Shape
  <2>3. Progress(c + Len(results) + Len(monitor_out), asked - Len(queries)) /\ Position(c, asked)
    BY <2>1 DEF Dialogue
  <2>4. c + Len(results) + Len(monitor_out) = c
    BY <1>1, <2>2
  <2>5. asked - Len(queries) = c
    BY <1>5, <2>3, <2>4 DEF Progress
  <2>6. asked > c
    <3>1. monitor = "validate" => asked = 2 /\ c >= 2
      BY <2>3 DEF Position, Inv, TypeOK
    <3>2. c \in {0, 1}
      BY <1>5, <2>3, <2>4 DEF Progress
    <3> QED
      BY <2>3, <3>1, <3>2 DEF Position
  <2>7. queries # <<>>
    BY <1>1, <2>5, <2>6
  <2> QED
    BY <1>5, <2>7 DEF DatabaseCan
<1> QED
  BY <1>2, <1>3, <1>4, <1>5 DEF Running, Alive, Flushing, Inv, TypeOK

(* Nobody waits for somebody who waits for him: for pipes, buffers and      *)
(* answers of any size and failures at any point, some process can take a   *)
(* step until the monitor ends, but when a failure ends the database between *)
(* its validate and its "!".                                                *)
THEOREM Unstuck == Spec => []NobodyStuck
<1>1. ASSUME Inv PROVE NobodyStuck
  <2>1. /\ PipeSize \in Nat \ {0} /\ Len(queries) \in Nat
        /\ monitor \in {"send_query", "read_command", "send_limit", "validate",
                         "wait_database", "wait_disk", "ended"}
    BY <1>1, SessionAssumption DEF Inv, TypeOK
  <2>2. CASE monitor \in {"send_query", "send_limit"}
    <3>1. PICK c \in 0 .. Len(answer) + 3, asked \in 0 .. 2 : Dialogue(c, asked)
      BY <1>1, <2>2 DEF Inv, Talk, Returned, AtEof
    <3>2. PICK p \in Nat : p = c + Len(results) + Len(monitor_out)
      BY <1>1, <3>1 DEF Inv, TypeOK, Shape
    <3>3. Progress(p, asked - Len(queries)) /\ Position(c, asked)
      BY <3>1, <3>2 DEF Dialogue
    <3>4. asked - Len(queries) >= 0 /\ (p >= 1 => asked - Len(queries) >= 1)
      BY <1>1, <3>3 DEF Progress, Inv, TypeOK
    <3>5. asked = c /\ c \in {0, 1}
      BY <2>2, <3>3 DEF Position
    <3>6. c = 1 => p >= 1
      BY <1>1, <3>2 DEF Inv, TypeOK
    <3>7. Len(queries) = 0
      BY <2>1, <3>4, <3>5, <3>6
    <3>8. Len(queries) < PipeSize
      BY <2>1, <3>7
    <3> QED
      BY <2>2, <3>8 DEF NobodyStuck, MonitorCan
  <2>3. CASE monitor \in {"read_command", "validate"}
    <3>1. CASE results # <<>>
      BY <2>3, <3>1 DEF NobodyStuck, MonitorCan
    <3>2. CASE results = <<>> /\ Alive(database)
      BY <1>1, <2>3, <3>2, EmptyMoves DEF NobodyStuck
    <3>3. CASE results = <<>> /\ ~Alive(database)
      <4>1. CASE monitor = "read_command"
        BY <3>3, <4>1 DEF NobodyStuck, MonitorCan
      <4>2. CASE monitor = "validate"
        <5>1. Failure
          BY <1>1, <3>3, <4>2, EndUnread
             DEF Inv, Typed, Talk, Returned, Dialogue
        <5> QED
          BY <3>3, <4>2, <5>1 DEF NobodyStuck, Lost
      <4> QED
        BY <2>3, <4>1, <4>2
    <3> QED
      BY <3>1, <3>2, <3>3
  <2>4. CASE Returned
    <3>1. ~Alive(database)
      BY <1>1, <2>4 DEF Inv, Talk, Returned, AtEof, Dialogue, Position
    <3> QED
      BY <2>4, <3>1 DEF Returned, NobodyStuck, MonitorCan, DiskCan
  <2> QED
    BY <2>1, <2>2, <2>3, <2>4 DEF Returned
<1> QED
  BY <1>1, Invariance, PTL

-----------------------------------------------------------------------------
(* How far the processes are.  With Unstuck, all EndsUnlessLost needs beyond *)
(* this is that a process takes the step it can take.                       *)

(* The stages the database goes through, and those of the monitor; a row    *)
(* that fills the BufWriter, and a question, come back to the same stage.   *)
Course ==
    CASE database = "open_disk"      -> 10
      [] database = "read_query"     -> 9
      [] database = "ask_limit"      -> 8
      [] database = "flush_limit"    -> 7
      [] database = "read_limit"     -> 6
      [] database = "build"          -> 5
      [] database = "flush_validate" -> 4
      [] database \in {"stream", "flush_rows"} -> 3
      [] database = "flush_end"      -> 2
      [] database = "unwind"         -> 1
      [] OTHER                       -> 0

Stage ==
    CASE monitor = "send_query"    -> 5
      [] monitor \in {"read_command", "send_limit"} -> 4
      [] monitor = "validate"      -> 3
      [] monitor = "wait_database" -> 2
      [] monitor = "wait_disk"     -> 1
      [] OTHER                     -> 0

Unasked   == MaxRequests + 1 - request
Unyielded == Len(answer) - sent
Serves    == IF Alive(disk) THEN 1 ELSE 0
Owing     == IF monitor = "send_limit" THEN 1 ELSE 0

(* What is left to do: by the database, by the disk with what the database  *)
(* sent it, and by the monitor with what the database printed.              *)
Work == <<Course, Unasked, Unyielded, transfer.left, Len(monitor_out),
          Serves, Len(commands), serving.left,
          Stage, Len(results), Owing>>

Order == LexProductOrdering(OpToRel(<, Nat), Nat, 11)

LEMMA OrderWellFounded == IsWellFoundedOn(Order, [1 .. 11 -> Nat])
BY NatLessThanWellFounded, WFLexProductOrdering DEF Order

LEMMA LowerAt ==
    ASSUME NEW v \in [1 .. 11 -> Nat], NEW w \in [1 .. 11 -> Nat], NEW j \in 1 .. 11,
           v[j] < w[j], \A i \in 1 .. (j - 1) : v[i] = w[i]
    PROVE  <<v, w>> \in Order
<1>1. \A k \in 1 .. 11 : v[k] \in Nat /\ w[k] \in Nat
  OBVIOUS
<1> QED
  BY <1>1 DEF Order, LexProductOrdering, OpToRel

(* A database that opens the disk has asked for nothing but its metadata.   *)
Opening ==
    database = "open_disk" =>
        IF transfer = Idle THEN request = 0 ELSE transfer.kind = "get"

LEMMA OpeningKept == Inv /\ Opening /\ [Next]_vars => Opening'
<1> SUFFICES ASSUME Opening, [Next]_vars, database' = "open_disk" PROVE Opening'
  BY DEF Opening
<1>1. CASE UNCHANGED <<database, transfer, request>>
  BY <1>1 DEF Opening
<1>2. CASE SendCommand
  <2>1. CASE UNCHANGED database
    <3>1. database = "open_disk" /\ transfer' \in MetadataOrBlocks
      BY <1>2, <2>1 DEF SendCommand
    <3>2. transfer' = [kind |-> "get", left |-> 1, request |-> 1]
      BY <3>1 DEF MetadataOrBlocks
    <3> QED
      BY <3>2 DEF Opening, Idle
  <2>2. CASE database' = "unwind"
    BY <2>2
  <2> QED
    BY <1>2, <2>1, <2>2 DEF SendCommand
<1>3. CASE SendData
  <2>1. database = "open_disk" /\ transfer.kind = "put"
    BY <1>3 DEF SendData
  <2> QED
    BY <2>1 DEF Opening, Idle
<1>4. CASE ReadData
  BY <1>4 DEF ReadData
<1>5. CASE ReadLine \/ AskLimit \/ Built \/ Yield \/ Finish \/ UnwindEmpty \/ DatabaseFail
  BY <1>5 DEF ReadLine, AskLimit, Built, Yield, Finish, UnwindEmpty, DatabaseFail, PrintLine
<1>6. CASE FlushLine
  <2>1. database' = Flushed(Len(monitor_out) - 1) /\ database # "open_disk"
    BY <1>6 DEF FlushLine, Flushing
  <2> QED
    BY <2>1 DEF Flushed
<1>7. CASE Monitor \/ Disk \/ DiskFail \/ UNCHANGED vars
  <2>1. UNCHANGED db
    BY <1>7 DEF Monitor, SendQuery, SendLimit, MonitorWrite, ReadCommand, ReadCommandEof,
       CollectLine, CollectEof, WaitDatabase, WaitDisk, Disk, DiskRead, DiskEof, DiskGet,
       DiskPut, DiskFail, DiskUnchanged, vars
  <2> QED
    BY <1>1, <2>1 DEF db
<1> QED
  BY <1>2, <1>3, <1>4, <1>5, <1>6, <1>7 DEF Next, Database

(* The parts of the measure are natural numbers.                            *)
Parts ==
    /\ Course \in Nat /\ Unasked \in Nat /\ Unyielded \in Nat
    /\ transfer.left \in Nat /\ Len(monitor_out) \in Nat
    /\ Serves \in Nat /\ Len(commands) \in Nat /\ serving.left \in Nat
    /\ Stage \in Nat /\ Len(results) \in Nat /\ Owing \in Nat

LEMMA PartsNat == Inv => Parts
<1> SUFFICES ASSUME Inv PROVE Parts
  OBVIOUS
<1>1. Course \in Nat
  BY DEF Inv, TypeOK, Course
<1>2. Stage \in Nat /\ Serves \in Nat /\ Owing \in Nat
  BY DEF Inv, TypeOK, Stage, Serves, Owing
<1>3. Unasked \in Nat /\ Unyielded \in Nat
  <2>1. /\ Len(answer) \in Nat /\ MaxRequests \in Nat
        /\ request \in 0 .. MaxRequests + 1 /\ sent \in 0 .. Len(answer)
    BY SessionAssumption DEF Inv, TypeOK, Shape
  <2> QED
    BY <2>1 DEF Unasked, Unyielded
<1>4. transfer.left \in Nat /\ serving.left \in Nat
  BY SessionAssumption DEF Inv, TypeOK, Transfer
<1>5. Len(monitor_out) \in Nat /\ Len(commands) \in Nat /\ Len(results) \in Nat
  BY Length DEF Inv, TypeOK
<1> QED
  BY <1>1, <1>2, <1>3, <1>4, <1>5 DEF Parts

LEMMA PartsNatNext == Inv' => Parts'
BY PartsNat, PTL

LEMMA Eleven ==
    \A a, b, c, d, e, f, g, h, i, j, k \in Nat :
       <<a, b, c, d, e, f, g, h, i, j, k>> \in [1 .. 11 -> Nat]
OBVIOUS

WorkOK == Work \in [1 .. 11 -> Nat]

LEMMA WorkTyped == Parts => WorkOK
BY Eleven DEF Parts, Work, WorkOK

LEMMA WorkTypedNext == Parts' => WorkOK'
BY WorkTyped, PTL

(* Where the tuples first differ.                                           *)
DatabaseSame == /\ Course' = Course /\ Unasked' = Unasked /\ Unyielded' = Unyielded
                /\ transfer'.left = transfer.left /\ Len(monitor_out') = Len(monitor_out)
DiskSame     == /\ Serves' = Serves /\ Len(commands') = Len(commands)
                /\ serving'.left = serving.left

LEMMA Falls ==
    ASSUME Parts, Parts',
           \/ Course' < Course
           \/ Course' = Course /\ Unasked' < Unasked
           \/ Course' = Course /\ Unasked' = Unasked /\ Unyielded' < Unyielded
           \/ /\ Course' = Course /\ Unasked' = Unasked /\ Unyielded' = Unyielded
              /\ transfer'.left < transfer.left
           \/ /\ Course' = Course /\ Unasked' = Unasked /\ Unyielded' = Unyielded
              /\ transfer'.left = transfer.left /\ Len(monitor_out') < Len(monitor_out)
           \/ DatabaseSame /\ Serves' < Serves
           \/ DatabaseSame /\ Serves' = Serves /\ Len(commands') < Len(commands)
           \/ /\ DatabaseSame /\ Serves' = Serves /\ Len(commands') = Len(commands)
              /\ serving'.left < serving.left
           \/ DatabaseSame /\ DiskSame /\ Stage' < Stage
           \/ DatabaseSame /\ DiskSame /\ Stage' = Stage /\ Len(results') < Len(results)
           \/ /\ DatabaseSame /\ DiskSame /\ Stage' = Stage /\ Len(results') = Len(results)
              /\ Owing' < Owing
    PROVE  <<Work', Work>> \in Order
<1>1. Work \in [1 .. 11 -> Nat] /\ Work' \in [1 .. 11 -> Nat]
  BY WorkTyped, WorkTypedNext DEF WorkOK
<1>2. /\ Work[1] = Course /\ Work[2] = Unasked /\ Work[3] = Unyielded
      /\ Work[4] = transfer.left /\ Work[5] = Len(monitor_out) /\ Work[6] = Serves
      /\ Work[7] = Len(commands) /\ Work[8] = serving.left /\ Work[9] = Stage
      /\ Work[10] = Len(results) /\ Work[11] = Owing
      /\ Work'[1] = Course' /\ Work'[2] = Unasked' /\ Work'[3] = Unyielded'
      /\ Work'[4] = transfer'.left /\ Work'[5] = Len(monitor_out') /\ Work'[6] = Serves'
      /\ Work'[7] = Len(commands') /\ Work'[8] = serving'.left /\ Work'[9] = Stage'
      /\ Work'[10] = Len(results') /\ Work'[11] = Owing'
  BY DEF Work
<1>3. \E j \in 1 .. 11 : Work'[j] < Work[j] /\ \A i \in 1 .. (j - 1) : Work'[i] = Work[i]
  <2>1. CASE Course' < Course
    BY <2>1, <1>2
  <2>2. CASE Course' = Course /\ Unasked' < Unasked
    <3>1. \A i \in 1 .. (2 - 1) : Work'[i] = Work[i]
      <4>1. \A i \in {1} : Work'[i] = Work[i]
        BY <2>2, <1>2
      <4>2. \A i \in 1 .. (2 - 1) : i \in {1}
        OBVIOUS
      <4> QED
        BY <4>1, <4>2
    <3>2. Work'[2] < Work[2]
      BY <2>2, <1>2
    <3> QED
      BY <3>1, <3>2
  <2>3. CASE Course' = Course /\ Unasked' = Unasked /\ Unyielded' < Unyielded
    <3>1. \A i \in 1 .. (3 - 1) : Work'[i] = Work[i]
      <4>1. \A i \in {1, 2} : Work'[i] = Work[i]
        BY <2>3, <1>2
      <4>2. \A i \in 1 .. (3 - 1) : i \in {1, 2}
        OBVIOUS
      <4> QED
        BY <4>1, <4>2
    <3>2. Work'[3] < Work[3]
      BY <2>3, <1>2
    <3> QED
      BY <3>1, <3>2
  <2>4. CASE /\ Course' = Course /\ Unasked' = Unasked /\ Unyielded' = Unyielded
             /\ transfer'.left < transfer.left
    <3>1. \A i \in 1 .. (4 - 1) : Work'[i] = Work[i]
      <4>1. \A i \in {1, 2, 3} : Work'[i] = Work[i]
        BY <2>4, <1>2
      <4>2. \A i \in 1 .. (4 - 1) : i \in {1, 2, 3}
        OBVIOUS
      <4> QED
        BY <4>1, <4>2
    <3>2. Work'[4] < Work[4]
      BY <2>4, <1>2
    <3> QED
      BY <3>1, <3>2
  <2>5. CASE /\ Course' = Course /\ Unasked' = Unasked /\ Unyielded' = Unyielded
             /\ transfer'.left = transfer.left /\ Len(monitor_out') < Len(monitor_out)
    <3>1. \A i \in 1 .. (5 - 1) : Work'[i] = Work[i]
      <4>1. \A i \in {1, 2, 3, 4} : Work'[i] = Work[i]
        BY <2>5, <1>2
      <4>2. \A i \in 1 .. (5 - 1) : i \in {1, 2, 3, 4}
        OBVIOUS
      <4> QED
        BY <4>1, <4>2
    <3>2. Work'[5] < Work[5]
      BY <2>5, <1>2
    <3> QED
      BY <3>1, <3>2
  <2>6. CASE DatabaseSame /\ Serves' < Serves
    <3>1. \A i \in 1 .. (6 - 1) : Work'[i] = Work[i]
      <4>1. \A i \in {1, 2, 3, 4, 5} : Work'[i] = Work[i]
        BY <2>6, <1>2 DEF DatabaseSame
      <4>2. \A i \in 1 .. (6 - 1) : i \in {1, 2, 3, 4, 5}
        OBVIOUS
      <4> QED
        BY <4>1, <4>2
    <3>2. Work'[6] < Work[6]
      BY <2>6, <1>2
    <3> QED
      BY <3>1, <3>2
  <2>7. CASE DatabaseSame /\ Serves' = Serves /\ Len(commands') < Len(commands)
    <3>1. \A i \in 1 .. (7 - 1) : Work'[i] = Work[i]
      <4>1. \A i \in {1, 2, 3, 4, 5, 6} : Work'[i] = Work[i]
        BY <2>7, <1>2 DEF DatabaseSame
      <4>2. \A i \in 1 .. (7 - 1) : i \in {1, 2, 3, 4, 5, 6}
        OBVIOUS
      <4> QED
        BY <4>1, <4>2
    <3>2. Work'[7] < Work[7]
      BY <2>7, <1>2
    <3> QED
      BY <3>1, <3>2
  <2>8. CASE /\ DatabaseSame /\ Serves' = Serves /\ Len(commands') = Len(commands)
             /\ serving'.left < serving.left
    <3>1. \A i \in 1 .. (8 - 1) : Work'[i] = Work[i]
      <4>1. \A i \in {1, 2, 3, 4, 5, 6, 7} : Work'[i] = Work[i]
        BY <2>8, <1>2 DEF DatabaseSame
      <4>2. \A i \in 1 .. (8 - 1) : i \in {1, 2, 3, 4, 5, 6, 7}
        OBVIOUS
      <4> QED
        BY <4>1, <4>2
    <3>2. Work'[8] < Work[8]
      BY <2>8, <1>2
    <3> QED
      BY <3>1, <3>2
  <2>9. CASE DatabaseSame /\ DiskSame /\ Stage' < Stage
    <3>1. \A i \in 1 .. (9 - 1) : Work'[i] = Work[i]
      <4>1. \A i \in {1, 2, 3, 4, 5, 6, 7, 8} : Work'[i] = Work[i]
        BY <2>9, <1>2 DEF DatabaseSame, DiskSame
      <4>2. \A i \in 1 .. (9 - 1) : i \in {1, 2, 3, 4, 5, 6, 7, 8}
        OBVIOUS
      <4> QED
        BY <4>1, <4>2
    <3>2. Work'[9] < Work[9]
      BY <2>9, <1>2
    <3> QED
      BY <3>1, <3>2
  <2>10. CASE DatabaseSame /\ DiskSame /\ Stage' = Stage /\ Len(results') < Len(results)
    <3>1. \A i \in 1 .. (10 - 1) : Work'[i] = Work[i]
      <4>1. \A i \in {1, 2, 3, 4, 5, 6, 7, 8, 9} : Work'[i] = Work[i]
        BY <2>10, <1>2 DEF DatabaseSame, DiskSame
      <4>2. \A i \in 1 .. (10 - 1) : i \in {1, 2, 3, 4, 5, 6, 7, 8, 9}
        OBVIOUS
      <4> QED
        BY <4>1, <4>2
    <3>2. Work'[10] < Work[10]
      BY <2>10, <1>2
    <3> QED
      BY <3>1, <3>2
  <2>11. CASE /\ DatabaseSame /\ DiskSame /\ Stage' = Stage /\ Len(results') = Len(results)
              /\ Owing' < Owing
    <3>1. \A i \in 1 .. (11 - 1) : Work'[i] = Work[i]
      <4>1. \A i \in {1, 2, 3, 4, 5, 6, 7, 8, 9, 10} : Work'[i] = Work[i]
        BY <2>11, <1>2 DEF DatabaseSame, DiskSame
      <4>2. \A i \in 1 .. (11 - 1) : i \in {1, 2, 3, 4, 5, 6, 7, 8, 9, 10}
        OBVIOUS
      <4> QED
        BY <4>1, <4>2
    <3>2. Work'[11] < Work[11]
      BY <2>11, <1>2
    <3> QED
      BY <3>1, <3>2
  <2> QED
    BY <2>1, <2>2, <2>3, <2>4, <2>5, <2>6, <2>7, <2>8, <2>9, <2>10, <2>11
<1> QED
  BY <1>1, <1>3, LowerAt

LEMMA DatabaseStepLowers ==
    ASSUME Inv, Inv', Opening, Database \/ DatabaseFail PROVE <<Work', Work>> \in Order
<1>1. Parts /\ Parts'
  BY PartsNat, PartsNatNext
<1>2. /\ database \in {"open_disk", "read_query", "ask_limit", "flush_limit", "read_limit",
                        "build", "flush_validate", "stream", "flush_rows", "flush_end",
                        "unwind", "dead", "failed"}
      /\ monitor_out \in Seq(Message) /\ request \in Nat /\ sent \in Nat /\ MaxRequests \in Nat
      /\ answer \in Seq(Lines) /\ Len(answer) \in Nat /\ transfer \in Transfer /\ Proper(transfer)
  BY SessionAssumption DEF Inv, TypeOK, Shape
<1>3. ASSUME Running, database' = "unwind" PROVE Course' < Course
  BY <1>2, <1>3 DEF Running, Alive, Course
<1>4. ASSUME database' = database PROVE Course' = Course
  BY <1>4 DEF Course
<1>5. CASE SendCommand
  <2>1. CASE database' = "unwind"
    <3>1. Running
      BY <1>5 DEF SendCommand, Running, Alive
    <3> QED
      BY <1>1, <1>3, <2>1, <3>1, Falls
  <2>2. CASE UNCHANGED database
    <3>1. PICK t \in MetadataOrBlocks : request' = t.request
      BY <1>5, <2>2 DEF SendCommand
    <3>2. request' = request + 1
      <4>1. CASE database = "open_disk"
        <5>1. request = 0
          BY <1>5, <4>1 DEF SendCommand, Opening
        <5> QED
          BY <3>1, <4>1, <5>1 DEF MetadataOrBlocks
      <4>2. CASE database # "open_disk"
        BY <3>1, <4>2 DEF MetadataOrBlocks
      <4> QED
        BY <4>1, <4>2
    <3>3. Unasked' < Unasked
      BY <1>2, <3>2 DEF Unasked
    <3> QED
      BY <1>1, <1>4, <2>2, <3>3, Falls
  <2> QED
    BY <1>5, <2>1, <2>2 DEF SendCommand
<1>6. ASSUME Running, transfer.kind # "none", transfer' = After(transfer), database' = database,
             UNCHANGED <<given, request, sent>>
      PROVE  <<Work', Work>> \in Order
  <2>1. transfer'.left < transfer.left
    <3>1. After(transfer).left = transfer.left - 1 /\ transfer.left \in 1 .. Chunks
      BY <1>2, <1>6, AfterOf
    <3> QED
      BY <1>6, <3>1, SessionAssumption
  <2>2. Unasked' = Unasked /\ Unyielded' = Unyielded
    BY <1>6 DEF Unasked, Unyielded, given
  <2> QED
    BY <1>1, <1>4, <1>6, <2>1, <2>2, Falls
<1>7. CASE SendData
  <2>1. Running /\ transfer.kind = "put" /\ UNCHANGED <<given, request, sent>>
    BY <1>7 DEF SendData
  <2>2. CASE database' = "unwind"
    BY <1>1, <1>3, <2>1, <2>2, Falls
  <2>3. CASE database' # "unwind"
    BY <1>6, <1>7, <2>1, <2>3 DEF SendData
  <2> QED
    BY <2>2, <2>3
<1>8. CASE ReadData
  <2>1. Running /\ transfer.kind = "get" /\ UNCHANGED <<given, request, sent>>
    BY <1>8 DEF ReadData
  <2>2. CASE database' = "unwind"
    BY <1>1, <1>3, <2>1, <2>2, Falls
  <2>3. CASE database' # "unwind" /\ database = "open_disk"
    <3>1. Course' < Course
      BY <1>8, <2>3 DEF ReadData, Course
    <3> QED
      BY <1>1, <3>1, Falls
  <2>4. CASE database' # "unwind" /\ database # "open_disk"
    BY <1>6, <1>8, <2>1, <2>4 DEF ReadData
  <2> QED
    BY <2>2, <2>3, <2>4
<1>9. CASE ReadLine \/ AskLimit \/ Built \/ Finish \/ UnwindEmpty
  <2>1. Course' < Course
    BY <1>9 DEF ReadLine, AskLimit, Built, Finish, UnwindEmpty, PrintLine, Course
  <2> QED
    BY <1>1, <2>1, Falls
<1>10. CASE Yield
  <2>1. database = "stream" /\ database' \in {"stream", "flush_rows"} /\ sent' = sent + 1
        /\ UNCHANGED <<given, request>>
    BY <1>10 DEF Yield, PrintLine
  <2>2. Course' = Course /\ Unasked' = Unasked
    BY <2>1 DEF Course, Unasked
  <2>3. Unyielded' < Unyielded
    BY <1>2, <2>1 DEF Unyielded, given
  <2> QED
    BY <1>1, <2>2, <2>3, Falls
<1>11. CASE FlushLine
  <2>1. /\ Flushing /\ monitor_out # <<>> /\ monitor_out' = Tail(monitor_out)
        /\ database' = Flushed(Len(monitor_out) - 1)
        /\ UNCHANGED <<given, request, transfer, sent>>
    BY <1>11 DEF FlushLine
  <2>2. Course' <= Course
    BY <2>1 DEF Flushing, Flushed, Course
  <2>3. Len(monitor_out') < Len(monitor_out)
    BY <1>2, <2>1, Taken
  <2>4. Unasked' = Unasked /\ Unyielded' = Unyielded /\ transfer'.left = transfer.left
    BY <2>1 DEF Unasked, Unyielded, given
  <2>5. Course' < Course \/ Course' = Course
    BY <1>1, <2>2 DEF Parts
  <2> QED
    BY <1>1, <2>3, <2>4, <2>5, Falls
<1>12. CASE DatabaseFail
  <2>1. Course' < Course
    BY <1>2, <1>12 DEF DatabaseFail, Alive, Course
  <2> QED
    BY <1>1, <2>1, Falls
<1> QED
  BY <1>5, <1>7, <1>8, <1>9, <1>10, <1>11, <1>12 DEF Database

LEMMA DiskStepLowers ==
    ASSUME Inv, Inv', Disk \/ DiskFail PROVE <<Work', Work>> \in Order
<1>1. Parts /\ Parts'
  BY PartsNat, PartsNatNext
<1>2. DatabaseSame
  <2>1. UNCHANGED <<given, db>>
    BY DEF Disk, DiskRead, DiskEof, DiskGet, DiskPut, DiskFail, DiskUnchanged
  <2> QED
    BY <2>1 DEF DatabaseSame, Course, Unasked, Unyielded, given, db
<1>3. commands \in Seq(Transfer) /\ serving \in Transfer /\ Proper(serving)
  BY DEF Inv, TypeOK, Shape
<1>4. ASSUME Alive(disk), ~Alive(disk') PROVE <<Work', Work>> \in Order
  <2>1. Serves' < Serves
    BY <1>4 DEF Serves
  <2> QED
    BY <1>1, <1>2, <2>1, Falls
<1>5. CASE DiskEof \/ DiskFail
  BY <1>4, <1>5 DEF DiskEof, DiskFail, Alive
<1>6. CASE DiskRead \/ DiskPut
  <2>1. commands # <<>> /\ commands' = Tail(commands) /\ disk' = disk
    BY <1>6 DEF DiskRead, DiskPut
  <2>2. Len(commands') < Len(commands) /\ Serves' = Serves
    BY <1>3, <2>1, Taken DEF Serves
  <2> QED
    BY <1>1, <1>2, <2>2, Falls
<1>7. CASE DiskGet
  <2>1. CASE disk' = "dead"
    BY <1>4, <1>7, <2>1 DEF DiskGet, Alive
  <2>2. CASE disk' # "dead"
    <3>1. serving.kind = "get" /\ serving' = After(serving) /\ disk' = disk /\ commands' = commands
      BY <1>7, <2>2 DEF DiskGet
    <3>2. serving'.left < serving.left
      <4>1. After(serving).left = serving.left - 1 /\ serving.left \in 1 .. Chunks
        BY <1>3, <3>1, AfterOf
      <4> QED
        BY <3>1, <4>1, SessionAssumption
    <3>3. Serves' = Serves /\ Len(commands') = Len(commands)
      BY <3>1 DEF Serves
    <3> QED
      BY <1>1, <1>2, <3>2, <3>3, Falls
  <2> QED
    BY <2>1, <2>2
<1> QED
  BY <1>5, <1>6, <1>7 DEF Disk

LEMMA MonitorStepLowers ==
    ASSUME Inv, Inv', Monitor, ~CollectEof PROVE <<Work', Work>> \in Order
<1>1. Parts /\ Parts'
  BY PartsNat, PartsNatNext
<1>2. DatabaseSame /\ DiskSame
  <2>1. UNCHANGED <<given, db, dsk, commands>>
    BY DEF Monitor, SendQuery, SendLimit, MonitorWrite, ReadCommand, ReadCommandEof,
       CollectLine, CollectEof, WaitDatabase, WaitDisk
  <2> QED
    BY <2>1 DEF DatabaseSame, DiskSame, Course, Unasked, Unyielded, Serves, given, db, dsk
<1>3. results \in Seq(Message)
  BY DEF Inv, TypeOK
<1>4. CASE SendQuery \/ ReadCommandEof \/ WaitDatabase \/ WaitDisk
  <2>1. Stage' < Stage
    BY <1>4 DEF SendQuery, MonitorWrite, ReadCommandEof, WaitDatabase, WaitDisk, Return, Stage
  <2> QED
    BY <1>1, <1>2, <2>1, Falls
<1>5. CASE SendLimit
  <2>1. /\ monitor = "send_limit" /\ results' = results
        /\ monitor' \in {"read_command", "wait_database"}
    BY <1>5 DEF SendLimit, MonitorWrite, Return
  <2>2. Stage' < Stage \/ (Stage' = Stage /\ Len(results') = Len(results) /\ Owing' < Owing)
    BY <2>1 DEF Stage, Owing
  <2> QED
    BY <1>1, <1>2, <2>2, Falls
<1>6. CASE ReadCommand \/ CollectLine
  <2>1. /\ results # <<>> /\ results' = Tail(results)
        /\ \/ monitor = "read_command" /\ monitor' \in {"send_limit", "validate", "wait_database"}
           \/ monitor = "validate" /\ monitor' \in {"validate", "wait_database"}
    BY <1>6 DEF ReadCommand, CollectLine, Return
  <2>2. Len(results') < Len(results)
    BY <1>3, <2>1, Taken
  <2>3. Stage' < Stage \/ Stage' = Stage
    BY <2>1 DEF Stage
  <2> QED
    BY <1>1, <1>2, <2>2, <2>3, Falls
<1> QED
  BY <1>4, <1>5, <1>6 DEF Monitor

(* Every step of a process, whatever it waits for and whenever one fails,   *)
(* leaves less to do, in an order in which nothing falls for ever, except   *)
(* the one that has no end in the code: validate reading end of file, of a  *)
(* database that has ended by a failure and before its "!".                 *)
StepsLeadOn ==
    [][(CollectEof /\ Lost /\ Work' = Work) \/ <<Work', Work>> \in Order]_vars

THEOREM SessionEnds == Spec => StepsLeadOn
<1> DEFINE K == Inv /\ Opening
<1>1. Init => K
  BY InitInv DEF Init, Opening
<1>2. K /\ [Next]_vars => K'
  BY InvStep, OpeningKept
<1>3. ASSUME Inv, CollectEof PROVE Lost /\ Work' = Work
  <2>1. Failure
    BY <1>3, EndUnread DEF CollectEof, Inv, Typed, Talk, Returned, Dialogue
  <2>2. /\ UNCHANGED <<given, db, dsk, commands, results, monitor>>
        /\ monitor = "validate" /\ results = <<>> /\ ~Alive(database)
    BY <1>3 DEF CollectEof
  <2>3. Work' = Work
    BY <2>2 DEF Work, Course, Unasked, Unyielded, Serves, Stage, Owing, given, db, dsk
  <2> QED
    BY <2>1, <2>2, <2>3 DEF Lost
<1>4. K /\ K' /\ [Next]_vars =>
         [(CollectEof /\ Lost /\ Work' = Work) \/ <<Work', Work>> \in Order]_vars
  BY <1>3, DatabaseStepLowers, DiskStepLowers, MonitorStepLowers DEF Next
<1> HIDE DEF K
<1> QED
  BY <1>1, <1>2, <1>4, PTL DEF Spec, StepsLeadOn

(* A monitor that reads end of file in validate has lost its database for   *)
(* good: it never leaves the loop, so handle_db never returns.              *)
LostForGood == [][Lost => Lost']_vars

THEOREM LostStays == Spec => LostForGood
<1>1. ASSUME Lost, Next PROVE Lost'
  <2>1. /\ monitor = "validate" /\ results = <<>> /\ ~Alive(database) /\ Failure
        /\ ~Running /\ ~Flushing
    BY <1>1 DEF Lost, Running, Flushing, Alive
  <2>2. ~Database /\ ~DatabaseFail
    BY <2>1 DEF Database, DatabaseFail, SendCommand, SendData, ReadData, ReadLine, AskLimit,
       Built, Yield, Finish, FlushLine, UnwindEmpty, Alive, Running
  <2>3. CASE Monitor
    <3>1. CollectEof
      BY <2>1, <2>3 DEF Monitor, SendQuery, SendLimit, MonitorWrite, ReadCommand,
         ReadCommandEof, CollectLine, WaitDatabase, WaitDisk
    <3> QED
      BY <2>1, <3>1 DEF CollectEof, Lost, Failure, db, dsk
  <2>4. CASE Disk \/ DiskFail
    <3>1. UNCHANGED <<mon, db, results>>
      BY <2>4 DEF Disk, DiskRead, DiskEof, DiskGet, DiskPut, DiskFail, DiskUnchanged
    <3>2. disk' = disk \/ disk # "failed"
      BY <2>4 DEF Disk, DiskRead, DiskEof, DiskGet, DiskPut, DiskFail, Alive
    <3> QED
      BY <2>1, <3>1, <3>2 DEF Lost, Failure, Alive, mon, db
  <2> QED
    BY <1>1, <2>2, <2>3, <2>4 DEF Next
<1>2. [Next]_vars => [Lost => Lost']_vars
  BY <1>1
<1> QED
  BY <1>2, PTL DEF Spec, LostForGood
=============================================================================
