--------------------------- MODULE LiveCallProofs ---------------------------
(* What holds of a live call for any number of sentences, pushes and       *)
(* batches: what a run reads, and which lines share a number.              *)
EXTENDS LiveCall, TLAPS

(* A row is completed, a run created and a batch started only when the     *)
(* call is over; then nobody is left that could write a line.              *)
EndedOK ==
  /\ row = "completed" \/ batch # "off" \/ runs # {} => pc \in {"over", "dead"}
  /\ pc \in {"finalize", "abandon", "over", "dead"} => lpc = "off"

WholeInv == EndedOK /\ AnalysedWhole

LEMMA WholeInit == Init => WholeInv
BY DEF Init, WholeInv, EndedOK, AnalysedWhole

(* The steps of the call before it is over: there is no run yet.           *)
LEMMA WholeBefore ==
  ASSUME WholeInv, pc \notin {"over", "dead"}, UNCHANGED <<row, batch, runs>>,
         pc' \in {"finalize", "abandon"} => lpc' = "off", pc' \notin {"over", "dead"}
  PROVE  WholeInv'
BY DEF WholeInv, EndedOK, AnalysedWhole

LEMMA WholeSocket == ASSUME WholeInv, Socket \/ Disconnect \/ Caller PROVE WholeInv'
<1> USE DEF db, jobs
<1>1. CASE Start
  BY <1>1 DEF Start, list, WholeInv, EndedOK, AnalysedWhole
<1>2. CASE Greet \/ Receive \/ Verify \/ Hear \/ Silence \/ Enroll \/ CustomerLine \/ AgentLine
           \/ Count \/ Answer \/ Play \/ Disconnect \/ Teardown
  BY <1>2, WholeBefore DEF Greet, Receive, Verify, Hear, Silence, Enroll, CustomerLine, AgentLine,
       Count, Answer, Play, Disconnect, Teardown
<1>3. CASE Finalize
  BY <1>3 DEF Finalize, list, WholeInv, EndedOK, AnalysedWhole
<1>4. CASE Caller
  BY <1>4 DEF Caller, list, WholeInv, EndedOK, AnalysedWhole
<1> QED
  BY <1>1, <1>2, <1>3, <1>4 DEF Socket

LEMMA WholeListener == ASSUME WholeInv, Listener PROVE WholeInv'
BY DEF Listener, Event, Push, PushLine, PushEnd, db, jobs, WholeInv, EndedOK, AnalysedWhole

LEMMA WholeRuns ==
  ASSUME WholeInv,
         \/ \E r \in runs : Load(r) \/ RunEnds(r)
         \/ BatchStart \/ BatchRun \/ BatchInterrupted \/ Crash
  PROVE  WholeInv'
<1> USE DEF db, list, WholeInv, EndedOK, AnalysedWhole
<1>1. ASSUME NEW r \in runs, Load(r) PROVE WholeInv'
  <2>1. ASSUME runs' = (runs \ {r}) \cup {[r EXCEPT !.at = "run", !.read = lines]}
        PROVE  AnalysedWhole'
    <3>1. \A q \in runs' : q.at = "run" => q.read = lines
      <4>1. [r EXCEPT !.at = "run", !.read = lines].read = lines
        OBVIOUS
      <4> QED
        BY <2>1, <4>1
    <3> QED
      BY <1>1, <3>1 DEF Load
  <2>2. ASSUME runs' = runs \ {r} PROVE AnalysedWhole'
    BY <1>1, <2>2 DEF Load
  <2>3. EndedOK'
    BY <1>1 DEF Load
  <2> QED
    BY <1>1, <2>1, <2>2, <2>3 DEF Load
<1>2. ASSUME NEW r \in runs, RunEnds(r) PROVE WholeInv'
  BY <1>2 DEF RunEnds
<1>3. CASE BatchStart
  BY <1>3 DEF BatchStart, Targeted
<1>4. CASE BatchRun
  BY <1>4 DEF BatchRun
<1>5. CASE BatchInterrupted \/ Crash
  BY <1>5 DEF BatchInterrupted, Crash
<1> QED
  BY <1>1, <1>2, <1>3, <1>4, <1>5

LEMMA WholeNext == WholeInv /\ [Next]_vars => WholeInv'
<1> SUFFICES ASSUME WholeInv, [Next]_vars PROVE WholeInv'
  OBVIOUS
<1>1. CASE UNCHANGED vars
  BY <1>1 DEF vars, list, db, jobs, WholeInv, EndedOK, AnalysedWhole
<1> QED
  BY <1>1, WholeSocket, WholeListener, WholeRuns DEF Next

(* What the hook's or the batch's run has read is the whole call: no line  *)
(* is added to it afterwards, by the turn or by the listener.              *)
THEOREM RunsReadAll == Spec => []AnalysedWhole
<1>1. WholeInv => AnalysedWhole
  BY DEF WholeInv
<1> QED
  BY <1>1, WholeInit, WholeNext, PTL DEF Spec

-----------------------------------------------------------------------------
(* The numbers of the lines.  They follow from the order of the sentences  *)
(* and from is_speaking: the turn and the listener never write at once.    *)

Messages == [kind : {"speech", "pause", "stop"}, n : Nat, over : BOOLEAN]
AllLines == [turn : Nat, of : {"greeting", "turn", "push"} \X Nat]

Shape ==
  /\ socket \in Seq(Messages) /\ buffer \in Seq(Messages) /\ lines \in Seq(AllLines)
  /\ turnIndex \in Nat /\ said \in Nat /\ sentence \in Nat /\ pushes \in Nat
  /\ speaking \in BOOLEAN


(* Sentences come in their order: what waits in the socket is newer than   *)
(* what is buffered, and that is newer than what the turn works on.        *)
InOrder ==
  /\ sentence <= said
  /\ \A i \in DOMAIN socket : socket[i].kind = "speech" =>
       /\ sentence < socket[i].n /\ socket[i].n <= said
       /\ \A k \in DOMAIN buffer : buffer[k].n < socket[i].n
       /\ \A j \in DOMAIN socket : socket[j].kind = "speech" /\ i < j => socket[i].n < socket[j].n
  /\ \A k \in DOMAIN buffer : sentence < buffer[k].n /\ buffer[k].n <= said

(* is_speaking keeps the turn and the listener apart.                      *)
Busy == {"silence", "enroll", "customer", "agent", "count", "answer", "play"}
Ended == pc \in {"finalize", "abandon", "over", "dead"}

Apart ==
  /\ lpc \in {"push", "counted"} => speaking /\ pc \notin {"verify", "hear"} \cup Busy
  /\ pc \in Busy => speaking
  /\ pc \in {"verify", "hear"} => ~speaking
  /\ pc \in {"start", "greet"} \/ Ended => lpc = "off"

(* The lines of the exchange that is being written.                        *)
Open(of) ==
  \/ pc \in {"agent", "count"} /\ of = <<"turn", sentence>>
  \/ lpc = "counted" /\ of = <<"push", pushes>>

Numbered ==
  /\ \A i \in DOMAIN lines :
       /\ lines[i].turn <= turnIndex
       /\ lines[i].turn = turnIndex <=> Open(lines[i].of)
       /\ lines[i].of[1] = "turn" =>
            lines[i].of[2] <= sentence /\ (pc \in {"enroll", "customer"} => lines[i].of[2] < sentence)
       /\ lines[i].of[1] = "push" =>
            lines[i].of[2] <= pushes /\ (lpc \in {"wait", "push"} => lines[i].of[2] < pushes)
  /\ ~inRow \/ pc \in {"start", "greet"} => lines = <<>>

(* Once the voice check has been raced nothing is claimed any more.        *)
OneInv == Shape /\ InOrder /\ (~raced => Apart /\ (Ended \/ Numbered) /\ OneIndexPerExchange)

LEMMA OneInit == Init => OneInv
<1> SUFFICES ASSUME Init PROVE OneInv
  OBVIOUS
<1>1. Shape
  <2>1. socket \in Seq(Messages) /\ buffer \in Seq(Messages) /\ lines \in Seq(AllLines)
    BY DEF Init
  <2>2. turnIndex \in Nat /\ said \in Nat /\ sentence \in Nat /\ pushes \in Nat
    BY DEF Init
  <2>3. speaking \in BOOLEAN
    BY DEF Init
  <2> QED
    BY <2>1, <2>2, <2>3 DEF Shape
<1>2. InOrder
  BY DEF Init, InOrder
<1> QED
  BY <1>1, <1>2 DEF Init, OneInv, Apart, Busy, Ended, Numbered, Open, OneIndexPerExchange

(* The steps that only look at the call.                                   *)
Others ==
  \/ \E r \in runs : Load(r) \/ RunEnds(r)
  \/ BatchStart \/ BatchRun \/ BatchInterrupted

(* What the caller adds to the socket is a message.                        *)
LEMMA MessageShape ==
  ASSUME NEW kind \in {"speech", "pause", "stop"}, said \in Nat, speaking \in BOOLEAN
  PROVE  Message(kind) \in Messages
<1> DEFINE n == said + 1
<1>1. n \in Nat
  OBVIOUS
<1>2. [kind |-> kind, n |-> n, over |-> speaking] \in Messages
  <2> HIDE DEF n
  <2> QED
    BY <1>1, Zenon DEF Messages
<1> QED
  BY <1>2 DEF Message

(* is_speaking is a Boolean (apart, for the prover's sake).                *)
LEMMA SpeakingNext == ASSUME speaking \in BOOLEAN, [Next]_vars PROVE speaking' \in BOOLEAN
BY DEF Next, Socket, Start, Greet, Receive, Verify, Hear, Silence, Enroll, CustomerLine, AgentLine,
     Count, Answer, Play, Disconnect, Teardown, Finalize, Caller, Listener, Event, Push, PushLine,
     PushEnd, Load, RunEnds, BatchStart, BatchRun, BatchInterrupted, Crash, vars, ear, mouth, list,
     db, jobs, ClearBuffers

(* What a step may do to the sequences and the numbers.                    *)
LEMMA SocketSteps ==
  ASSUME [Next]_vars
  PROVE  \/ socket' = socket \/ socket' = <<>> \/ (socket # <<>> /\ socket' = Tail(socket))
         \/ socket' = Append(Append(socket, Message("speech")), Message("pause"))
         \/ socket' = Append(socket, Message("stop"))
<1>1. Receive \/ Caller \/ socket' = socket \/ socket' = <<>>
  BY DEF Next, Socket, Start, Greet, Verify, Hear, Silence, Enroll, CustomerLine, AgentLine, Count,
       Answer, Play, Disconnect, Teardown, Finalize, Listener, Event, Push, PushLine, PushEnd,
       Load, RunEnds, BatchStart, BatchRun, BatchInterrupted, Crash, vars, ear, mouth, list, db, jobs,
       ClearBuffers
<1>2. CASE Receive
  BY <1>2 DEF Receive
<1>3. CASE Caller
  BY <1>3 DEF Caller
<1> QED
  BY <1>1, <1>2, <1>3

LEMMA BufferSteps ==
  ASSUME [Next]_vars
  PROVE  buffer' = buffer \/ buffer' = <<>> \/ (socket # <<>> /\ buffer' = Append(buffer, Head(socket)))
<1>1. Receive \/ buffer' = buffer \/ buffer' = <<>>
  BY DEF Next, Socket, Start, Greet, Verify, Hear, Silence, Enroll, CustomerLine, AgentLine, Count,
       Answer, Play, Disconnect, Teardown, Finalize, Caller, Listener, Event, Push, PushLine, PushEnd,
       Load, RunEnds, BatchStart, BatchRun, BatchInterrupted, Crash, vars, ear, mouth, list, db, jobs,
       ClearBuffers
<1>2. CASE Receive
  BY <1>2 DEF Receive
<1> QED
  BY <1>1, <1>2

LEMMA LineSteps ==
  ASSUME [Next]_vars
  PROVE  \/ lines' = lines \/ lines' = Append(lines, Line(turnIndex, <<"greeting", 0>>))
         \/ lines' = Append(lines, Line(turnIndex, <<"turn", sentence>>))
         \/ lines' = Append(lines, Line(turnIndex, <<"push", pushes>>))
BY DEF Next, Socket, Start, Greet, Receive, Verify, Hear, Silence, Enroll, CustomerLine, AgentLine,
       Count, Answer, Play, Disconnect, Teardown, Finalize, Caller, Listener, Event, Push, PushLine,
       PushEnd, Load, RunEnds, BatchStart, BatchRun, BatchInterrupted, Crash, vars, ear, mouth, list,
       db, jobs, ClearBuffers, Insert

LEMMA NumberSteps ==
  ASSUME [Next]_vars
  PROVE  /\ turnIndex' \in {turnIndex, turnIndex + 1}
         /\ said' \in {said, said + 1} /\ pushes' \in {pushes, pushes + 1}
         /\ sentence' = sentence \/ (buffer # <<>> /\ sentence' = Last(buffer).n)
<1>1. turnIndex' \in {turnIndex, turnIndex + 1}
  BY DEF Next, Socket, Start, Greet, Receive, Verify, Hear, Silence, Enroll, CustomerLine, AgentLine,
       Count, Answer, Play, Disconnect, Teardown, Finalize, Caller, Listener, Event, Push, PushLine,
       PushEnd, Load, RunEnds, BatchStart, BatchRun, BatchInterrupted, Crash, vars, ear, mouth, list,
       db, jobs, ClearBuffers, Insert
<1>2. said' \in {said, said + 1} /\ pushes' \in {pushes, pushes + 1}
  BY DEF Next, Socket, Start, Greet, Receive, Verify, Hear, Silence, Enroll, CustomerLine, AgentLine,
       Count, Answer, Play, Disconnect, Teardown, Finalize, Caller, Listener, Event, Push, PushLine,
       PushEnd, Load, RunEnds, BatchStart, BatchRun, BatchInterrupted, Crash, vars, ear, mouth, list,
       db, jobs, ClearBuffers, Insert
<1>3. sentence' = sentence \/ (buffer # <<>> /\ sentence' = Last(buffer).n)
  <2>1. Hear \/ sentence' = sentence
    BY DEF Next, Socket, Start, Greet, Receive, Verify, Silence, Enroll, CustomerLine, AgentLine, Count,
       Answer, Play, Disconnect, Teardown, Finalize, Caller, Listener, Event, Push, PushLine, PushEnd,
       Load, RunEnds, BatchStart, BatchRun, BatchInterrupted, Crash, vars, ear, mouth, list, db, jobs,
       ClearBuffers
  <2>2. CASE Hear
    BY <2>2 DEF Hear
  <2> QED
    BY <2>1, <2>2
<1> QED
  BY <1>1, <1>2, <1>3

(* Every step keeps the types.                                             *)
LEMMA ShapeNext == ASSUME Shape, [Next]_vars PROVE Shape'
<1>1. socket' \in Seq(Messages)
  <2>0. socket \in Seq(Messages) /\ (socket # <<>> => Tail(socket) \in Seq(Messages))
    BY DEF Shape
  <2>1. Message("speech") \in Messages /\ Message("pause") \in Messages /\ Message("stop") \in Messages
    BY MessageShape DEF Shape
  <2>3. Append(Append(socket, Message("speech")), Message("pause")) \in Seq(Messages)
    BY <2>0, <2>1
  <2>4. Append(socket, Message("stop")) \in Seq(Messages)
    BY <2>0, <2>1
  <2>5. <<>> \in Seq(Messages)
    OBVIOUS
  <2> QED
    BY <2>0, <2>3, <2>4, <2>5, SocketSteps
<1>2. buffer' \in Seq(Messages)
  <2>1. /\ buffer \in Seq(Messages) /\ <<>> \in Seq(Messages)
        /\ socket # <<>> => Append(buffer, Head(socket)) \in Seq(Messages)
    BY DEF Shape
  <2> QED
    BY <2>1, BufferSteps
<1>3. lines' \in Seq(AllLines)
  <2>0. lines \in Seq(AllLines) /\ sentence \in Nat /\ pushes \in Nat /\ turnIndex \in Nat
    BY DEF Shape
  <2>1. /\ Line(turnIndex, <<"greeting", 0>>) \in AllLines
        /\ Line(turnIndex, <<"turn", sentence>>) \in AllLines
        /\ Line(turnIndex, <<"push", pushes>>) \in AllLines
    BY <2>0 DEF Line, AllLines
  <2>2. /\ Append(lines, Line(turnIndex, <<"greeting", 0>>)) \in Seq(AllLines)
        /\ Append(lines, Line(turnIndex, <<"turn", sentence>>)) \in Seq(AllLines)
        /\ Append(lines, Line(turnIndex, <<"push", pushes>>)) \in Seq(AllLines)
    BY <2>0, <2>1
  <2> QED
    BY <2>0, <2>2, LineSteps
<1>4. sentence' \in Nat
  <2>1. buffer # <<>> => Last(buffer) \in Messages
    BY DEF Last, Shape
  <2> QED
    BY <2>1, NumberSteps DEF Shape, Messages
<1> QED
  BY <1>1, <1>2, <1>3, <1>4, NumberSteps, SpeakingNext DEF Shape

(* Every step keeps the order of the sentences.                            *)
LEMMA OrderNext == ASSUME Shape, InOrder, [Next]_vars PROVE InOrder'
<1> USE DEF ear, mouth, list, db, jobs, ClearBuffers
<1>1. CASE \/ Start \/ Greet \/ Verify \/ Silence \/ Enroll \/ CustomerLine \/ AgentLine \/ Count \/ Answer \/ Play
           \/ Disconnect \/ Teardown \/ Finalize \/ Listener \/ Others \/ UNCHANGED vars
  <2>1. UNCHANGED <<socket, said, sentence>> /\ buffer' \in {buffer, <<>>}
    BY <1>1 DEF Start, Greet, Verify, Silence, Enroll, CustomerLine, AgentLine, Count, Answer, Play,
         Disconnect, Teardown, Finalize, Listener, Event, Push, PushLine, PushEnd, Others, Load,
         RunEnds, BatchStart, BatchRun, BatchInterrupted, vars
  <2> QED
    BY <2>1 DEF InOrder
<1>2. CASE Receive
  <2>1. /\ UNCHANGED <<said, sentence>> /\ socket # <<>> /\ socket' = Tail(socket)
        /\ buffer' = buffer \/ (Head(socket).kind = "speech" /\ buffer' = Append(buffer, Head(socket)))
    BY <1>2 DEF Receive
  <2>2. \A i \in DOMAIN socket' : i + 1 \in DOMAIN socket /\ socket'[i] = socket[i + 1]
    BY <2>1 DEF Shape
  <2>3. Head(socket) = socket[1] /\ 1 \in DOMAIN socket
    BY <2>1 DEF Shape
  <2>4. \A i \in DOMAIN socket' : 1 < i + 1 /\ \A j \in DOMAIN socket' : i < j => i + 1 < j + 1
    BY <2>1 DEF Shape
  <2>5. CASE buffer' = buffer
    BY <2>1, <2>2, <2>4, <2>5 DEF InOrder
  <2>6. CASE Head(socket).kind = "speech" /\ buffer' = Append(buffer, Head(socket))
    <3>1. \A k \in DOMAIN buffer' : (k \in DOMAIN buffer /\ buffer'[k] = buffer[k]) \/ buffer'[k] = socket[1]
      BY <2>3, <2>6 DEF Shape
    <3> QED
      BY <2>1, <2>2, <2>3, <2>4, <2>6, <3>1 DEF InOrder
  <2> QED
    BY <2>1, <2>5, <2>6
<1>3. CASE Hear
  <2>1. CASE buffer = <<>>
    BY <1>3, <2>1 DEF Hear, InOrder
  <2>2. CASE buffer # <<>>
    <3>1. Len(buffer) \in DOMAIN buffer /\ Last(buffer) = buffer[Len(buffer)] /\ buffer[Len(buffer)] \in Messages
      BY <2>2 DEF Shape, Last
    <3>2. sentence' = buffer[Len(buffer)].n /\ buffer' = <<>> /\ UNCHANGED <<socket, said>>
      BY <1>3, <2>2, <3>1 DEF Hear
    <3> QED
      BY <3>1, <3>2 DEF InOrder
  <2> QED
    BY <2>1, <2>2
<1>4. CASE Caller
  <2>0. \A kind \in {"speech", "pause", "stop"} : Message(kind) \in Messages
    BY MessageShape DEF Shape
  <2>1. UNCHANGED <<buffer, sentence>>
    BY <1>4 DEF Caller
  <2>2. CASE said' = said + 1 /\ socket' = Append(Append(socket, Message("speech")), Message("pause"))
    <3>1. \A i \in DOMAIN socket' :
            \/ i \in DOMAIN socket /\ socket'[i] = socket[i]
            \/ i = Len(socket) + 1 /\ socket'[i] = Message("speech")
            \/ i = Len(socket) + 2 /\ socket'[i] = Message("pause")
      <4>1. socket \in Seq(Messages) /\ Message("speech") \in Messages /\ Message("pause") \in Messages
        BY <2>0 DEF Shape
      <4> QED
        BY <2>2, <4>1
    <3>2. Message("speech").n = said + 1 /\ Message("pause").kind = "pause"
      BY DEF Message
    <3>3. \A i \in DOMAIN socket : i \in 1 .. Len(socket)
      BY DEF Shape
    <3>4. \A i \in DOMAIN socket : socket[i] \in Messages
      BY DEF Shape
    <3>5. \A m \in Messages : m.n \in Nat
      BY DEF Messages
    <3>6. \A k \in DOMAIN buffer : buffer[k] \in Messages
      BY DEF Shape
    <3>7. /\ sentence \in Nat /\ said \in Nat /\ Len(socket) \in Nat
      BY DEF Shape
    <3>8. sentence <= said'
      BY <2>2, <3>7 DEF InOrder
    <3>9. \A k \in DOMAIN buffer : sentence < buffer[k].n /\ buffer[k].n <= said'
      BY <2>2, <3>5, <3>6, <3>7 DEF InOrder
    <3>10. ASSUME NEW i \in DOMAIN socket', socket'[i].kind = "speech"
           PROVE  /\ sentence < socket'[i].n /\ socket'[i].n <= said'
                  /\ \A k \in DOMAIN buffer : buffer[k].n < socket'[i].n
                  /\ \A j \in DOMAIN socket' : socket'[j].kind = "speech" /\ i < j => socket'[i].n < socket'[j].n
      <4>1. CASE i \in DOMAIN socket /\ socket'[i] = socket[i]
        BY <2>2, <3>1, <3>2, <3>3, <3>4, <3>5, <3>6, <3>7, <3>10, <4>1 DEF InOrder
      <4>2. CASE i = Len(socket) + 1 /\ socket'[i] = Message("speech")
        BY <2>2, <3>1, <3>2, <3>3, <3>5, <3>6, <3>7, <4>2 DEF InOrder
      <4> QED
        BY <3>1, <3>2, <3>10, <4>1, <4>2
    <3> QED
      BY <2>1, <3>8, <3>9, <3>10 DEF InOrder
  <2>3. CASE said' = said /\ socket' = Append(socket, Message("stop"))
    <3>1. \A i \in DOMAIN socket' :
            \/ i \in DOMAIN socket /\ socket'[i] = socket[i]
            \/ socket'[i].kind # "speech"
      BY <2>3 DEF Shape, Message, Messages
    <3> QED
      BY <2>1, <2>3, <3>1 DEF InOrder
  <2> QED
    BY <1>4, <2>2, <2>3 DEF Caller
<1>5. CASE Crash
  BY <1>5 DEF Crash, InOrder
<1> QED
  BY <1>1, <1>2, <1>3, <1>4, <1>5 DEF Next, Socket, Others

(* A step that inserts and counts nothing keeps the numbers.               *)
LEMMA NumbersKept ==
  ASSUME Numbered, OneIndexPerExchange, ~raced, ~raced',
         UNCHANGED <<lines, turnIndex, inRow, sentence, pushes>>,
         pc' \in {"agent", "count"} <=> pc \in {"agent", "count"},
         lpc' = "counted" <=> lpc = "counted",
         pc' \in {"enroll", "customer"} => pc \in {"enroll", "customer"},
         lpc' \in {"wait", "push"} => lpc \in {"wait", "push"},
         pc' \in {"start", "greet"} => pc \in {"start", "greet"}
  PROVE  Numbered' /\ OneIndexPerExchange'
<1>1. \A of : Open(of) <=> Open(of)'
  BY DEF Open
<1>2. OneIndexPerExchange'
  BY DEF OneIndexPerExchange
<1> QED
  BY <1>1, <1>2 DEF Numbered

(* Every step that does not race keeps the turn and the listener apart.    *)
LEMMA ApartNext == ASSUME speaking \in BOOLEAN, Apart, ~raced', [Next]_vars PROVE Apart'
<1> USE DEF Busy, Ended, ear, mouth, list, db, jobs
<1>1. CASE Start \/ Greet
  BY <1>1 DEF Start, Greet, Apart
<1>8. CASE Verify \/ Hear \/ Silence
  BY <1>8 DEF Verify, Hear, Silence, Apart
<1>9. CASE Enroll
  <2>1. speaking /\ pc' = "customer" /\ lpc' = lpc /\ lpc \notin {"push", "counted"}
    BY <1>9 DEF Enroll, Apart
  <2>2. speaking' = TRUE
    BY <1>9, <2>1, Zenon DEF Enroll
  <2> QED
    BY <2>1, <2>2 DEF Apart
<1>2. CASE Receive
  BY <1>2 DEF Receive, Apart
<1>3. CASE CustomerLine \/ AgentLine \/ Count \/ Answer \/ Play
  BY <1>3 DEF CustomerLine, AgentLine, Count, Answer, Play, Apart
<1>4. CASE Disconnect \/ Teardown \/ Finalize \/ Caller \/ Crash
  BY <1>4 DEF Disconnect, Teardown, Finalize, Caller, Crash, Apart
<1>5. CASE Event \/ PushLine \/ PushEnd
  BY <1>5 DEF Event, PushLine, PushEnd, Apart
<1>6. CASE Push
  <2>1. CASE ~speaking /\ lpc' = "push" /\ speaking' = TRUE /\ raced' = (raced \/ pc \in {"verify", "hear"})
    <3>1. pc \notin {"verify", "hear"}
      BY <2>1, Zenon
    <3>2. UNCHANGED pc /\ lpc = "wait"
      BY <1>6 DEF Push
    <3>3. pc \notin Busy \cup {"start", "greet"} /\ ~Ended
      BY <2>1, <3>2 DEF Apart
    <3> QED
      BY <2>1, <3>1, <3>2, <3>3 DEF Apart
  <2>2. CASE speaking /\ lpc' \in {"listen", "off"} /\ UNCHANGED mouth
    BY <1>6, <2>2 DEF Push, Apart
  <2> QED
    BY <1>6, <2>1, <2>2 DEF Push
<1>7. CASE Others \/ UNCHANGED vars
  <2>1. UNCHANGED <<pc, lpc, speaking>>
    BY <1>7 DEF Others, Load, RunEnds, BatchStart, BatchRun, BatchInterrupted, vars
  <2> QED
    BY <2>1 DEF Apart
<1> QED
  BY <1>1, <1>2, <1>3, <1>4, <1>5, <1>6, <1>7, <1>8, <1>9 DEF Next, Socket, Listener, Others

(* A line gets the number of the exchange it belongs to, and a new one if  *)
(* it is the first.                                                        *)
LEMMA LineAppended ==
  ASSUME NEW of, lines \in Seq(AllLines), ~raced, OneIndexPerExchange,
         lines' = Append(lines, Line(turnIndex, of)),
         \A i \in DOMAIN lines : lines[i].turn = turnIndex <=> lines[i].of = of
  PROVE  /\ OneIndexPerExchange'
         /\ \A i \in DOMAIN lines' :
              (i \in DOMAIN lines /\ lines'[i] = lines[i]) \/ lines'[i] = Line(turnIndex, of)
<1>1. \A i \in DOMAIN lines' :
        (i \in DOMAIN lines /\ lines'[i] = lines[i]) \/ lines'[i] = Line(turnIndex, of)
  OBVIOUS
<1>2. Line(turnIndex, of).turn = turnIndex /\ Line(turnIndex, of).of = of
  BY DEF Line
<1> QED
  BY <1>1, <1>2 DEF OneIndexPerExchange

(* The customer's and the agent's line of a turn.                          *)
LEMMA TurnLine ==
  ASSUME OneInv, ~raced, ~raced', CustomerLine \/ AgentLine
  PROVE  Numbered' /\ OneIndexPerExchange'
<1> DEFINE of == <<"turn", sentence>>
<1>1. /\ pc \in {"customer", "agent"} /\ pc' \in {"agent", "count"} /\ lpc # "counted" /\ ~Ended
      /\ UNCHANGED <<lpc, turnIndex, inRow, sentence, pushes>>
  BY DEF CustomerLine, AgentLine, OneInv, Apart, Busy, Ended, ear, list
<1>2. Numbered /\ OneIndexPerExchange /\ lines \in Seq(AllLines)
  BY <1>1 DEF OneInv, Shape
<1>3. \A o : Open(o)' <=> o = of
  BY <1>1 DEF Open
<1>4. \A i \in DOMAIN lines : lines[i].turn = turnIndex <=> lines[i].of = of
  <2>1. CASE pc = "agent"
    BY <1>1, <1>2, <2>1 DEF Numbered, Open
  <2>2. CASE pc = "customer"
    <3>1. \A i \in DOMAIN lines : lines[i].turn # turnIndex
      BY <1>1, <1>2, <2>2 DEF Numbered, Open
    <3>2. \A i \in DOMAIN lines : lines[i].of # of
      <4>1. of[1] = "turn" /\ of[2] = sentence /\ sentence \in Nat
        BY DEF OneInv, Shape
      <4> HIDE DEF of
      <4> QED
        BY <1>1, <1>2, <2>2, <4>1 DEF Numbered
    <3> QED
      BY <3>1, <3>2
  <2> QED
    BY <1>1, <2>1, <2>2
<1>5. CASE lines' = lines
  <2>1. OneIndexPerExchange'
    BY <1>2, <1>5 DEF OneIndexPerExchange
  <2>2. ~inRow' \/ pc' \in {"start", "greet"} => lines' = <<>>
    BY <1>1, <1>2, <1>5 DEF Numbered
  <2> QED
    BY <1>1, <1>2, <1>3, <1>4, <1>5, <2>1, <2>2 DEF Numbered
<1>6. CASE inRow /\ lines' = Append(lines, Line(turnIndex, of))
  <2>1. /\ OneIndexPerExchange'
        /\ \A i \in DOMAIN lines' :
             (i \in DOMAIN lines /\ lines'[i] = lines[i]) \/ lines'[i] = Line(turnIndex, of)
    BY <1>2, <1>4, <1>6, LineAppended
  <2>2. /\ Line(turnIndex, of).turn = turnIndex /\ Line(turnIndex, of).of = of
        /\ of[1] = "turn" /\ of[2] = sentence /\ sentence \in Nat /\ turnIndex \in Nat
    BY DEF Line, OneInv, Shape
  <2> HIDE DEF of
  <2> QED
    BY <1>1, <1>2, <1>3, <1>4, <1>6, <2>1, <2>2 DEF Numbered
<1> QED
  BY <1>5, <1>6 DEF CustomerLine, AgentLine, Insert

(* The listener's line: no line of its push is there yet.                  *)
LEMMA PushedLine ==
  ASSUME OneInv, ~raced, ~raced', PushLine
  PROVE  Numbered' /\ OneIndexPerExchange'
<1> DEFINE of == <<"push", pushes>>
<1>1. /\ lpc = "push" /\ lpc' = "counted" /\ pc \notin Busy /\ pc \notin {"start", "greet"} /\ ~Ended
      /\ UNCHANGED <<pc, turnIndex, inRow, sentence, pushes>>
  BY DEF PushLine, OneInv, Apart, Busy, Ended, ear
<1>2. Numbered /\ OneIndexPerExchange /\ lines \in Seq(AllLines)
  BY <1>1 DEF OneInv, Shape
<1>3. \A o : Open(o)' <=> o = of
  BY <1>1 DEF Open, Busy
<1>4. \A i \in DOMAIN lines : lines[i].turn # turnIndex /\ lines[i].of # of
  <2>1. \A i \in DOMAIN lines : lines[i].turn # turnIndex
    BY <1>1, <1>2 DEF Numbered, Open, Busy
  <2>2. of[1] = "push" /\ of[2] = pushes /\ pushes \in Nat
    BY DEF OneInv, Shape
  <2> HIDE DEF of
  <2> QED
    BY <1>1, <1>2, <2>1, <2>2 DEF Numbered
<1>5. CASE lines' = lines
  <2>1. OneIndexPerExchange'
    BY <1>2, <1>5 DEF OneIndexPerExchange
  <2> QED
    BY <1>1, <1>2, <1>3, <1>4, <1>5, <2>1 DEF Numbered, Busy
<1>6. CASE inRow /\ lines' = Append(lines, Line(turnIndex, of))
  <2>1. /\ OneIndexPerExchange'
        /\ \A i \in DOMAIN lines' :
             (i \in DOMAIN lines /\ lines'[i] = lines[i]) \/ lines'[i] = Line(turnIndex, of)
    BY <1>2, <1>4, <1>6, LineAppended
  <2>2. /\ Line(turnIndex, of).turn = turnIndex /\ Line(turnIndex, of).of = of
        /\ of[1] = "push" /\ of[2] = pushes /\ pushes \in Nat /\ turnIndex \in Nat
    BY DEF Line, OneInv, Shape
  <2> HIDE DEF of
  <2> QED
    BY <1>1, <1>2, <1>3, <1>4, <1>6, <2>1, <2>2 DEF Numbered, Busy
<1> QED
  BY <1>5, <1>6 DEF PushLine, Insert

(* An exchange is known by a number.                                       *)
LEMMA LineOf == ASSUME lines \in Seq(AllLines), NEW i \in DOMAIN lines PROVE lines[i].of[2] \in Nat
<1>1. lines[i] \in AllLines
  OBVIOUS
<1> QED
  BY <1>1 DEF AllLines

(* A race is not forgotten.                                                *)
LEMMA RacedStays == ASSUME raced, [Next]_vars PROVE raced'
<1>1. Push \/ raced' = raced
  BY DEF Next, Socket, Start, Greet, Receive, Verify, Hear, Silence, Enroll, CustomerLine, AgentLine,
       Count, Answer, Play, Disconnect, Teardown, Finalize, Caller, Listener, Event, PushLine, PushEnd,
       Load, RunEnds, BatchStart, BatchRun, BatchInterrupted, Crash, vars, ear, mouth, list, db, jobs
<1>2. CASE Push
  <2>1. raced' = (raced \/ pc \in {"verify", "hear"}) \/ raced' = raced
    BY <1>2 DEF Push, mouth
  <2> QED
    BY <2>1, Zenon
<1>3. CASE raced' = raced
  BY <1>3, Zenon
<1> QED
  BY <1>1, <1>2, <1>3

(* Every step that does not race keeps the numbers.                        *)
LEMMA NumberNext ==
  ASSUME OneInv, ~raced, ~raced', [Next]_vars
  PROVE  (Ended' \/ Numbered') /\ OneIndexPerExchange'
<1> USE DEF ear, mouth, list, db, jobs
<1>1. OneIndexPerExchange /\ Apart /\ Shape /\ InOrder /\ (Ended \/ Numbered)
  BY DEF OneInv
<1>2. lines' = lines => OneIndexPerExchange'
  BY <1>1 DEF OneIndexPerExchange
<1>3. CASE Ended \/ Teardown \/ Finalize \/ Crash
  <2>1. Ended' /\ lines' = lines
    <3>1. CASE Teardown \/ Finalize \/ Crash
      BY <3>1 DEF Teardown, Finalize, Crash, Ended
    <3>2. CASE Ended
      <4>1. lpc = "off" /\ pc \notin {"start", "greet", "receive", "completed", "failed"} \cup {"verify", "hear"} \cup Busy
        BY <1>1, <3>2 DEF Apart, Ended, Busy
      <4>2. Finalize \/ Crash \/ Others \/ UNCHANGED vars
        BY <3>2, <4>1 DEF Next, Socket, Start, Greet, Receive, Verify, Hear, Silence, Enroll, CustomerLine,
             AgentLine, Count, Answer, Play, Disconnect, Teardown, Caller, Listener, Event, Push, PushLine,
             PushEnd, Others, Busy, Ended
      <4>3. CASE Finalize \/ Crash
        BY <4>3 DEF Finalize, Crash, Ended
      <4>4. CASE Others \/ UNCHANGED vars
        BY <3>2, <4>4 DEF Others, Load, RunEnds, BatchStart, BatchRun, BatchInterrupted, vars, Ended
      <4> QED
        BY <4>2, <4>3, <4>4
    <3> QED
      BY <1>3, <3>1, <3>2
  <2> QED
    BY <1>2, <2>1
<1>4. CASE Numbered /\ (Start \/ Greet)
  <2>1. lines = <<>> /\ lpc = "off" /\ lpc' = lpc
    BY <1>1, <1>4 DEF Numbered, Apart, Start, Greet
  <2>2. CASE Start
    BY <1>2, <2>1, <2>2 DEF Start, Numbered
  <2>3. CASE Greet
    <3> DEFINE of == <<"greeting", 0>>
    <3>1. UNCHANGED <<inRow, sentence, pushes>> /\ pc' = "receive"
      BY <2>3 DEF Greet
    <3>2. \A o : ~Open(o)'
      BY <2>1, <3>1 DEF Open
    <3>3. CASE lines' = lines
      BY <1>2, <2>1, <3>1, <3>3 DEF Numbered
    <3>4. CASE inRow /\ lines' = Append(lines, Line(turnIndex, of))
      <4>1. /\ OneIndexPerExchange'
            /\ \A i \in DOMAIN lines' :
                 (i \in DOMAIN lines /\ lines'[i] = lines[i]) \/ lines'[i] = Line(turnIndex, of)
        BY <1>1, <2>1, <3>4, LineAppended DEF Shape
      <4>2. /\ Line(turnIndex, of).turn = turnIndex /\ Line(turnIndex, of).of = of /\ of[1] = "greeting"
            /\ turnIndex \in Nat
        BY <1>1 DEF Line, Shape
      <4>3. turnIndex' = turnIndex + 1
        BY <2>3, <3>4 DEF Greet
      <4>4. DOMAIN lines = {}
        BY <2>1
      <4> HIDE DEF of
      <4> QED
        BY <3>1, <3>2, <3>4, <4>1, <4>2, <4>3, <4>4 DEF Numbered
    <3> QED
      BY <2>3, <3>3, <3>4 DEF Greet, Insert
  <2> QED
    BY <1>4, <2>2, <2>3
<1>5. CASE CustomerLine \/ AgentLine
  BY <1>5, TurnLine
<1>6. CASE PushLine
  BY <1>6, PushedLine
<1>7. CASE Numbered /\ (Count \/ PushEnd)
  <2>1. /\ UNCHANGED <<lines, inRow, sentence, pushes>>
        /\ pc \notin {"start", "greet"} /\ pc' \notin {"start", "greet", "agent", "count", "enroll", "customer"}
        /\ lpc' # "counted" /\ (lpc' \in {"wait", "push"} => lpc \in {"wait", "push"})
    BY <1>1, <1>7 DEF Count, PushEnd, Apart, Busy
  <2>2. turnIndex' = turnIndex + 1 \/ (turnIndex' = turnIndex /\ ~inRow) \/ (turnIndex' = turnIndex /\ PushEnd /\ lpc = "push")
    BY <1>7 DEF Count, PushEnd
  <2>3. \A o : ~Open(o)'
    BY <2>1 DEF Open
  <2>4. lines \in Seq(AllLines) /\ turnIndex \in Nat /\ \A i \in DOMAIN lines : lines[i] \in AllLines
    BY <1>1 DEF Shape
  <2>5. CASE turnIndex' = turnIndex + 1
    <3>1. \A i \in DOMAIN lines : lines[i].turn < turnIndex'
      BY <1>7, <2>4, <2>5 DEF Numbered, AllLines
    <3>2. \A i \in DOMAIN lines : lines[i].turn <= turnIndex' /\ lines[i].turn # turnIndex'
      BY <2>4, <2>5, <3>1 DEF AllLines
    <3> QED
      BY <1>2, <1>7, <2>1, <2>3, <3>2 DEF Numbered
  <2>6. CASE turnIndex' = turnIndex /\ ~inRow
    BY <1>2, <1>7, <2>1, <2>6 DEF Numbered
  <2>7. CASE turnIndex' = turnIndex /\ PushEnd /\ lpc = "push"
    <3>1. pc \notin {"agent", "count"}
      BY <1>1, <2>7 DEF Apart, Busy
    <3>2. \A i \in DOMAIN lines : lines[i].turn # turnIndex
      BY <1>7, <2>7, <3>1 DEF Numbered, Open
    <3> QED
      BY <1>2, <1>7, <2>1, <2>3, <2>7, <3>2 DEF Numbered
  <2> QED
    BY <2>2, <2>5, <2>6, <2>7
<1>8. CASE Numbered /\ Hear
  <2>1. /\ UNCHANGED <<lines, inRow, turnIndex, pushes, lpc>>
        /\ pc = "hear" /\ pc' \in {"silence", "enroll", "failed"} /\ (buffer = <<>> => pc' = "silence")
        /\ sentence' = IF buffer = <<>> THEN sentence ELSE Last(buffer).n
    BY <1>8 DEF Hear
  <2>2. \A o : Open(o)' <=> Open(o)
    BY <2>1 DEF Open
  <2>3. (sentence' = sentence /\ pc' = "silence") \/ sentence < sentence'
    <3>1. CASE buffer # <<>>
      <4>1. Len(buffer) \in DOMAIN buffer
        BY <1>1, <3>1 DEF Shape
      <4> QED
        BY <1>1, <2>1, <3>1, <4>1 DEF InOrder, Last
    <3> QED
      BY <2>1, <3>1
  <2>4. sentence \in Nat /\ sentence' \in Nat /\ \A i \in DOMAIN lines : lines[i].of[2] \in Nat
    BY <1>1, LineOf, ShapeNext DEF Shape
  <2>5. \A i \in DOMAIN lines : lines[i].of[1] = "turn" =>
          lines[i].of[2] <= sentence' /\ (pc' \in {"enroll", "customer"} => lines[i].of[2] < sentence')
    BY <1>8, <2>1, <2>3, <2>4 DEF Numbered
  <2> QED
    BY <1>2, <1>8, <2>1, <2>2, <2>5 DEF Numbered
<1>9. CASE Numbered /\ Event
  <2>1. /\ UNCHANGED <<lines, inRow, turnIndex, sentence, pc>>
        /\ lpc = "listen" /\ lpc' = "wait" /\ pushes' = pushes + 1
    BY <1>9 DEF Event
  <2>2. \A o : Open(o)' <=> Open(o)
    BY <2>1 DEF Open
  <2>3. \A i \in DOMAIN lines : lines[i].of[1] = "push" => lines[i].of[2] <= pushes' /\ lines[i].of[2] < pushes'
    <3>1. pushes \in Nat /\ \A i \in DOMAIN lines : lines[i].of[2] \in Nat
      BY <1>1, LineOf DEF Shape
    <3> QED
      BY <1>9, <2>1, <3>1 DEF Numbered
  <2> QED
    BY <1>2, <1>9, <2>1, <2>2, <2>3 DEF Numbered
<1>10. CASE /\ Numbered
            /\ \/ Receive \/ Verify \/ Silence \/ Enroll \/ Answer \/ Play \/ Disconnect \/ Caller \/ Push
               \/ Others \/ UNCHANGED vars
  <2>1. UNCHANGED <<lines, turnIndex, inRow, sentence, pushes>>
    BY <1>10 DEF Receive, Verify, Silence, Enroll, Answer, Play, Disconnect, Caller, Push, Others, Load,
         RunEnds, BatchStart, BatchRun, BatchInterrupted, vars
  <2>2. /\ pc' \in {"agent", "count"} <=> pc \in {"agent", "count"}
        /\ lpc' = "counted" <=> lpc = "counted"
        /\ pc' \in {"enroll", "customer"} => pc \in {"enroll", "customer"}
        /\ lpc' \in {"wait", "push"} => lpc \in {"wait", "push"}
        /\ pc' \in {"start", "greet"} => pc \in {"start", "greet"}
    <3>1. CASE Receive \/ Verify \/ Silence \/ Enroll
      BY <3>1 DEF Receive, Verify, Silence, Enroll
    <3>2. CASE Answer \/ Play \/ Disconnect \/ Caller \/ Push
      BY <3>2 DEF Answer, Play, Disconnect, Caller, Push
    <3>3. CASE Others \/ UNCHANGED vars
      BY <3>3 DEF Others, Load, RunEnds, BatchStart, BatchRun, BatchInterrupted, vars
    <3> QED
      BY <1>10, <3>1, <3>2, <3>3
  <2> QED
    BY <1>1, <1>10, <2>1, <2>2, NumbersKept
<1> QED
  BY <1>1, <1>3, <1>4, <1>5, <1>6, <1>7, <1>8, <1>9, <1>10 DEF Next, Socket, Listener, Others

(* Two lines of a call have one number exactly if they are of one          *)
(* exchange, unless the listener spoke while a voice was being compared.   *)
THEOREM ExchangeNumbers == Spec => []OneIndexPerExchange
<1>1. OneInv /\ [Next]_vars => OneInv'
  <2> SUFFICES ASSUME OneInv, [Next]_vars PROVE OneInv'
    OBVIOUS
  <2>1. Shape' /\ InOrder'
    BY ShapeNext, OrderNext DEF OneInv
  <2>2. ASSUME ~raced' PROVE Apart' /\ (Ended' \/ Numbered') /\ OneIndexPerExchange'
    <3>1. ~raced
      BY <2>2, RacedStays
    <3> QED
      BY <2>2, <3>1, ApartNext, NumberNext DEF OneInv, Shape
  <2> QED
    BY <2>1, <2>2 DEF OneInv
<1>2. OneInv => OneIndexPerExchange
  BY DEF OneInv, OneIndexPerExchange
<1> QED
  BY <1>1, <1>2, OneInit, PTL DEF Spec
=============================================================================
