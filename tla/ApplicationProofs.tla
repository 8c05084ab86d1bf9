-------------------------- MODULE ApplicationProofs --------------------------
(***************************************************************************)
(* Theorems about Application, for any input, bounds and length of the     *)
(* buffer: about what it reads, and about its log.                         *)
(***************************************************************************)
EXTENDS Application, WellFoundedInduction, FiniteSetTheorems, TLAPS

(***************************************************************************)
(* Sequences.                                                              *)
(***************************************************************************)
LEMMA AppendProperties ==
  ASSUME NEW S, NEW s \in Seq(S), NEW e \in S
  PROVE  /\ Append(s, e) \in Seq(S)
         /\ Len(Append(s, e)) = Len(s) + 1
         /\ \A i \in 1 .. Len(s) : Append(s, e)[i] = s[i]
         /\ Append(s, e)[Len(s) + 1] = e
OBVIOUS

LEMMA FrontProperties ==
  ASSUME NEW S, NEW s \in Seq(S), s # << >>
  PROVE  /\ Front(s) \in Seq(S)
         /\ Len(Front(s)) = Len(s) - 1
         /\ \A i \in 1 .. Len(s) - 1 : Front(s)[i] = s[i]
         /\ Last(s) = s[Len(s)]
         /\ Last(s) \in S
<1>1. Len(s) \in Nat \ {0}
  OBVIOUS
<1>2. Last(s) = s[Len(s)] /\ Last(s) \in S
  <2>1. s[Len(s)] \in S
    BY <1>1
  <2> QED
    BY <2>1, Zenon DEF Last
<1>3. /\ SubSeq(s, 1, Len(s) - 1) \in Seq(S)
      /\ Len(SubSeq(s, 1, Len(s) - 1)) = Len(s) - 1
  <2>1. SubSeq(s, 1, Len(s) - 1) \in Seq(S)
    BY <1>1
  <2>2. PICK k \in Nat : k = Len(s) - 1
    BY <1>1
  <2>3. Len(SubSeq(s, 1, k)) = k
    BY <2>2
  <2> QED
    BY <2>1, <2>2, <2>3
<1>4. \A i \in 1 .. Len(s) - 1 : SubSeq(s, 1, Len(s) - 1)[i] = s[i]
  BY <1>1
<1> QED
  BY <1>2, <1>3, <1>4, Zenon DEF Front

\* What comes behind the first part of a concatenation is the second.
LEMMA SecondPart ==
  ASSUME NEW S, NEW f \in Seq(S), NEW s \in Seq(S)
  PROVE  /\ Len(f) \in 0 .. Len(f \o s)
         /\ SubSeq(f \o s, Len(f) + 1, Len(f \o s)) = s
<1>1. Len(f \o s) = Len(f) + Len(s) /\ \A i \in 1 .. Len(s) : (f \o s)[Len(f) + i] = s[i]
  OBVIOUS
<1>2. \A i \in 1 .. Len(s) : SubSeq(f \o s, Len(f) + 1, Len(f \o s))[i] = s[i]
  BY <1>1
<1>3. Len(SubSeq(f \o s, Len(f) + 1, Len(f \o s))) = Len(s)
  BY <1>1
<1> QED
  BY <1>1, <1>2, <1>3

(***************************************************************************)
(* Events and text.                                                        *)
(***************************************************************************)
TextLine == [event : Event, put : 1 .. 5]

LEMMA LineProperties ==
  ASSUME NEW e \in Event, NEW k \in 1 .. Insertions(e)
  PROVE  /\ Line(e, k) \in TextLine
         /\ Line(e, k).event = e
         /\ Line(e, k).put = k
         /\ Whole(Line(e, k)) <=> k = Insertions(e)
         /\ Insertions(e) \in {3, 5}
BY DEF Line, TextLine, Whole, WholeLine, Insertions

LEMMA BroadcastType == ASSUME NEW n \in Nat PROVE Broadcasted(n) \in Event
BY DEF Broadcasted, Event

LEMMA CountType ==
  ASSUME happened \in Seq(Event), NEW kind, NEW from
  PROVE  Count(kind, from) \in Nat
<1>1. IsFiniteSet(DOMAIN happened)
  BY FS_Interval
<1>2. { i \in DOMAIN happened : happened[i].kind = kind /\ happened[i].from = from }
        \subseteq DOMAIN happened
  OBVIOUS
<1> QED
  BY <1>1, <1>2, FS_Subset, FS_CardinalityType DEF Count

LEMMA DeliverableTypes ==
  ASSUME happened \in Seq(Event), NEW e \in Deliverable
  PROVE  e \in Event
<1>1. Count("b", "self") \in Nat /\ Count("d", "self") \in Nat /\ Count("d", "other") \in Nat
  BY CountType
<1> QED
  BY <1>1, ConstantsAssumption DEF Deliverable, Delivered, Event

(***************************************************************************)
(* The inductive invariant.                                                *)
(***************************************************************************)
LogTypes ==
  /\ status \in {"running", "writing", "flushing", "exited", "failed"}
  /\ next_msg \in Nat
  /\ buffer \in Text
  /\ file \in Text
  /\ happened \in Seq(Event)

\* What exactly the buffer holds at each place of the main thread: whole lines of
\* all that happened, but for the line of the event being logged, which has not
\* all its insertions.
BufferByPlace ==
  LET n == Len(happened)
  IN  /\ Len(buffer) <= n
      /\ \A i \in 1 .. n : i < n \/ ~ LastUnlogged =>
           i <= Len(buffer) /\ buffer[i] = WholeLine(happened[i])
      /\ LastUnlogged =>
           /\ n > 0
           /\ Len(buffer) = n =>
                \E k \in 1 .. Insertions(happened[n]) - 1 : buffer[n] = Line(happened[n], k)
      /\ main = "sent" => happened[n] = Broadcasted(next_msg)

FileEndsWithBuffer ==
  status \in {"flushing", "exited"} => \E f \in Text : file = f \o buffer

IInv ==
  /\ LogTypes
  /\ BufferByPlace
  /\ FileEndsWithBuffer

LEMMA InitEstablishes == Init => IInv
<1> SUFFICES ASSUME Init PROVE IInv
  OBVIOUS
<1> USE DEF Init
<1>1. LogTypes
  BY DEF LogTypes, Text
<1>2. BufferByPlace
  BY DEF BufferByPlace, LastUnlogged
<1> QED
  BY <1>1, <1>2 DEF IInv, FileEndsWithBuffer

\* Most steps touch neither the log nor what it is about.
LEMMA MovesPreserve ==
  ASSUME IInv, UNCHANGED << next_msg, logVars, happened >>,
         status' = status \/ status' = "failed",
         main' = main \/ (~ LastUnlogged /\ ~ LastUnlogged')
  PROVE  IInv'
<1> USE DEF logVars
<1>1. LogTypes'
  BY DEF IInv, LogTypes
<1>2. BufferByPlace'
  BY DEF IInv, BufferByPlace, LastUnlogged
<1>3. FileEndsWithBuffer'
  BY DEF IInv, FileEndsWithBuffer
<1> QED
  BY <1>1, <1>2, <1>3 DEF IInv

\* An event occurs: it is the last one, and nothing of its line is there.
LEMMA EventPreserves ==
  ASSUME IInv, NEW e \in Event, happened' = Append(happened, e),
         ~ LastUnlogged, LastUnlogged', main' = "sent" => e = Broadcasted(next_msg),
         UNCHANGED << status, next_msg, logVars >>
  PROVE  IInv'
<1> DEFINE n == Len(happened)
<1> USE DEF logVars
<1>1. LogTypes' /\ happened \in Seq(Event) /\ buffer \in Text
  BY AppendProperties DEF IInv, LogTypes
<1>2. /\ Len(happened') = n + 1 /\ happened'[n + 1] = e
      /\ \A i \in 1 .. n : happened'[i] = happened[i]
  BY <1>1, AppendProperties
<1>3. Len(buffer) = n /\ \A i \in 1 .. n : buffer[i] = WholeLine(happened[i])
  <2>1. Len(buffer) \in Nat /\ n \in Nat /\ Len(buffer) <= n
    BY <1>1 DEF IInv, BufferByPlace, Text
  <2>2. \A i \in 1 .. n : i <= Len(buffer) /\ buffer[i] = WholeLine(happened[i])
    BY DEF IInv, BufferByPlace
  <2> QED
    BY <2>1, <2>2
<1>4. BufferByPlace'
  <2> SUFFICES /\ Len(buffer) <= n + 1
               /\ \A i \in 1 .. n + 1 : i < n + 1 =>
                    i <= Len(buffer) /\ buffer[i] = WholeLine(happened'[i])
               /\ n + 1 > 0 /\ Len(buffer) # n + 1
               /\ main' = "sent" => e = Broadcasted(next_msg)
    BY <1>2 DEF BufferByPlace, Broadcasted
  <2> QED
    BY <1>1, <1>2, <1>3
<1>5. FileEndsWithBuffer'
  BY DEF IInv, FileEndsWithBuffer
<1> QED
  BY <1>1, <1>4, <1>5 DEF IInv

\* What an insertion makes of the buffer.
LEMMA InsertionProperties ==
  ASSUME IInv, LastUnlogged, NEW e, e = happened[Len(happened)],
         NEW text, text = Inserted(buffer, e)
  PROVE  /\ e \in Event
         /\ text \in Text
         /\ Len(text) = Len(happened)
         /\ Last(text) = text[Len(text)]
         /\ \A i \in 1 .. Len(happened) - 1 : text[i] = WholeLine(happened[i])
         /\ \E k \in 1 .. Insertions(e) : text[Len(happened)] = Line(e, k)
<1> DEFINE n == Len(happened)
<1>1. /\ buffer \in Seq(TextLine) /\ Text = Seq(TextLine) /\ happened \in Seq(Event)
      /\ n \in Nat /\ n > 0 /\ Len(buffer) \in Nat /\ Len(buffer) <= n
  BY DEF IInv, LogTypes, BufferByPlace, Text, TextLine
<1>2. e \in Event
  BY <1>1
<1>3. \A i \in 1 .. n - 1 : i <= Len(buffer) /\ buffer[i] = WholeLine(happened[i])
  BY <1>1 DEF IInv, BufferByPlace
<1>4. Insertions(e) \in {3, 5}
  BY DEF Insertions
<1>5. Last(text) = text[Len(text)]
  BY Zenon DEF Last
<1>6. CASE Len(buffer) = n
  <2>1. PICK k \in 1 .. Insertions(e) - 1 : buffer[n] = Line(e, k)
    BY <1>6 DEF IInv, BufferByPlace
  <2>2. /\ buffer # << >> /\ Last(buffer) = Line(e, k)
        /\ Front(buffer) \in Seq(TextLine) /\ Len(Front(buffer)) = n - 1
        /\ \A i \in 1 .. n - 1 : Front(buffer)[i] = buffer[i]
    <3>1. buffer # << >>
      BY <1>1, <1>6
    <3>2. /\ Front(buffer) \in Seq(TextLine) /\ Len(Front(buffer)) = Len(buffer) - 1
          /\ \A i \in 1 .. Len(buffer) - 1 : Front(buffer)[i] = buffer[i]
          /\ Last(buffer) = buffer[Len(buffer)]
      BY <1>1, <3>1, FrontProperties
    <3> HIDE DEF n
    <3> QED
      BY <1>6, <2>1, <3>1, <3>2
  <2>3. ~ Whole(Last(buffer)) /\ Last(buffer).put = k /\ Line(e, k + 1) \in TextLine
    BY <1>2, <1>4, <2>1, <2>2, LineProperties
  <2>4. text = Append(Front(buffer), Line(e, k + 1))
    BY <2>2, <2>3 DEF Inserted
  <2>5. /\ text \in Seq(TextLine) /\ Len(text) = n /\ text[n] = Line(e, k + 1)
        /\ \A i \in 1 .. n - 1 : text[i] = buffer[i]
    <3> HIDE DEF n
    <3>1. /\ text \in Seq(TextLine) /\ Len(text) = Len(Front(buffer)) + 1
          /\ text[Len(Front(buffer)) + 1] = Line(e, k + 1)
          /\ \A i \in 1 .. Len(Front(buffer)) : text[i] = Front(buffer)[i]
      BY <2>2, <2>3, <2>4, AppendProperties
    <3>2. Len(Front(buffer)) + 1 = n
      BY <1>1, <2>2
    <3> QED
      BY <2>2, <3>1, <3>2
  <2> QED
    BY <1>1, <1>2, <1>3, <1>4, <1>5, <2>5
<1>7. CASE Len(buffer) # n
  <2>1. Len(buffer) = n - 1
    <3>1. n - 1 \in 1 .. n - 1 => n - 1 <= Len(buffer)
      BY <1>3
    <3> QED
      BY <1>1, <1>7, <3>1
  <2>2. buffer = << >> \/ Whole(Last(buffer))
    <3>1. ASSUME buffer # << >> PROVE Whole(Last(buffer))
      <4>1. Last(buffer) = buffer[n - 1] /\ n - 1 \in 1 .. n - 1
        <5>1. Last(buffer) = buffer[Len(buffer)]
          BY <1>1, <3>1, FrontProperties
        <5>2. Len(buffer) > 0
          BY <1>1, <3>1
        <5> HIDE DEF n
        <5> QED
          BY <1>1, <2>1, <5>1, <5>2
      <4>2. Last(buffer) = WholeLine(happened[n - 1]) /\ happened[n - 1] \in Event
        BY <1>1, <1>3, <4>1
      <4>3. Insertions(happened[n - 1]) \in 1 .. Insertions(happened[n - 1])
        BY DEF Insertions
      <4> QED
        BY <4>2, <4>3, LineProperties DEF WholeLine
    <3> QED
      BY <3>1
  <2>3. text = Append(buffer, Line(e, 1)) /\ 1 \in 1 .. Insertions(e) /\ Line(e, 1) \in TextLine
    BY <1>2, <1>4, <2>2, LineProperties DEF Inserted
  <2>4. /\ text \in Seq(TextLine) /\ Len(text) = n /\ text[n] = Line(e, 1)
        /\ \A i \in 1 .. n - 1 : text[i] = buffer[i]
    <3> HIDE DEF n
    <3>1. /\ text \in Seq(TextLine) /\ Len(text) = Len(buffer) + 1
          /\ text[Len(buffer) + 1] = Line(e, 1)
          /\ \A i \in 1 .. Len(buffer) : text[i] = buffer[i]
      BY <1>1, <2>3, AppendProperties
    <3>2. Len(buffer) + 1 = n
      BY <1>1, <2>1
    <3> QED
      BY <2>1, <3>1, <3>2
  <2> QED
    BY <1>1, <1>2, <1>3, <1>5, <2>3, <2>4
<1> QED
  BY <1>6, <1>7

\* An insertion completes the line or leaves the main thread where it is.
LEMMA InsertionPreserves ==
  ASSUME IInv, LastUnlogged, NEW e, e = happened[Len(happened)],
         buffer' = Inserted(buffer, e), UNCHANGED << status, file, happened >>,
         status = "running", next_msg' \in Nat,
         IF Whole(Last(buffer')) THEN ~ LastUnlogged' ELSE UNCHANGED << main, next_msg >>
  PROVE  IInv'
<1> DEFINE n == Len(happened)
<1>1. /\ e \in Event /\ buffer' \in Text /\ Len(buffer') = n
      /\ Last(buffer') = buffer'[n]
      /\ \A i \in 1 .. n - 1 : buffer'[i] = WholeLine(happened[i])
  BY InsertionProperties
<1>2. PICK k \in 1 .. Insertions(e) : buffer'[n] = Line(e, k)
  BY InsertionProperties
<1>3. n \in Nat /\ n > 0
  BY DEF IInv, LogTypes, BufferByPlace
<1>4. LogTypes' /\ FileEndsWithBuffer'
  BY <1>1 DEF IInv, LogTypes, FileEndsWithBuffer
<1>5. BufferByPlace'
  <2>1. CASE Whole(Last(buffer'))
    <3>1. buffer'[n] = WholeLine(happened[n])
      BY <1>1, <1>2, <2>1, LineProperties DEF WholeLine
    <3>2. ~ LastUnlogged' /\ main' # "sent"
      BY <2>1 DEF LastUnlogged
    <3> QED
      BY <1>1, <1>3, <3>1, <3>2 DEF BufferByPlace
  <2>2. CASE ~ Whole(Last(buffer'))
    <3>1. k \in 1 .. Insertions(e) - 1
      <4>1. k # Insertions(e) /\ Insertions(e) \in {3, 5}
        BY <1>1, <1>2, <2>2, LineProperties
      <4> QED
        BY <4>1
    <3>2. UNCHANGED << main, next_msg, happened >>
      BY <2>2
    <3>3. main' = "sent" => happened'[n] = Broadcasted(next_msg)'
      BY <3>2 DEF IInv, BufferByPlace, Broadcasted
    <3> QED
      BY <1>1, <1>2, <1>3, <3>1, <3>2, <3>3 DEF BufferByPlace, LastUnlogged
  <2> QED
    BY <2>1, <2>2
<1> QED
  BY <1>4, <1>5 DEF IInv

LEMMA LogBroadcastPreserves == ASSUME IInv, LogBroadcast PROVE IInv'
<1>1. /\ main = "sent" /\ status = "running" /\ UNCHANGED << status, file, happened >>
      /\ buffer' = Inserted(buffer, Broadcasted(next_msg))
      /\ IF Whole(Last(buffer')) THEN next_msg' = next_msg + 1 /\ main' = "broadcasting"
                                 ELSE UNCHANGED << next_msg, main >>
  BY DEF LogBroadcast, At
<1>2. Broadcasted(next_msg) = happened[Len(happened)] /\ next_msg \in Nat
  BY <1>1 DEF IInv, BufferByPlace, LogTypes
<1>3. next_msg' \in Nat /\ LastUnlogged
  BY <1>1, <1>2 DEF LastUnlogged
<1>4. IF Whole(Last(buffer')) THEN ~ LastUnlogged' ELSE UNCHANGED << main, next_msg >>
  BY <1>1 DEF LastUnlogged
<1> QED
  BY <1>1, <1>2, <1>3, <1>4, InsertionPreserves

LEMMA LogDeliveryPreserves == ASSUME IInv, LogDelivery PROVE IInv'
<1>1. /\ main = "logging" /\ status = "running"
      /\ UNCHANGED << status, next_msg, file, happened >>
      /\ buffer' = Inserted(buffer, Last(happened))
      /\ IF Whole(Last(buffer')) THEN main' \in {"writing", "handling"} ELSE main' = main
  BY DEF LogDelivery, At
<1>2. Last(happened) = happened[Len(happened)] /\ next_msg' \in Nat
  BY <1>1 DEF Last, IInv, LogTypes
<1>3. LastUnlogged
  BY <1>1 DEF LastUnlogged
<1>4. IF Whole(Last(buffer')) THEN ~ LastUnlogged' ELSE UNCHANGED << main, next_msg >>
  BY <1>1 DEF LastUnlogged
<1> QED
  BY <1>1, <1>2, <1>3, <1>4, InsertionPreserves

LEMMA CutsAreText == ASSUME NEW text \in Text, NEW t \in Cuts(text) PROVE t \in Text
<1>1. Text = Seq(TextLine)
  BY DEF Text, TextLine
<1>2. CASE t = << >>
  BY <1>1, <1>2
<1>3. ASSUME NEW k \in DOMAIN text, NEW j \in 1 .. text[k].put,
             t = Append(SubSeq(text, 1, k - 1), Line(text[k].event, j))
      PROVE  t \in Text
  <2>1. text[k] \in TextLine /\ k \in 1 .. Len(text)
    BY <1>1
  <2>2. Line(text[k].event, j) \in TextLine
    BY <2>1 DEF TextLine, Line
  <2>3. SubSeq(text, 1, k - 1) \in Seq(TextLine)
    BY <1>1, <2>1
  <2> QED
    BY <1>1, <1>3, <2>2, <2>3
<1> QED
  BY <1>2, <1>3 DEF Cuts

\* A flush by the main thread; a signal, which may cut it; the handler's flush,
\* which puts the buffer behind whatever is in the file.
LEMMA FilePreserves ==
  ASSUME IInv, WriteBuffer \/ stop \/ WriteInHandler
  PROVE  IInv'
<1>1. UNCHANGED << next_msg, buffer, happened >>
  BY DEF WriteBuffer, stop, WriteInHandler
<1>2. main' = main \/ (main = "writing" /\ main' = "flushing")
  BY DEF WriteBuffer, stop, WriteInHandler, At
<1>3. \E t \in Text : file' = file \o t
  <2>1. file \in Text /\ buffer \in Text /\ << >> \in Text /\ file \o << >> = file
    BY DEF IInv, LogTypes, Text
  <2>2. CASE WriteBuffer \/ WriteInHandler
    BY <2>1, <2>2 DEF WriteBuffer, WriteInHandler, Write
  <2>3. CASE stop
    <3>1. file' = file \/ \E t \in Cuts(buffer) : file' = file \o t
      BY <2>3 DEF stop
    <3> QED
      BY <2>1, <3>1, CutsAreText
  <2> QED
    BY <2>2, <2>3
<1>4. LogTypes'
  <2>1. file' \in Text
    BY <1>3 DEF IInv, LogTypes, Text
  <2>2. status' \in {"running", "writing", "flushing", "failed"}
    BY DEF WriteBuffer, stop, WriteInHandler, At
  <2> QED
    BY <1>1, <2>1, <2>2 DEF IInv, LogTypes
<1>5. BufferByPlace'
  BY <1>1, <1>2 DEF IInv, BufferByPlace, LastUnlogged
<1>6. FileEndsWithBuffer'
  <2>1. CASE WriteInHandler
    BY <2>1 DEF WriteInHandler, Write, FileEndsWithBuffer, IInv, LogTypes
  <2>2. CASE WriteBuffer \/ stop
    BY <2>2 DEF WriteBuffer, stop, At, FileEndsWithBuffer
  <2> QED
    BY <2>1, <2>2
<1> QED
  BY <1>4, <1>5, <1>6 DEF IInv

LEMMA ExitPreserves == ASSUME IInv, Exit PROVE IInv'
<1>1. /\ UNCHANGED << main, next_msg, buffer, file, happened >>
      /\ status = "flushing" /\ status' = "exited"
  BY DEF Exit, loopVars, logVars
<1>2. LogTypes'
  BY <1>1 DEF IInv, LogTypes
<1> QED
  BY <1>1, <1>2 DEF IInv, BufferByPlace, LastUnlogged, FileEndsWithBuffer

LEMMA NextPreserves == ASSUME IInv, [Next]_vars PROVE IInv'
<1>1. CASE Start
  <2> USE DEF GoOnIf, At, loopVars
  <2>1. /\ UNCHANGED << next_msg, logVars, happened >>
        /\ status' = status \/ status' = "failed"
    BY <1>1 DEF Start, Parse, ReadHosts, ReadConfig, OpenLog, OpenSocket, PassBarrier
  <2>2. main' = main \/ (~ LastUnlogged /\ ~ LastUnlogged')
    BY <1>1 DEF Start, Parse, ReadHosts, ReadConfig, OpenLog, OpenSocket, PassBarrier, LastUnlogged
  <2> QED
    BY <2>1, <2>2, MovesPreserve
<1>2. CASE ReceiveRationed \/ Finish \/ Receive \/ Handled \/ FlushFile
  <2>1. /\ UNCHANGED << status, next_msg, logVars, happened >>
        /\ ~ LastUnlogged /\ ~ LastUnlogged'
    BY <1>2 DEF ReceiveRationed, Finish, Receive, Handled, FlushFile, At, loopVars, LastUnlogged
  <2> QED
    BY <2>1, MovesPreserve
<1>3. CASE Send
  <2>1. /\ happened' = Append(happened, Broadcasted(next_msg))
        /\ ~ LastUnlogged /\ LastUnlogged' /\ UNCHANGED << status, next_msg, logVars >>
    BY <1>3 DEF Send, At, LastUnlogged
  <2>2. Broadcasted(next_msg) \in Event
    BY BroadcastType DEF IInv, LogTypes
  <2> QED
    BY <2>1, <2>2, EventPreserves
<1>4. CASE LogBroadcast
  BY <1>4, LogBroadcastPreserves
<1>5. CASE LogDelivery
  BY <1>5, LogDeliveryPreserves
<1>6. CASE WriteBuffer \/ stop \/ WriteInHandler
  BY <1>6, FilePreserves
<1>7. ASSUME NEW e \in Deliverable, Deliver(e) PROVE IInv'
  <2>1. /\ happened' = Append(happened, e) /\ main' = "logging"
        /\ ~ LastUnlogged /\ LastUnlogged' /\ UNCHANGED << status, next_msg, logVars >>
    BY <1>7 DEF Deliver, At, LastUnlogged
  <2>2. e \in Event
    BY DeliverableTypes DEF IInv, LogTypes
  <2> QED
    BY <2>1, <2>2, EventPreserves
<1>8. CASE Arrive \/ SocketFails \/ SecondSignal \/ UNCHANGED vars
  <2>1. /\ UNCHANGED << main, next_msg, logVars, happened >>
        /\ status' = status \/ status' = "failed"
    BY <1>8 DEF Arrive, SocketFails, SecondSignal, vars, loopVars
  <2> QED
    BY <2>1, MovesPreserve
<1>9. CASE Exit
  BY <1>9, ExitPreserves
<1> QED
  BY <1>1, <1>2, <1>3, <1>4, <1>5, <1>6, <1>7, <1>8, <1>9 DEF Next, Loop, Handler

(***************************************************************************)
(* The theorems.                                                           *)
(***************************************************************************)
\* The invariant holds of every process, whatever it is started with.
THEOREM InductiveInvariant == Spec => []IInv
<1> QED
  BY InitEstablishes, NextPreserves, PTL DEF Spec

LEMMA BufferIsLog == ASSUME IInv PROVE IsLog(buffer)
<1>1. buffer \in Seq(TextLine) /\ happened \in Seq(Event)
  BY DEF IInv, LogTypes, Text, TextLine
<1>2. ASSUME NEW i \in DOMAIN happened
      PROVE  \/ i \in DOMAIN buffer /\ buffer[i] = WholeLine(happened[i])
             \/ /\ LastUnlogged
                /\ i = Len(happened)
                /\ i \in DOMAIN buffer => buffer[i].event = happened[i]
  <2>1. CASE i < Len(happened) \/ ~ LastUnlogged
    BY <1>1, <2>1 DEF IInv, BufferByPlace
  <2>2. CASE LastUnlogged /\ i = Len(happened)
    <3>1. ASSUME i \in DOMAIN buffer PROVE buffer[i].event = happened[i]
      <4>1. Len(buffer) = i
        BY <1>1, <2>2, <3>1 DEF IInv, BufferByPlace
      <4>2. PICK k \in 1 .. Insertions(happened[i]) - 1 : buffer[i] = Line(happened[i], k)
        BY <2>2, <4>1 DEF IInv, BufferByPlace
      <4> QED
        BY <4>2 DEF Line
    <3> QED
      BY <2>2, <3>1
  <2> QED
    BY <1>1, <2>1, <2>2
<1> QED
  BY <1>2 DEF IsLog, IInv, BufferByPlace

\* The buffer is the history, line by line, at every step; only the line of the
\* last event may be on its way.
THEOREM LogIsTheHistory == Spec => []IsLog(buffer)
<1>1. IInv => IsLog(buffer)
  BY BufferIsLog
<1> QED
  BY <1>1, InductiveInvariant, PTL

\* The handler leaves a file that ends with the log of everything that happened
\* but for what was not yet logged of the last event, wherever the signal meets
\* the main thread: between two insertions, or inside a flush.
THEOREM StoppedLogIsComplete == Spec => []StoppedWithItsLog
<1>1. IInv => StoppedWithItsLog
  <2> SUFFICES ASSUME IInv, status = "exited"
               PROVE  \E k \in 0 .. Len(file) : IsLog(SubSeq(file, k + 1, Len(file)))
    BY DEF StoppedWithItsLog
  <2>1. PICK f \in Text : file = f \o buffer
    BY DEF IInv, FileEndsWithBuffer
  <2>2. f \in Seq(TextLine) /\ buffer \in Seq(TextLine)
    BY DEF IInv, LogTypes, Text, TextLine
  <2>3. Len(f) \in 0 .. Len(file) /\ SubSeq(file, Len(f) + 1, Len(file)) = buffer
    BY <2>1, <2>2, SecondPart
  <2>4. IsLog(SubSeq(file, Len(f) + 1, Len(file)))
    BY <2>3, BufferIsLog
  <2> QED
    BY <2>3, <2>4
<1> QED
  BY <1>1, InductiveInvariant, PTL

-----------------------------------------------------------------------------
(***************************************************************************)
(* What std::sort makes of entries whose keys are 1, ..., n.               *)
(***************************************************************************)
LEMMA LeastNumber ==
  ASSUME NEW T \in SUBSET Nat, T # {}
  PROVE  \E x \in T : \A y \in T : x <= y
<1>1. PICK x \in T : \A y \in T : ~ (<< y, x >> \in OpToRel(<, Nat))
  BY NatLessThanWellFounded, WFMin
<1>2. \A y \in T : ~ (y < x)
  BY <1>1 DEF OpToRel
<1> QED
  BY <1>2

\* A function onto 1, ..., n that never falls is the identity.
LEMMA RisingOnto ==
  ASSUME NEW n \in Nat, NEW g \in Surjection(1 .. n, 1 .. n),
         \A i, j \in 1 .. n : i < j => g[i] <= g[j]
  PROVE  \A i \in 1 .. n : g[i] = i
<1>1. g \in [1 .. n -> 1 .. n] /\ \A i \in 1 .. n : \E j \in 1 .. n : g[j] = i
  BY DEF Surjection
<1>2. \A i, j \in 1 .. n : g[i] = g[j] => i = j
  <2>1. IsFiniteSet(1 .. n)
    BY FS_Interval
  <2>2. g \in Injection(1 .. n, 1 .. n)
    BY <2>1, FS_Surjection
  <2> QED
    BY <1>1, <2>2 DEF Injection, IsInjective
<1> DEFINE Moved == { i \in 1 .. n : g[i] # i }
<1>3. ASSUME Moved # {} PROVE FALSE
  <2>1. Moved \in SUBSET Nat
    OBVIOUS
  <2>2. PICK i \in Moved : \A j \in Moved : i <= j
    BY <1>3, <2>1, LeastNumber
  <2>3. i \in 1 .. n /\ g[i] # i /\ g[i] \in 1 .. n /\ \A j \in 1 .. n : j < i => g[j] = j
    BY <1>1, <2>2
  <2>4. ~ (g[i] < i)
    BY <1>2, <2>3
  <2>5. PICK j \in 1 .. n : g[j] = i
    BY <1>1, <2>3
  <2>6. ~ (j < i) /\ j # i
    BY <2>3, <2>5
  <2>7. g[i] <= g[j]
    BY <2>3, <2>6
  <2> QED
    BY <2>3, <2>4, <2>5, <2>7
<1> QED
  BY <1>3

\* However many orders std::sort may choose from, there is only one left.
LEMMA SortedByNumber ==
  ASSUME NEW n \in Nat, NEW I, Cardinality(I) = n,
         NEW keys, { keys[l] : l \in I } = 1 .. n, NEW f \in Sorted(I, keys)
  PROVE  /\ DOMAIN f = 1 .. n
         /\ \A i \in 1 .. n : f[i] \in I /\ keys[f[i]] = i
<1>1. /\ f \in [1 .. n -> I]
      /\ \A l \in I : \E i \in 1 .. n : f[i] = l
      /\ \A i, j \in 1 .. n : i < j => keys[f[i]] <= keys[f[j]]
  BY DEF Sorted, Bijection, Surjection
<1> DEFINE g == [i \in 1 .. n |-> keys[f[i]]]
<1>2. g \in [1 .. n -> 1 .. n]
  BY <1>1
<1>3. \A k \in 1 .. n : \E i \in 1 .. n : g[i] = k
  <2> TAKE k \in 1 .. n
  <2>1. PICK l \in I : keys[l] = k
    OBVIOUS
  <2> QED
    BY <1>1, <2>1
<1>4. g \in Surjection(1 .. n, 1 .. n)
  BY <1>2, <1>3 DEF Surjection
<1>5. \A i, j \in 1 .. n : i < j => g[i] <= g[j]
  BY <1>1
<1> HIDE DEF g
<1>6. \A i \in 1 .. n : g[i] = i
  BY <1>4, <1>5, RisingOnto
<1> QED
  BY <1>1, <1>6 DEF g

-----------------------------------------------------------------------------
(***************************************************************************)
(* What a process reads.                                                   *)
(***************************************************************************)
LEMMA EntriesAreCounted ==
  ASSUME NEW lines \in Seq(Seq(Nat))
  PROVE  /\ Entries(lines) \subseteq 1 .. Len(lines)
         /\ Cardinality(Entries(lines)) \in Nat
<1>1. Entries(lines) \subseteq 1 .. Len(lines)
  BY DEF Entries
<1>2. IsFiniteSet(1 .. Len(lines))
  BY FS_Interval
<1> QED
  BY <1>1, <1>2, FS_Subset, FS_CardinalityType

LEMMA HeadAndRest ==
  ASSUME NEW s \in Seq(Nat), s # << >>,
         NEW r, r = [j \in 1 .. Len(s) - 1 |-> s[j + 1]]
  PROVE  s = << s[1] >> \o r
<1>1. Len(s) \in Nat /\ Len(s) - 1 \in Nat
  OBVIOUS
<1>2. \A j \in 1 .. Len(s) - 1 : j + 1 \in 1 .. Len(s)
  BY <1>1
<1>3. r \in [1 .. Len(s) - 1 -> Nat]
  BY <1>2
<1>4. r \in Seq(Nat) /\ Len(r) = Len(s) - 1
  BY <1>1, <1>3
<1>5. << s[1] >> \in Seq(Nat) /\ Len(<< s[1] >>) = 1 /\ << s[1] >>[1] = s[1]
  OBVIOUS
<1> DEFINE t == << s[1] >> \o r
<1>6. t \in Seq(Nat) /\ Len(t) = Len(s) /\ DOMAIN t = 1 .. Len(s)
  BY <1>4, <1>5
<1>7. \A i \in 1 .. Len(s) : t[i] = s[i]
  <2> TAKE i \in 1 .. Len(s)
  <2>1. CASE i = 1
    BY <1>4, <1>5, <2>1
  <2>2. CASE i # 1
    <3>1. t[i] = r[i - 1]
      BY <1>1, <1>4, <1>5, <2>2
    <3> QED
      BY <1>1, <2>2, <3>1
  <2> QED
    BY <2>1, <2>2
<1> HIDE DEF t
<1>8. s = t
  BY <1>6, <1>7
<1> QED
  BY <1>8 DEF t

LEMMA ByteArithmetic ==
  ASSUME NEW n \in Nat, n <= MAX_PROCESSES, NEW k \in 1 .. n
  PROVE  k % 256 = k /\ ((k - 1) % 256) + 1 = k
BY DEF MAX_PROCESSES

\* A line of the config that is as documented is read as it was meant.
LEMMA DependencyIsRead ==
  ASSUME NEW line \in Seq(Nat), line # << >>, NEW n \in Nat, n <= MAX_PROCESSES,
         ToSet(line) \subseteq 1 .. n
  PROVE  /\ parse_dependency(line).process = line[1]
         /\ LET depends == parse_dependency(line).depends
            IN  line = << line[1] >> \o [j \in DOMAIN depends |-> depends[j] + 1]
<1>1. Len(line) \in Nat /\ Len(line) >= 1 /\ Head(line) = line[1]
  OBVIOUS
<1>2. \A i \in 1 .. Len(line) : line[i] \in 1 .. n
  BY DEF ToSet
<1>3. parse_dependency(line).process = line[1]
  <2>1. line[1] % 256 = line[1]
    BY <1>1, <1>2, ByteArithmetic
  <2> QED
    BY <1>1, <2>1 DEF parse_dependency, FirstNumber
<1> DEFINE depends == parse_dependency(line).depends
<1>4. depends = [j \in 1 .. Len(line) - 1 |-> (line[j + 1] - 1) % 256]
  BY DEF parse_dependency
<1> HIDE DEF depends
<1>5. ASSUME NEW j \in 1 .. Len(line) - 1 PROVE depends[j] + 1 = line[j + 1]
  <2>1. line[j + 1] \in 1 .. n
    BY <1>1, <1>2
  <2>2. ((line[j + 1] - 1) % 256) + 1 = line[j + 1]
    BY <2>1, ByteArithmetic
  <2> QED
    BY <1>4, <2>2
<1>6. [j \in DOMAIN depends |-> depends[j] + 1] = [j \in 1 .. Len(line) - 1 |-> line[j + 1]]
  BY <1>4, <1>5
<1>7. line = << line[1] >> \o [j \in DOMAIN depends |-> depends[j] + 1]
  BY <1>6, HeadAndRest
<1> QED
  BY <1>3, <1>7 DEF depends

\* Of documented files, whatever the orders sorting may leave, ...
LEMMA HostsByNumber ==
  ASSUME NEW hostLines \in Seq(Seq(Nat)), NEW configLines, Documented(hostLines, configLines),
         NEW hs \in HostLists(hostLines), NEW i \in 1 .. Cardinality(Entries(hostLines))
  PROVE  \E l \in Entries(hostLines) : hostLines[l][1] = i /\ hs[i] = HostOf(hostLines[l])
<1> DEFINE I == Entries(hostLines)
           n == Cardinality(I)
           keys == [l \in I |-> HostOf(hostLines[l]).id]
<1>1. n \in Nat
  BY EntriesAreCounted
<1>2. PICK f \in Sorted(I, keys) : hs = [k \in DOMAIN f |-> HostOf(hostLines[f[k]])]
  BY DEF HostLists
<1>3. \A l \in I : keys[l] = hostLines[l][1]
  BY DEF HostOf
<1>4. { hostLines[l][1] : l \in I } = 1 .. n /\ Cardinality(I) = n
  BY DEF Documented
<1> HIDE DEF keys, I, n
<1>5. { keys[l] : l \in I } = 1 .. n
  BY <1>3, <1>4
<1>6. DOMAIN f = 1 .. n /\ \A k \in 1 .. n : f[k] \in I /\ keys[f[k]] = k
  BY <1>1, <1>4, <1>5, SortedByNumber
<1>7. f[i] \in I /\ keys[f[i]] = i /\ i \in DOMAIN f
  BY <1>6 DEF I, n
<1> QED
  BY <1>2, <1>3, <1>7 DEF I

\* ... each host and each line of dependencies stands at its own place.
LEMMA DependenciesByNumber ==
  ASSUME NEW hostLines \in Seq(Seq(Nat)), NEW configLines \in Seq(Seq(Nat)),
         Documented(hostLines, configLines),
         NEW ds \in DependencyLists(configLines), NEW i \in 1 .. Cardinality(Entries(hostLines))
  PROVE  \E l \in 2 .. Len(configLines) :
           configLines[l] = << i >> \o [j \in DOMAIN ds[i].depends |-> ds[i].depends[j] + 1]
<1> DEFINE n == Cardinality(Entries(hostLines))
           I == 2 .. Len(configLines)
           keys == [l \in I |-> parse_dependency(configLines[l]).process]
<1>1. n \in Nat /\ n <= MAX_PROCESSES /\ Len(configLines) = n + 1
  BY EntriesAreCounted DEF Documented
<1>2. PICK f \in Sorted(I, keys) : ds = [k \in DOMAIN f |-> parse_dependency(configLines[f[k]])]
  BY DEF DependencyLists
<1>3. ASSUME NEW l \in I
      PROVE  /\ keys[l] = configLines[l][1]
             /\ LET depends == parse_dependency(configLines[l]).depends
                IN  configLines[l] =
                      << configLines[l][1] >> \o [j \in DOMAIN depends |-> depends[j] + 1]
  <2>1. /\ configLines[l] \in Seq(Nat) /\ configLines[l] # << >>
        /\ ToSet(configLines[l]) \subseteq 1 .. n
    <3>1. l \in 2 .. n + 1 /\ l \in 1 .. Len(configLines)
      BY <1>1
    <3>2. Len(configLines[l]) \in 1 .. n /\ ToSet(configLines[l]) \subseteq 1 .. n
      BY <3>1 DEF Documented
    <3> QED
      BY <3>1, <3>2
  <2> QED
    BY <1>1, <2>1, DependencyIsRead
<1>4. { configLines[l][1] : l \in I } = 1 .. n /\ I = 2 .. n + 1
  BY <1>1 DEF Documented
<1> HIDE DEF keys, I, n
<1>5. { keys[l] : l \in I } = 1 .. n
  <2>1. \A l \in I : keys[l] = configLines[l][1]
    BY <1>3
  <2> QED
    BY <1>4, <2>1
<1>6. Cardinality(I) = n
  <2>1. Cardinality(2 .. n + 1) = IF 2 > n + 1 THEN 0 ELSE (n + 1) - 2 + 1
    BY <1>1, FS_Interval
  <2> QED
    BY <1>1, <1>4, <2>1
<1>7. n \in Nat
  BY <1>1
<1>8. DOMAIN f = 1 .. n /\ \A k \in 1 .. n : f[k] \in I /\ keys[f[k]] = k
  BY <1>5, <1>6, <1>7, SortedByNumber
<1>9. f[i] \in I /\ keys[f[i]] = i /\ ds[i] = parse_dependency(configLines[f[i]])
  BY <1>2, <1>8 DEF n
<1> QED
  BY <1>3, <1>9 DEF I

(***************************************************************************)
(* What the process has read stays what its files say.                     *)
(***************************************************************************)
BeforeHosts == {"parse", "hosts"}

FilesRead ==
  LET hostLines == input.files[hostsPath(input.argv)]
      configLines == input.files[configPath(input.argv)]
  IN  /\ input \in Inputs
      /\ main \notin BeforeHosts =>
           /\ hostsPath(input.argv) \in DOMAIN input.files
           /\ HostsAccepted(hostLines)
           /\ hosts \in HostLists(hostLines)
      /\ main \notin BeforeHosts \cup {"config"} =>
           /\ configPath(input.argv) \in DOMAIN input.files
           /\ num_messages = parse_message_num(configLines)
           /\ config.deps \in DependencyLists(configLines)

LEMMA FilesReadInductive == ASSUME FilesRead, [Next]_vars PROVE FilesRead'
<1> USE DEF FilesRead, BeforeHosts, num_messages, At, GoOnIf
<1>1. input' = input
  BY DEF Next, vars, startVars, Start, Parse, ReadHosts, ReadConfig, OpenLog, OpenSocket,
         PassBarrier, Loop, ReceiveRationed, Send, LogBroadcast, Finish, Receive, LogDelivery,
         WriteBuffer, FlushFile, Handled, Deliver, Arrive, SocketFails, Handler, stop,
         WriteInHandler, Exit, SecondSignal
<1>2. CASE Parse
  BY <1>2 DEF Parse
<1>3. CASE ReadHosts
  BY <1>1, <1>3 DEF ReadHosts
<1>4. CASE ReadConfig
  <2>1. CASE configPath(input.argv) \in DOMAIN input.files
    <3>1. config' \in [num_messages : {parse_message_num(input.files[configPath(input.argv)])},
                       deps : DependencyLists(input.files[configPath(input.argv)])]
      BY <1>4, <2>1 DEF ReadConfig
    <3>2. /\ config'.num_messages = parse_message_num(input.files[configPath(input.argv)])
          /\ config'.deps \in DependencyLists(input.files[configPath(input.argv)])
      BY <3>1
    <3> QED
      BY <1>1, <1>4, <2>1, <3>2 DEF ReadConfig
  <2>2. CASE configPath(input.argv) \notin DOMAIN input.files
    BY <1>1, <1>4, <2>2 DEF ReadConfig
  <2> QED
    BY <2>1, <2>2
<1>5. CASE ~ (Parse \/ ReadHosts \/ ReadConfig)
  <2>1. hosts' = hosts /\ config' = config
    BY <1>5 DEF Next, vars, startVars, Start, OpenLog, OpenSocket, PassBarrier, Loop,
                ReceiveRationed, Send, LogBroadcast, Finish, Receive, LogDelivery, WriteBuffer,
                FlushFile, Handled, Deliver, Arrive, SocketFails, Handler, stop,
                WriteInHandler, Exit, SecondSignal
  <2>2. \/ main' = main
        \/ main \notin BeforeHosts \cup {"config"}
    BY <1>5 DEF Next, vars, startVars, Start, OpenLog, OpenSocket, PassBarrier, Loop,
                ReceiveRationed, Send, LogBroadcast, Finish, Receive, LogDelivery, WriteBuffer,
                FlushFile, Handled, Deliver, Arrive, SocketFails, Handler, stop,
                WriteInHandler, Exit, SecondSignal
  <2> QED
    BY <1>1, <2>1, <2>2
<1> QED
  BY <1>2, <1>3, <1>4, <1>5

\* Of documented files, in whatever order their lines are, each process gets the
\* host and the dependencies that stand in the files under its number.
THEOREM FilesByProcess == Spec => []FilesAreReadByProcess
<1>1. Init => FilesRead
  BY DEF Init, FilesRead, BeforeHosts
<1>2. FilesRead => FilesAreReadByProcess
  <2> DEFINE hostLines == input.files[hostsPath(input.argv)]
             configLines == input.files[configPath(input.argv)]
  <2> SUFFICES ASSUME FilesRead, main \in InLoop, Documented(hostLines, configLines),
                      NEW i \in 1 .. Cardinality(Entries(hostLines))
               PROVE  /\ \E l \in Entries(hostLines) :
                           hostLines[l][1] = i /\ hosts[i] = HostOf(hostLines[l])
                      /\ \E l \in 2 .. Len(configLines) :
                           configLines[l] = << i >> \o [j \in DOMAIN config.deps[i].depends |->
                                                         config.deps[i].depends[j] + 1]
    BY DEF FilesAreReadByProcess
  <2>1. /\ hostsPath(input.argv) \in DOMAIN input.files /\ hosts \in HostLists(hostLines)
        /\ configPath(input.argv) \in DOMAIN input.files
        /\ config.deps \in DependencyLists(configLines)
    BY DEF FilesRead, BeforeHosts, InLoop
  <2>2. hostLines \in Seq(Seq(Nat)) /\ configLines \in Seq(Seq(Nat))
    BY <2>1, InputsAssumption DEF FilesRead
  <2> HIDE DEF hostLines, configLines
  <2>3. \E l \in Entries(hostLines) : hostLines[l][1] = i /\ hosts[i] = HostOf(hostLines[l])
    BY <2>1, <2>2, HostsByNumber
  <2>4. \E l \in 2 .. Len(configLines) :
           configLines[l] = << i >> \o [j \in DOMAIN config.deps[i].depends |->
                                         config.deps[i].depends[j] + 1]
    BY <2>1, <2>2, DependenciesByNumber
  <2> QED
    BY <2>3, <2>4
<1> QED
  BY <1>1, <1>2, FilesReadInductive, PTL DEF Spec

(***************************************************************************)
(* Types, and that the loop does not pass the last message.                *)
(***************************************************************************)
HostType == [id : Nat, ip : Nat, port : Nat]
DependencyType == [process : 0 .. 255, depends : Seq(0 .. 255)]

LEMMA HostListTypes ==
  ASSUME NEW lines \in Seq(Seq(Nat)), HostsAccepted(lines), NEW hs \in HostLists(lines)
  PROVE  hs \in Seq(HostType)
<1> DEFINE n == Cardinality(Entries(lines))
<1>1. PICK f \in Bijection(1 .. n, Entries(lines)) : hs = [k \in DOMAIN f |-> HostOf(lines[f[k]])]
  BY DEF HostLists, Sorted
<1>2. f \in [1 .. n -> Entries(lines)]
  BY <1>1 DEF Bijection, Injection
<1>3. \A l \in Entries(lines) : HostOf(lines[l]) \in HostType
  <2> TAKE l \in Entries(lines)
  <2>1. lines[l] \in Seq(Nat) /\ Len(lines[l]) >= 3
    BY DEF HostsAccepted, Entries
  <2>2. lines[l][1] \in Nat /\ lines[l][2] \in Nat /\ lines[l][3] \in Nat
    BY <2>1
  <2> QED
    BY <2>2 DEF HostOf, HostType
<1>4. n \in Nat
  BY EntriesAreCounted
<1> HIDE DEF n
<1>5. hs \in [1 .. n -> HostType]
  BY <1>1, <1>2, <1>3
<1> QED
  BY <1>4, <1>5

LEMMA ByteRange == ASSUME NEW k \in Int PROVE k % 256 \in 0 .. 255
OBVIOUS

LEMMA DependencyListTypes ==
  ASSUME NEW lines \in Seq(Seq(Nat)), NEW ds \in DependencyLists(lines)
  PROVE  ds \in Seq(DependencyType)
<1> DEFINE n == Cardinality(2 .. Len(lines))
<1>1. PICK f \in Bijection(1 .. n, 2 .. Len(lines)) :
             ds = [k \in DOMAIN f |-> parse_dependency(lines[f[k]])]
  BY DEF DependencyLists, Sorted
<1>2. f \in [1 .. n -> 2 .. Len(lines)]
  BY <1>1 DEF Bijection, Injection
<1>3. \A l \in 2 .. Len(lines) : parse_dependency(lines[l]) \in DependencyType
  <2> TAKE l \in 2 .. Len(lines)
  <2>1. lines[l] \in Seq(Nat)
    OBVIOUS
  <2>2. FirstNumber(lines[l]) \in Int
    BY <2>1 DEF FirstNumber
  <2>3. FirstNumber(lines[l]) % 256 \in 0 .. 255
    BY <2>2, ByteRange
  <2>4. [i \in 1 .. Len(lines[l]) - 1 |-> (lines[l][i + 1] - 1) % 256] \in Seq(0 .. 255)
    <3> DEFINE k == Len(lines[l]) - 1
    <3>1. \A i \in 1 .. k : (lines[l][i + 1] - 1) % 256 \in 0 .. 255
      <4> TAKE i \in 1 .. k
      <4>1. lines[l][i + 1] - 1 \in Int
        BY <2>1
      <4> QED
        BY <4>1, ByteRange
    <3>2. k \in Int
      BY <2>1
    <3> HIDE DEF k
    <3>3. PICK m \in Nat : 1 .. k = 1 .. m
      <4>1. CASE k > 0
        <5>1. k \in Nat
          BY <3>2, <4>1
        <5> QED
          BY <5>1, Zenon
      <4>2. CASE ~ (k > 0)
        <5>1. 1 .. k = 1 .. 0
          BY <3>2, <4>2
        <5> QED
          BY <5>1
      <4> QED
        BY <4>1, <4>2
    <3>4. \A i \in 1 .. m : (lines[l][i + 1] - 1) % 256 \in 0 .. 255
      BY <3>1, <3>3
    <3>5. [i \in 1 .. m |-> (lines[l][i + 1] - 1) % 256] \in Seq(0 .. 255)
      BY <3>4
    <3>6. [i \in 1 .. k |-> (lines[l][i + 1] - 1) % 256] \in Seq(0 .. 255)
      BY <3>3, <3>5, Zenon
    <3> QED
      BY <3>6 DEF k
  <2> QED
    BY <2>3, <2>4 DEF parse_dependency, DependencyType
<1>4. n \in Nat
  BY FS_Interval, FS_CardinalityType
<1> HIDE DEF n
<1>5. ds \in [1 .. n -> DependencyType]
  BY <1>1, <1>2, <1>3
<1> QED
  BY <1>4, <1>5

Numbers ==
  /\ main \in {"parse", "hosts", "config", "log", "socket"} \cup Receiving
  /\ num_messages \in Nat
  /\ next_msg \in 0 .. num_messages
  /\ subsequent_recvs \in 0 .. num_messages
  /\ main \in {"parse", "hosts", "config"} => next_msg = 0 /\ subsequent_recvs = 0
  /\ main = "sent" => next_msg < num_messages
  /\ message_queue \in 0 .. QueueBound

Typed ==
  /\ input \in Inputs
  /\ hosts \in Seq(HostType)
  /\ config \in [num_messages : Nat, deps : Seq(DependencyType)]
  /\ Numbers

LEMMA TypedInit == Init => Typed
<1> SUFFICES ASSUME Init PROVE Typed
  OBVIOUS
<1>1. config = [num_messages |-> 0, deps |-> << >>]
  BY DEF Init
<1>2. config \in [num_messages : Nat, deps : Seq(DependencyType)] /\ num_messages = 0
  BY <1>1 DEF num_messages
<1>3. Numbers
  BY <1>2, ConstantsAssumption DEF Init, Numbers
<1> QED
  BY <1>2, <1>3 DEF Init, Typed

LEMMA StartKeepsTyped == ASSUME Typed, Start PROVE Typed'
<1> USE DEF At, GoOnIf, loopVars, startVars
<1>1. input' = input /\ message_queue' = message_queue
  BY DEF Start, Parse, ReadHosts, ReadConfig, OpenLog, OpenSocket, PassBarrier
<1>2. hosts' \in Seq(HostType)
  <2>1. CASE ReadHosts /\ hosts' # hosts
    <3> DEFINE lines == input.files[hostsPath(input.argv)]
    <3>1. hostsPath(input.argv) \in DOMAIN input.files /\ HostsAccepted(lines) /\ hosts' \in HostLists(lines)
      BY <2>1 DEF ReadHosts
    <3>2. lines \in Seq(Seq(Nat))
      BY <3>1, InputsAssumption DEF Typed
    <3> QED
      BY <3>1, <3>2, HostListTypes
  <2>2. CASE hosts' = hosts
    BY <2>2 DEF Typed
  <2> QED
    BY <2>1, <2>2 DEF Start, Parse, ReadConfig, OpenLog, OpenSocket, PassBarrier
<1>3. config' \in [num_messages : Nat, deps : Seq(DependencyType)]
  <2>1. CASE ReadConfig /\ config' # config
    <3> DEFINE lines == input.files[configPath(input.argv)]
    <3>1. configPath(input.argv) \in DOMAIN input.files
          /\ config' \in [num_messages : {parse_message_num(lines)}, deps : DependencyLists(lines)]
      BY <2>1 DEF ReadConfig
    <3>2. lines \in Seq(Seq(Nat))
      BY <3>1, InputsAssumption DEF Typed
    <3> HIDE DEF lines
    <3>3. parse_message_num(lines) \in Nat
      BY <3>2 DEF parse_message_num, FirstNumber
    <3>4. DependencyLists(lines) \subseteq Seq(DependencyType)
      BY <3>2, DependencyListTypes
    <3> QED
      BY <3>1, <3>3, <3>4
  <2>2. CASE config' = config
    BY <2>2 DEF Typed
  <2> QED
    BY <2>1, <2>2 DEF Start, Parse, ReadHosts, OpenLog, OpenSocket, PassBarrier
<1>4. num_messages' \in Nat
  BY <1>3 DEF num_messages
<1>5. Numbers'
  <2>1. CASE ReadConfig
    BY <1>4, <2>1 DEF ReadConfig, Typed, Numbers
  <2>2. CASE Parse \/ ReadHosts \/ OpenLog \/ OpenSocket \/ PassBarrier
    <3>1. num_messages' = num_messages
      BY <2>2 DEF Parse, ReadHosts, OpenLog, OpenSocket, PassBarrier, num_messages
    <3> QED
      BY <2>2, <3>1 DEF Parse, ReadHosts, OpenLog, OpenSocket, PassBarrier, Typed, Numbers,
                        Receiving, InLoop
  <2> QED
    BY <2>1, <2>2 DEF Start
<1> QED
  BY <1>1, <1>2, <1>3, <1>5 DEF Typed

LEMMA TypedInductive == ASSUME Typed, [Next]_vars PROVE Typed'
<1>1. CASE Start
  BY <1>1, StartKeepsTyped
<1>2. CASE ~ Start
  <2>1. UNCHANGED << input, hosts, config >>
    BY <1>2 DEF Next, vars, startVars, Loop, ReceiveRationed, Send, LogBroadcast, Finish, Receive,
                LogDelivery, WriteBuffer, FlushFile, Handled, Deliver, Arrive, SocketFails,
                Handler, stop, WriteInHandler, Exit, SecondSignal
  <2>2. num_messages' = num_messages
    BY <2>1 DEF num_messages
  <2> USE ConstantsAssumption DEF At, loopVars, Typed, Numbers, Receiving, InLoop
  <2>3. ASSUME Loop PROVE Numbers'
    BY <2>2, <2>3 DEF Loop, ReceiveRationed, MayReceive, RationUsed, RationRenewed,
                      MoreToBroadcast, Send, LogBroadcast, Finish, Receive, LogDelivery,
                      WriteBuffer, FlushFile, Handled
  <2>4. ASSUME UNCHANGED vars \/ Arrive \/ SocketFails \/ Handler \/ \E e \in Deliverable : Deliver(e)
        PROVE  Numbers'
    BY <2>2, <2>4 DEF vars, Arrive, SocketFails, Handler, stop, WriteInHandler, Exit, SecondSignal, Deliver
  <2>5. Numbers'
    BY <1>2, <2>3, <2>4 DEF Next
  <2> QED
    BY <2>1, <2>5
<1> QED
  BY <1>1, <1>2

\* Whatever the files say, every variable has its type; the loop's number does
\* not pass the number of messages.
THEOREM TypeCorrect == Spec => []TypeOK
<1>1. Typed /\ IInv => TypeOK
  BY DEF Typed, Numbers, HostType, DependencyType, IInv, LogTypes, TypeOK
<1> QED
  BY <1>1, TypedInit, TypedInductive, InductiveInvariant, PTL DEF Spec

=============================================================================
