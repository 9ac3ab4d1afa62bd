--------------------------- MODULE Online_proofs ---------------------------
(***************************************************************************)
(* The safety of the four parts of MCOnline, for every number of attempts, *)
(* threads and pieces, every length of a body and of an answer, every life *)
(* of a token and every time zone.                                         *)
(***************************************************************************)
EXTENDS MCOnline, TLAPS

-----------------------------------------------------------------------------
(***************************************************************************)
(* The HTTP request. An attempt that has not begun has done nothing        *)
(* (Order); until a thread writes where Start has been, the result that a  *)
(* waiting Start finds is the outcome of its own thread (Posted); as long  *)
(* as no transfer outlasts its timeout only one thread is at its transfer, *)
(* its handle is open and the Connection alive (Timely), so that the body  *)
(* and the position in the request, which all attempts share, are of this  *)
(* one (Exchanged).                                                        *)
(***************************************************************************)
Deciding == {"loop", "waiting", "judging"}

Begun(n) == n < attempt \/ (n = attempt /\ caller # "loop")

Order ==
    /\ \A n \in Attempts : ~Begun(n) =>
         /\ try[n].thread = "none" /\ try[n].sent = <<>> /\ try[n].received = 0
    /\ conn.alive <=> caller \in Deciding

Published == {"notifying", "ended"}

Posted ==
    caller = "waiting" /\ frame.result # "LAST" /\ ~frame.strayed =>
        try[attempt].thread \in Published /\ frame.result = try[attempt].outcome

Judged ==
    /\ caller = "judging" /\ conn.result = "OK" /\ ~frame.strayed =>
         try[attempt].outcome = "OK" /\ try[attempt].thread \in Published
    /\ OwnAnswer

Timely ==
    /\ \A n \in Attempts : ~try[n].expired
    /\ \A n \in Attempts : n < attempt => try[n].thread \in Published
    /\ caller \notin {"loop", "waiting"} =>
         try[attempt].thread \in {"none"} \union Published
    /\ caller = "judging" => try[attempt].thread \in Published
    /\ caller \in Deciding => \A n \in Attempts : n >= attempt => try[n].open
    /\ ~conn.misused /\ ~frame.strayed

Exchanged ==
    /\ try[attempt].thread = "performing" =>
         /\ try[attempt].sent = [i \in 1 .. conn.readLength |-> i]
         /\ conn.body = [i \in 1 .. try[attempt].received |-> attempt]
         /\ try[attempt].received > 0 => conn.readLength = BodyLen
    /\ /\ try[attempt].thread \in {"performed", "publishing"} \union Published
       /\ try[attempt].outcome = "OK"
       => /\ try[attempt].sent = Whole
          /\ conn.body = [i \in 1 .. AnswerLen |-> attempt]

ReqInv == ReqTypeOK /\ Order /\ Posted /\ Judged /\ (~overrun => Timely /\ Exchanged)

ThreadStep(n) ==
    \/ ReadBody(n) \/ SeekBody(n) \/ WriteBody(n)
    \/ Answered(n) \/ Broken(n) \/ CallsFreed(n)
    \/ InTime(n) \/ TooLate(n) \/ Publish(n) \/ Notify(n)

TryType == [thread : Threads, outcome : Results, expired : BOOLEAN, open : BOOLEAN,
            sent : Seq(1 .. BodyLen), received : 0 .. AnswerLen]
ConnType == [result : Results, body : Seq(Attempts), readLength : 0 .. BodyLen,
             alive : BOOLEAN, misused : BOOLEAN]
FrameType == [result : Results, strayed : BOOLEAN]

USE RequestAssumption DEF Attempts, Published

LEMMA ReqInitInv == ReqInit => ReqInv
<1> SUFFICES ASSUME ReqInit PROVE ReqInv
  OBVIOUS
<1>1. 1 \in Attempts /\ conn.readLength = 0 /\ conn.body = <<>>
  BY DEF ReqInit
<1>2. \A n \in Attempts :
         try[n] = [thread |-> "none", outcome |-> "LAST", expired |-> FALSE,
                   open |-> TRUE, sent |-> <<>>, received |-> 0]
  BY DEF ReqInit
<1>3. ReqTypeOK
  <2>0. <<>> \in Seq(1 .. BodyLen) /\ 0 \in 0 .. AnswerLen OBVIOUS
  <2>3. [thread |-> "none", outcome |-> "LAST", expired |-> FALSE,
         open |-> TRUE, sent |-> <<>>, received |-> 0] \in TryType
    BY <2>0 DEF TryType, Threads, Results
  <2>1. \A n \in Attempts : try[n] \in TryType BY <1>2, <2>3
  <2>2. conn \in ConnType /\ frame \in FrameType
    BY DEF ReqInit, ConnType, FrameType, Results
  <2> QED BY <1>1, <2>1, <2>2 DEF ReqInit, ReqTypeOK, TryType, ConnType, FrameType
<1>4. Order BY <1>1, <1>2 DEF ReqInit, Order, Deciding
<1>5. Posted /\ Judged BY <1>1, <1>2 DEF ReqInit, Posted, Judged, OwnAnswer
<1>6. Timely BY <1>1, <1>2 DEF ReqInit, Timely
<1>7. Exchanged BY <1>1, <1>2 DEF ReqInit, Exchanged
<1> QED BY <1>3, <1>4, <1>5, <1>6, <1>7 DEF ReqInv

\* A step of a thread changes its own record, three fields of the Connection and, when
\* it publishes, the frame of Start.
LEMMA ThreadChanges ==
    ASSUME ReqTypeOK, NEW n \in Attempts, ThreadStep(n)
    PROVE  /\ ReqTypeOK' /\ UNCHANGED <<Callers, overrun>>
           /\ \A m \in Attempts \ {n} : try'[m] = try[m]
           /\ try[n].thread \in {"performing", "performed", "publishing", "notifying"}
           /\ Publish(n) \/ frame' = frame
           /\ conn'.alive = conn.alive /\ conn'.result = conn.result
<1>1. try[n] \in TryType /\ conn \in ConnType /\ frame \in FrameType
  BY DEF ReqTypeOK, TryType, ConnType, FrameType
<1>2. ASSUME NEW r \in TryType, try' = [try EXCEPT ![n] = r], conn' \in ConnType,
             frame' \in FrameType, UNCHANGED <<Callers, overrun>>
      PROVE  ReqTypeOK' /\ \A m \in Attempts \ {n} : try'[m] = try[m]
  <2>1. try' \in [Attempts -> TryType] BY <1>2 DEF ReqTypeOK, TryType
  <2>2. \A m \in Attempts \ {n} : try'[m] = try[m] BY <1>2 DEF ReqTypeOK
  <2> QED BY <1>2, <2>1, <2>2 DEF ReqTypeOK, TryType, ConnType, FrameType, Callers
<1>3. CASE ReadBody(n)
  <2>1. conn.readLength + 1 \in 1 .. BodyLen /\ conn.readLength + 1 \in 0 .. BodyLen
    BY <1>3 DEF ReadBody, ReqTypeOK
  <2>2. Append(try[n].sent, conn.readLength + 1) \in Seq(1 .. BodyLen)
    BY <2>1, <1>1 DEF TryType
  <2> DEFINE r == [try[n] EXCEPT !.sent = Append(@, conn.readLength + 1)]
  <2>3. r \in TryType BY <1>1, <2>2 DEF TryType
  <2>4. conn' \in ConnType BY <1>1, <1>3, <2>1 DEF ConnType, ReadBody
  <2>5. try' = [try EXCEPT ![n] = r] BY <1>3 DEF ReadBody, ReqTypeOK
  <2> QED BY <1>1, <1>2, <1>3, <2>3, <2>4, <2>5 DEF ReadBody, Transferring, ConnType, Others
<1>4. CASE SeekBody(n)
  <2> DEFINE r == [try[n] EXCEPT !.sent = <<>>]
  <2>1. <<>> \in Seq(1 .. BodyLen) /\ 0 \in 0 .. BodyLen OBVIOUS
  <2>3. r \in TryType BY <1>1, <2>1 DEF TryType
  <2>4. conn' \in ConnType BY <1>1, <1>4, <2>1 DEF ConnType, SeekBody
  <2>5. try' = [try EXCEPT ![n] = r] BY <1>4 DEF SeekBody, ReqTypeOK
  <2> QED BY <1>1, <1>2, <1>4, <2>3, <2>4, <2>5 DEF SeekBody, Transferring, ConnType, Others
<1>5. CASE WriteBody(n)
  <2> DEFINE r == [try[n] EXCEPT !.received = @ + 1]
  <2>1. try[n].received + 1 \in 0 .. AnswerLen BY <1>1, <1>5 DEF WriteBody, TryType
  <2>2. Append(conn.body, n) \in Seq(Attempts) BY <1>1 DEF ConnType
  <2>3. r \in TryType BY <1>1, <2>1 DEF TryType
  <2>4. conn' \in ConnType BY <1>1, <1>5, <2>2 DEF ConnType, WriteBody
  <2>5. try' = [try EXCEPT ![n] = r] BY <1>5 DEF WriteBody, ReqTypeOK
  <2> QED BY <1>1, <1>2, <1>5, <2>3, <2>4, <2>5 DEF WriteBody, Transferring, ConnType,
             Others
<1>6. ASSUME NEW o \in {"OK", "ERR"}, Performed(n, o)
      PROVE  /\ ReqTypeOK' /\ \A m \in Attempts \ {n} : try'[m] = try[m]
             /\ UNCHANGED <<Others, conn, overrun>> /\ try[n].thread = "performing"
  <2> DEFINE r == [try[n] EXCEPT !.thread = "performed", !.outcome = o]
  <2>3. r \in TryType BY <1>1 DEF TryType, Threads, Results
  <2>4. conn' \in ConnType BY <1>1, <1>6 DEF Performed
  <2>5. try' = [try EXCEPT ![n] = r] BY <1>6 DEF Performed, ReqTypeOK
  <2> QED BY <1>1, <1>2, <1>6, <2>3, <2>4, <2>5 DEF Performed, Transferring, Others
<1>7. CASE Answered(n) \/ Broken(n)
  BY <1>6, <1>7 DEF Answered, Broken, Others
<1>8. CASE CallsFreed(n)
  <2> DEFINE r == [try[n] EXCEPT !.thread = "ended"]
  <2>3. r \in TryType BY <1>1 DEF TryType, Threads
  <2>4. conn' \in ConnType BY <1>1, <1>8 DEF CallsFreed, ConnType
  <2>5. try' = [try EXCEPT ![n] = r] BY <1>8 DEF CallsFreed, ReqTypeOK
  <2> QED BY <1>1, <1>2, <1>8, <2>3, <2>4, <2>5 DEF CallsFreed, ConnType, Others
<1>9. CASE InTime(n)
  <2> DEFINE r == [try[n] EXCEPT !.thread = "publishing"]
  <2>3. r \in TryType BY <1>1 DEF TryType, Threads
  <2>4. conn' \in ConnType BY <1>1, <1>9 DEF InTime
  <2>5. try' = [try EXCEPT ![n] = r] BY <1>9 DEF InTime, ReqTypeOK
  <2> QED BY <1>1, <1>2, <1>9, <2>3, <2>4, <2>5 DEF InTime, Others
<1>10. CASE TooLate(n)
  <2> DEFINE r == [try[n] EXCEPT !.thread = "ended", !.open = FALSE]
  <2>3. r \in TryType BY <1>1 DEF TryType, Threads
  <2>4. conn' \in ConnType BY <1>1, <1>10 DEF TooLate, ConnType
  <2>5. try' = [try EXCEPT ![n] = r] BY <1>10 DEF TooLate, ReqTypeOK
  <2> QED BY <1>1, <1>2, <1>10, <2>3, <2>4, <2>5 DEF TooLate, ConnType, Others
<1>11. CASE Publish(n)
  <2> DEFINE r == [try[n] EXCEPT !.thread = "notifying"]
  <2>1. try[n].outcome \in Results /\ frame.result \in Results
    BY <1>1 DEF TryType, FrameType
  <2>2. frame' \in FrameType
    <3>1. CASE caller = "waiting" /\ attempt = n
      BY <1>1, <1>11, <2>1, <3>1 DEF Publish, FrameType
    <3>2. CASE ~(caller = "waiting" /\ attempt = n)
      <4>1. PICK x \in {frame.result, try[n].outcome} : frame' = [result |-> x, strayed |-> TRUE]
        BY <1>11, <3>2 DEF Publish
      <4> QED BY <2>1, <4>1 DEF FrameType
    <3> QED BY <3>1, <3>2
  <2>3. r \in TryType BY <1>1 DEF TryType, Threads
  <2>4. conn' = conn /\ try[n].thread = "publishing" BY <1>11 DEF Publish
  <2>5. try' = [try EXCEPT ![n] = r] BY <1>11 DEF Publish, ReqTypeOK
  <2>6. UNCHANGED <<Callers, overrun>> BY <1>11 DEF Publish
  <2>7. ReqTypeOK' /\ \A m \in Attempts \ {n} : try'[m] = try[m]
    BY <1>1, <1>2, <2>2, <2>3, <2>4, <2>5, <2>6
  <2> QED BY <1>11, <2>4, <2>6, <2>7
<1>12. CASE Notify(n)
  <2> DEFINE r == [try[n] EXCEPT !.thread = "ended"]
  <2>3. r \in TryType BY <1>1 DEF TryType, Threads
  <2>5. try' = [try EXCEPT ![n] = r] BY <1>12 DEF Notify, ReqTypeOK
  <2> QED BY <1>1, <1>2, <1>12, <2>3, <2>5 DEF Notify, Others
<1> QED BY <1>3, <1>4, <1>5, <1>7, <1>8, <1>9, <1>10, <1>11, <1>12 DEF ThreadStep

\* The caller is at the only attempt that is under way when no timeout has passed.
LEMMA ThreadKeepsOrder ==
    ASSUME ReqInv, NEW n \in Attempts, ThreadStep(n)
    PROVE  Order' /\ Posted' /\ Judged'
<1>1. /\ UNCHANGED <<caller, attempt>> /\ attempt \in Attempts
      /\ \A m \in Attempts \ {n} : try'[m] = try[m]
      /\ try[n].thread \in {"performing", "performed", "publishing", "notifying"}
      /\ Publish(n) \/ frame' = frame
      /\ conn'.alive = conn.alive /\ conn'.result = conn.result
  BY ThreadChanges DEF ReqInv, ReqTypeOK, Callers
<1>2. Begun(n) BY <1>1 DEF ReqInv, Order
<1>3. Order' BY <1>1, <1>2 DEF ReqInv, Order, Begun
<1>4. CASE frame' = frame
  <2>1. try[n].thread = "notifying" =>
          try'[n].thread = "ended" /\ try'[n].outcome = try[n].outcome
    BY DEF ThreadStep, ReadBody, SeekBody, WriteBody, Answered, Broken, Performed,
           Transferring, CallsFreed, InTime, TooLate, Publish, Notify, ReqInv, ReqTypeOK
  <2>2. Posted' BY <1>1, <1>4, <2>1 DEF ReqInv, Posted
  <2>3. Judged' BY <1>1, <1>4, <2>1 DEF ReqInv, Judged, OwnAnswer
  <2> QED BY <1>3, <2>2, <2>3
<1>5. CASE Publish(n) /\ caller = "waiting" /\ attempt = n
  <2>1. /\ try'[n].thread = "notifying" /\ try'[n].outcome = try[n].outcome
        /\ frame'.result = try[n].outcome
    BY <1>5 DEF Publish, ReqInv, ReqTypeOK
  <2>2. Posted' BY <1>1, <1>5, <2>1 DEF Posted
  <2>3. Judged' BY <1>1, <1>5 DEF Judged, OwnAnswer
  <2> QED BY <1>3, <2>2, <2>3
<1>6. CASE Publish(n) /\ ~(caller = "waiting" /\ attempt = n)
  <2>1. frame'.strayed BY <1>6 DEF Publish
  <2> QED BY <1>3, <2>1 DEF Posted, Judged, OwnAnswer
<1> QED BY <1>1, <1>4, <1>5, <1>6

LEMMA NotifyKeepsTimely ==
    ASSUME ReqInv, NEW n \in Attempts, Notify(n), ~overrun
    PROVE  Timely' /\ Exchanged'
<1>1. attempt \in Attempts /\ UNCHANGED <<caller, attempt>>
  BY DEF Notify, Others, Callers, ReqInv, ReqTypeOK
<1>2. Timely /\ Exchanged BY DEF ReqInv
<1>3. /\ try[n].thread = "notifying" /\ try'[n].thread = "ended"
      /\ try'[n].expired = try[n].expired /\ try'[n].open = try[n].open
      /\ try'[n].sent = try[n].sent /\ try'[n].received = try[n].received
      /\ try'[n].outcome = try[n].outcome
      /\ UNCHANGED <<conn, frame>>
      /\ \A m \in Attempts \ {n} : try'[m] = try[m]
  BY DEF Notify, Others, ReqInv, ReqTypeOK
<1>4. \A m \in Attempts :
         /\ try'[m].expired = try[m].expired /\ try'[m].open = try[m].open
         /\ try[m].thread \in Published => try'[m].thread \in Published
         /\ try'[m].thread # "none" \/ try[m].thread = "none"
         /\ m # n => try'[m] = try[m]
  BY <1>1, <1>3
<1>5. Timely'
  <2>1. \A m \in Attempts : ~try'[m].expired BY <1>2, <1>4 DEF Timely
  <2>2. \A m \in Attempts : m < attempt => try'[m].thread \in Published
    BY <1>2, <1>4 DEF Timely
  <2>3. caller \notin {"loop", "waiting"} =>
          try'[attempt].thread \in {"none"} \union Published
    BY <1>1, <1>2, <1>3, <1>4 DEF Timely
  <2>4. caller = "judging" => try'[attempt].thread \in Published
    BY <1>1, <1>2, <1>4 DEF Timely
  <2>5. caller \in Deciding => \A m \in Attempts : m >= attempt => try'[m].open
    BY <1>2, <1>4 DEF Timely
  <2> QED BY <1>1, <1>2, <1>3, <2>1, <2>2, <2>3, <2>4, <2>5 DEF Timely
<1>6. Exchanged'
  <2>1. CASE n = attempt BY <1>1, <1>2, <1>3, <2>1 DEF Exchanged
  <2>2. CASE n # attempt BY <1>1, <1>2, <1>3, <1>4, <2>2 DEF Exchanged
  <2> QED BY <2>1, <2>2
<1> QED BY <1>5, <1>6

LEMMA ThreadKeepsTimely ==
    ASSUME ReqInv, NEW n \in Attempts, ThreadStep(n), ~Notify(n), ~overrun
    PROVE  Timely' /\ Exchanged'
<1>1. /\ UNCHANGED <<caller, attempt>> /\ attempt \in Attempts
      /\ \A m \in Attempts \ {n} : try'[m] = try[m]
      /\ Publish(n) \/ frame' = frame
      /\ conn'.alive = conn.alive
  BY ThreadChanges DEF ReqInv, ReqTypeOK, Callers
<1>14. try[n].thread \in {"performing", "performed", "publishing"}
  BY DEF ThreadStep, ReadBody, SeekBody, WriteBody, Answered, Broken, Performed,
         Transferring, CallsFreed, InTime, TooLate, Publish
<1>2. Timely /\ Exchanged /\ Order BY DEF ReqInv
<1>3. n = attempt /\ caller = "waiting"
  BY <1>1, <1>2, <1>14 DEF Order, Begun, Timely
<1>4. conn.alive /\ ~try[n].expired /\ ~conn.misused /\ try[n].open
  BY <1>2, <1>3 DEF Order, Timely, Deciding
<1>5. try'[n].expired = try[n].expired /\ try'[n].open /\ ~conn'.misused
  <2> USE DEF ReqInv, ReqTypeOK
  <2>1. CASE ReadBody(n) BY <1>4, <2>1 DEF ReadBody
  <2>2. CASE SeekBody(n) BY <1>4, <2>2 DEF SeekBody
  <2>3. CASE WriteBody(n) BY <1>4, <2>3 DEF WriteBody
  <2>4. CASE Answered(n) BY <1>4, <2>4 DEF Answered, Performed
  <2>5. CASE Broken(n) BY <1>4, <2>5 DEF Broken, Performed
  <2>6. CASE CallsFreed(n) \/ TooLate(n) BY <1>4, <2>6 DEF CallsFreed, TooLate
  <2>7. CASE InTime(n) BY <1>4, <2>7 DEF InTime
  <2>8. CASE Publish(n) BY <1>3, <1>4, <2>8 DEF Publish
  <2> QED BY <2>1, <2>2, <2>3, <2>4, <2>5, <2>6, <2>7, <2>8 DEF ThreadStep
<1>15. ~frame'.strayed
  <2>1. CASE Publish(n) BY <1>2, <1>3, <2>1 DEF Publish, Timely, ReqInv, ReqTypeOK
  <2> QED BY <1>1, <1>2, <2>1 DEF Timely
<1>6. Timely' BY <1>1, <1>2, <1>3, <1>4, <1>5, <1>15 DEF Timely
<1>7. CASE ReadBody(n)
  <2>1. /\ try'[n].thread = "performing" /\ try[n].received = 0 /\ try'[n].received = 0
        /\ conn'.readLength = conn.readLength + 1 /\ conn'.body = conn.body
        /\ try'[n].sent = Append(try[n].sent, conn.readLength + 1)
    BY <1>7 DEF ReadBody, Transferring, ReqInv, ReqTypeOK
  <2>2. try[n].sent = [i \in 1 .. conn.readLength |-> i] /\ conn.readLength \in Nat
    BY <1>2, <1>3, <2>1, <1>7 DEF Exchanged, ReadBody, Transferring, ReqInv, ReqTypeOK
  <2>3. try'[n].sent = [i \in 1 .. conn.readLength + 1 |-> i]
    BY <2>1, <2>2
  <2> QED BY <1>6, <1>1, <1>2, <1>3, <1>7, <2>1, <2>3 DEF Exchanged, ReadBody, Transferring
<1>8. CASE SeekBody(n)
  <2>1. /\ try'[n].thread = "performing" /\ try[n].received = 0 /\ try'[n].received = 0
        /\ conn'.readLength = 0 /\ conn'.body = conn.body /\ try'[n].sent = <<>>
    BY <1>8 DEF SeekBody, Transferring, ReqInv, ReqTypeOK
  <2> QED BY <1>6, <1>1, <1>2, <1>3, <1>8, <2>1 DEF Exchanged, SeekBody, Transferring
<1>9. CASE WriteBody(n)
  <2>1. /\ try'[n].thread = "performing" /\ try'[n].sent = try[n].sent
        /\ try'[n].received = try[n].received + 1 /\ try[n].received \in Nat
        /\ conn.readLength = BodyLen /\ conn'.readLength = BodyLen
        /\ conn'.body = Append(conn.body, n)
    BY <1>9 DEF WriteBody, Transferring, ReqInv, ReqTypeOK
  <2>2. /\ conn.body = [i \in 1 .. try[n].received |-> n]
        /\ try[n].sent = [i \in 1 .. BodyLen |-> i]
    BY <1>2, <1>3, <1>9, <2>1 DEF Exchanged, WriteBody, Transferring
  <2>3. conn'.body = [i \in 1 .. try[n].received + 1 |-> n] BY <2>1, <2>2
  <2> QED BY <1>6, <1>1, <1>3, <2>1, <2>2, <2>3 DEF Exchanged
<1>10. CASE Answered(n)
  <2>1. /\ try[n].thread = "performing" /\ try'[n].thread = "performed"
        /\ try'[n].sent = try[n].sent /\ conn' = conn /\ try[n].received = AnswerLen
        /\ try[n].received = 0 => conn.readLength = BodyLen
    BY <1>10 DEF Answered, Performed, Transferring, ReqInv, ReqTypeOK
  <2>2. conn.readLength = BodyLen
    BY <1>2, <1>3, <2>1 DEF Exchanged, ReqInv, ReqTypeOK
  <2> QED BY <1>6, <1>1, <1>2, <1>3, <2>1, <2>2 DEF Exchanged, Whole
<1>11. CASE Broken(n)
  <2>1. try'[n].outcome = "ERR" /\ try'[n].thread = "performed"
    BY <1>11 DEF Broken, Performed, ReqInv, ReqTypeOK
  <2> QED BY <1>6, <1>1, <1>3, <2>1 DEF Exchanged
<1>12. CASE InTime(n) \/ Publish(n)
  <2>1. /\ try[n].thread \in {"performed", "publishing"}
        /\ try'[n].thread \in {"publishing", "notifying"}
        /\ try'[n].sent = try[n].sent /\ try'[n].outcome = try[n].outcome
        /\ conn'.body = conn.body
    BY <1>12 DEF InTime, Publish, ReqInv, ReqTypeOK
  <2> QED BY <1>6, <1>1, <1>2, <1>3, <2>1 DEF Exchanged
<1>13. CASE CallsFreed(n) \/ TooLate(n)
  BY <1>4, <1>13 DEF CallsFreed, TooLate
<1> QED BY <1>6, <1>7, <1>8, <1>9, <1>10, <1>11, <1>12, <1>13
       DEF ThreadStep

LEMMA TimePassesKeeps ==
    ASSUME ReqInv, NEW n \in Attempts, TimePasses(n)
    PROVE  ReqInv'
<1>1. ReqTypeOK'
  <2>1. try[n] \in TryType BY DEF ReqInv, ReqTypeOK, TryType
  <2> DEFINE r == [try[n] EXCEPT !.expired = TRUE]
  <2>2. r \in TryType BY <2>1 DEF TryType
  <2>3. try' \in [Attempts -> TryType] BY <2>2 DEF TimePasses, ReqInv, ReqTypeOK, TryType
  <2> QED BY <2>3 DEF TimePasses, Others, Callers, ReqInv, ReqTypeOK, TryType
<1>2. /\ UNCHANGED <<caller, attempt, conn, frame>> /\ overrun'
      /\ \A m \in Attempts :
           /\ try'[m].thread = try[m].thread /\ try'[m].outcome = try[m].outcome
           /\ try'[m].sent = try[m].sent
           /\ try'[m].received = try[m].received
  BY DEF TimePasses, Others, Callers, ReqInv, ReqTypeOK
<1>3. attempt \in Attempts BY DEF ReqInv, ReqTypeOK
<1> QED BY <1>1, <1>2, <1>3 DEF ReqInv, Order, Begun, Posted, Judged, OwnAnswer

\* The caller's steps.
LEMMA StartKeeps ==
    ASSUME ReqInv, Start
    PROVE  ReqInv'
<1>1. attempt \in Attempts /\ try[attempt] \in TryType /\ conn \in ConnType
  BY DEF ReqInv, ReqTypeOK, TryType, ConnType
<1>2. /\ caller = "loop" /\ caller' = "waiting" /\ UNCHANGED <<attempt, overrun>>
      /\ conn'.result = "LAST" /\ conn'.body = <<>> /\ conn'.readLength = 0
      /\ conn'.alive = conn.alive
      /\ conn'.misused = (conn.misused \/ ~try[attempt].open)
      /\ \A n \in Attempts \ {attempt} : try'[n] = try[n]
      /\ try'[attempt] = [try[attempt] EXCEPT !.thread = "performing"]
      /\ frame'.result = "LAST" /\ frame'.strayed = frame.strayed
  BY <1>1 DEF Start, WillStart, UsesHandle, ReqInv, ReqTypeOK, ConnType
<1>3. ReqTypeOK'
  <2> DEFINE r == [try[attempt] EXCEPT !.thread = "performing"]
  <2>1. r \in TryType BY <1>1 DEF TryType, Threads
  <2>2. try' = [try EXCEPT ![attempt] = r] BY DEF Start, ReqInv, ReqTypeOK
  <2>3. try' \in [Attempts -> TryType] BY <1>1, <2>1, <2>2 DEF ReqInv, ReqTypeOK, TryType
  <2>4. 0 \in 0 .. BodyLen /\ <<>> \in Seq(Attempts) OBVIOUS
  <2>5. conn' \in ConnType
    BY <1>1, <2>4 DEF Start, WillStart, UsesHandle, ConnType, Results
  <2>6. frame' \in FrameType BY DEF Start, ReqInv, ReqTypeOK, FrameType, Results
  <2> QED BY <2>3, <2>5, <2>6 DEF FrameType, Start, CreateTempFile, ReqInv, ReqTypeOK,
             TryType, ConnType
<1>4. try[attempt].thread = "none" /\ try[attempt].sent = <<>> /\ try[attempt].received = 0
  BY <1>1, <1>2 DEF ReqInv, Order, Begun
<1>5. /\ try'[attempt].thread = "performing" /\ try'[attempt].sent = <<>>
      /\ try'[attempt].received = 0
      /\ try'[attempt].expired = try[attempt].expired
      /\ try'[attempt].open = try[attempt].open
  BY <1>1, <1>2, <1>4 DEF TryType
<1>6. Order' BY <1>1, <1>2 DEF ReqInv, Order, Begun, Deciding
<1>8. Posted' /\ Judged' BY <1>2 DEF Posted, Judged, OwnAnswer
<1>9. ASSUME ~overrun PROVE Timely' /\ Exchanged'
  <2>1. Timely BY <1>9 DEF ReqInv
  <2>2. try[attempt].open /\ ~conn.misused BY <1>1, <1>2, <2>1 DEF Timely, Deciding
  <2>3. \A n \in Attempts :
           ~try'[n].expired /\ (n # attempt => try'[n].thread = try[n].thread)
           /\ try'[n].open = try[n].open
    BY <1>1, <1>2, <1>5, <2>1 DEF Timely
  <2>5. \A n \in Attempts : n < attempt => n # attempt BY <1>1
  <2>7. ~conn'.misused /\ ~frame'.strayed BY <1>2, <2>1, <2>2 DEF Timely
  <2>8. \A n \in Attempts : n < attempt => try'[n].thread \in Published
    BY <2>1, <2>3, <2>5 DEF Timely
  <2>9. \A n \in Attempts : n >= attempt => try'[n].open
    BY <1>2, <2>1, <2>3 DEF Timely, Deciding
  <2>6. Timely' BY <1>2, <2>3, <2>7, <2>8, <2>9 DEF Timely
  <2>4. Exchanged' BY <1>2, <1>5 DEF Exchanged
  <2> QED BY <2>4, <2>6
<1> QED BY <1>2, <1>3, <1>6, <1>8, <1>9 DEF ReqInv

\* A step that leaves the transfers alone.
LEMMA DidFinishKeeps ==
    ASSUME ReqInv, NEW r \in Results, DidFinish(r), UNCHANGED attempt, caller = "waiting",
           r # "LAST", r # frame.result => r = "TIMEDOUT" /\ try[attempt].expired
    PROVE  ReqInv'
<1>1. /\ caller' = "judging" /\ UNCHANGED <<try, frame, overrun>> /\ attempt \in Attempts
      /\ conn'.result = r /\ conn'.body = conn.body /\ conn'.readLength = conn.readLength
      /\ conn'.alive = conn.alive /\ conn'.misused = conn.misused
  BY DEF DidFinish, ReqInv, ReqTypeOK
<1>2. ReqTypeOK'
  <2>1. conn' \in ConnType BY DEF DidFinish, ReqInv, ReqTypeOK, ConnType
  <2> QED BY <2>1 DEF DidFinish, ReqInv, ReqTypeOK, ConnType
<1>3. Order' BY <1>1 DEF ReqInv, Order, Begun, Deciding
<1>4. r = "OK" /\ ~frame.strayed =>
        try[attempt].outcome = "OK" /\ try[attempt].thread \in Published
  BY <1>1 DEF ReqInv, Posted
<1>5. Posted' /\ Judged' BY <1>1, <1>4 DEF ReqInv, Posted, Judged, OwnAnswer
<1>6. ASSUME ~overrun PROVE Timely' /\ Exchanged'
  <2>1. Timely /\ Exchanged BY <1>6 DEF ReqInv
  <2>2. try[attempt].thread \in Published BY <1>1, <2>1 DEF Timely, ReqInv, Posted
  <2>3. Timely' BY <1>1, <2>1, <2>2 DEF Timely, Deciding
  <2>4. Exchanged' BY <1>1, <2>1 DEF Exchanged
  <2> QED BY <2>3, <2>4
<1> QED BY <1>1, <1>2, <1>3, <1>5, <1>6 DEF ReqInv

\* Execute is over.
LEMMA ReturnKeeps ==
    ASSUME ReqInv, NEW v \in {"true", "false", "crashed"}, Return(v), UNCHANGED <<attempt,
    overrun>>,
           cancelled' \in BOOLEAN, debugFile' \in {"none", "open", "null", "closed"},
           caller \in {"loop", "judging"},
           v = "true" => caller = "judging" /\ conn.result = "OK"
    PROVE  ReqInv'
<1>1. attempt \in Attempts /\ try[attempt] \in TryType /\ conn \in ConnType
  BY DEF ReqInv, ReqTypeOK, TryType, ConnType
<1>2. /\ caller' = v
      /\ conn'.body = conn.body /\ conn'.readLength = conn.readLength /\ ~conn'.alive
      /\ conn'.misused = (conn.misused \/ ~try[attempt].open)
      /\ \A n \in Attempts \ {attempt} : try'[n] = try[n]
      /\ try'[attempt] = [try[attempt] EXCEPT !.open = FALSE]
      /\ frame' = frame
  BY <1>1 DEF Return, UsesHandle, ReqInv, ReqTypeOK, ConnType
<1>3. ReqTypeOK'
  <2> DEFINE r == [try[attempt] EXCEPT !.open = FALSE]
  <2>1. r \in TryType BY <1>1 DEF TryType
  <2>2. try' = [try EXCEPT ![attempt] = r] BY DEF Return, ReqInv, ReqTypeOK
  <2>3. try' \in [Attempts -> TryType] BY <1>1, <2>1, <2>2 DEF ReqInv, ReqTypeOK, TryType
  <2>4. conn' \in ConnType BY <1>1 DEF Return, UsesHandle, ConnType
  <2> QED BY <1>2, <2>3, <2>4 DEF ReqInv, ReqTypeOK, TryType, ConnType
<1>4. /\ try'[attempt].thread = try[attempt].thread /\ try'[attempt].sent = try[attempt].sent
      /\ try'[attempt].received = try[attempt].received
      /\ try'[attempt].outcome = try[attempt].outcome
      /\ try'[attempt].expired = try[attempt].expired
  BY <1>1, <1>2 DEF TryType
<1>5. Order'
  <2>1. \A n \in Attempts : ~Begun(n)' => ~Begun(n) /\ n # attempt BY <1>1, <1>2 DEF Begun
  <2> QED BY <1>2, <2>1 DEF ReqInv, Order, Deciding
<1>6. Posted' BY <1>2 DEF Posted
<1>7. Judged' BY <1>1, <1>2, <1>4 DEF ReqInv, Judged, OwnAnswer
<1>8. ASSUME ~overrun PROVE Timely' /\ Exchanged'
  <2>1. Timely /\ Exchanged BY <1>8 DEF ReqInv
  <2>2. try[attempt].thread \in {"none"} \union Published
    BY <1>1, <2>1 DEF Timely, ReqInv, Order, Begun
  <2>3. try[attempt].open /\ ~conn.misused BY <1>1, <2>1 DEF Timely, Deciding
  <2>4. Timely' BY <1>1, <1>2, <1>4, <2>1, <2>2, <2>3 DEF Timely, Deciding
  <2>5. Exchanged' BY <1>1, <1>2, <1>4, <2>1, <2>2 DEF Exchanged
  <2> QED BY <2>4, <2>5
<1> QED BY <1>3, <1>5, <1>6, <1>7, <1>8 DEF ReqInv

LEMMA CloneKeeps ==
    ASSUME ReqInv, Clone
    PROVE  ReqInv'
<1>1. attempt \in Attempts /\ attempt + 1 \in Attempts /\ conn \in ConnType
  BY DEF Clone, ReqInv, ReqTypeOK, ConnType
<1>2. /\ caller = "judging" /\ caller' = "loop" /\ attempt' = attempt + 1
      /\ UNCHANGED <<try, frame, overrun>>
      /\ conn'.alive = conn.alive /\ conn'.misused = (conn.misused \/ ~try[attempt].open)
  BY <1>1 DEF Clone, UsesHandle, ConnType
<1>3. ReqTypeOK'
  <2>1. conn' \in ConnType BY <1>1 DEF Clone, UsesHandle, ConnType
  <2> QED BY <1>1, <1>2, <2>1 DEF Clone, ReqInv, ReqTypeOK, ConnType
<1>4. Order' BY <1>1, <1>2 DEF ReqInv, ReqTypeOK, Order, Begun, Deciding
<1>5. Posted' /\ Judged' BY <1>2 DEF ReqInv, Posted, Judged, OwnAnswer
<1>6. ASSUME ~overrun PROVE Timely' /\ Exchanged'
  <2>1. Timely BY <1>6 DEF ReqInv
  <2>5. \A n \in Attempts : (n < attempt + 1 => n < attempt \/ n = attempt)
                              /\ (n >= attempt + 1 => n >= attempt)
    BY <1>1
  <2>6. try[attempt].open BY <1>1, <1>2, <2>1 DEF Timely, Deciding
  <2>7. try[attempt + 1].thread = "none" BY <1>1, <1>2 DEF ReqInv, Order, Begun
  <2>2. Timely' BY <1>1, <1>2, <2>1, <2>5, <2>6, <2>7 DEF Timely, Deciding
  <2>3. try[attempt + 1].thread = "none" BY <1>1, <1>2 DEF ReqInv, Order, Begun
  <2>4. Exchanged' BY <1>2, <2>3 DEF Exchanged
  <2> QED BY <2>2, <2>4
<1> QED BY <1>2, <1>3, <1>4, <1>5, <1>6 DEF ReqInv

LEMMA CancelKeeps ==
    ASSUME ReqInv, Cancel \/ UNCHANGED reqVars
    PROVE  ReqInv'
<1>1. UNCHANGED <<caller, attempt, try, frame, conn, debugFile, overrun>> /\ cancelled' \in BOOLEAN
  BY DEF Cancel, reqVars, ReqInv, ReqTypeOK
<1> QED BY <1>1 DEF ReqInv, ReqTypeOK, Order, Begun, Posted, Judged, OwnAnswer, Timely,
           Exchanged

LEMMA ReqNextKeeps == ReqInv /\ [ReqNext]_reqVars => ReqInv'
<1> SUFFICES ASSUME ReqInv, [ReqNext]_reqVars PROVE ReqInv'
  OBVIOUS
<1>0. attempt \in Attempts /\ debugFile \in {"none", "open", "null", "closed"}
  BY DEF ReqInv, ReqTypeOK
<1>1. CASE Start BY <1>1, StartKeeps
<1>2. CASE Abandon
  BY <1>0, <1>2, ReturnKeeps DEF Abandon, CreateTempFile, ReqInv, ReqTypeOK
<1>3. CASE Wake
  <2>1. frame.result \in Results BY DEF ReqInv, ReqTypeOK
  <2> QED BY <1>3, <2>1, DidFinishKeeps DEF Wake, DidFinish
<1>4. CASE Timeout
  BY <1>4, DidFinishKeeps DEF Timeout, TimedOut, DidFinish, Results
<1>5. CASE Succeed
  BY <1>0, <1>5, ReturnKeeps DEF Succeed, Accepted, CloseTempFile, ReqInv, ReqTypeOK
<1>6. CASE Clone BY <1>6, CloneKeeps
<1>7. CASE RunOut
  BY <1>0, <1>7, ReturnKeeps DEF RunOut, CloseTempFile, ReqInv, ReqTypeOK
<1>8. CASE Cancel \/ UNCHANGED reqVars BY <1>8, CancelKeeps
<1>9. ASSUME NEW n \in Running, ThreadStep(n) PROVE ReqInv'
  <2>1. n \in Attempts BY <1>9 DEF Running
  <2>2. ReqTypeOK' /\ overrun' = overrun
    BY <1>9, <2>1, ThreadChanges DEF ReqInv
  <2>3. ~overrun => Timely' /\ Exchanged'
    BY <1>9, <2>1, NotifyKeepsTimely, ThreadKeepsTimely
  <2> QED BY <1>9, <2>1, <2>2, <2>3, ThreadKeepsOrder DEF ReqInv
<1>10. ASSUME NEW n \in Attempts, TimePasses(n) PROVE ReqInv'
  BY <1>10, TimePassesKeeps
<1> QED BY <1>1, <1>2, <1>3, <1>4, <1>5, <1>6, <1>7, <1>8, <1>9, <1>10 DEF ReqNext,
           ThreadStep

\* The inductive invariant of Execute, its attempts and the Connection.
THEOREM ReqInvariant == ReqSpec => []ReqInv
  BY ReqInitInv, ReqNextKeeps, PTL DEF ReqSpec

\* As long as no transfer outlasts its timeout, an accepted answer is the whole answer to
\* the whole request and of one attempt only, no callback finds its handle or its
\* Connection gone, and no result is written where Start has been (connection.cpp:52-81,
\* 221-375), for any number of attempts and any length of the two bodies.
THEOREM ReqCleanAnswer == ReqSpec => []CleanAnswer
<1>1. ReqInv => CleanAnswer
  <2> SUFFICES ASSUME ReqInv, ~overrun
      PROVE /\ ~conn.misused /\ ~frame.strayed
            /\ caller = "true" => /\ try[attempt].sent = Whole
                                  /\ conn.body = [i \in 1 .. AnswerLen |-> attempt]
    BY DEF CleanAnswer
  <2> QED BY DEF ReqInv, Judged, OwnAnswer, Timely, Exchanged
<1> QED BY <1>1, ReqInvariant, PTL

\* Execute takes the answer of a thread that it stopped waiting for (Client.cpp:243-269)
\* only if that thread has written its result where Start has been; late transfers that
\* use the Connection meanwhile do not bring it about.
THEOREM ReqOwnAnswer == ReqSpec => []OwnAnswer
<1>1. ReqInv => OwnAnswer BY DEF ReqInv, Judged
<1> QED BY <1>1, ReqInvariant, PTL

HIDE RequestAssumption DEF Attempts, Published

-----------------------------------------------------------------------------
(***************************************************************************)
(* The manifests. A thread that finds the cached file gone had company:    *)
(* somebody removed it, and is on his way to write it again (Opened).      *)
(***************************************************************************)
\* A thread that has found the file and finds it gone had company: somebody
\* who removed it, and who gets a manifest himself until a file is there again.
Restoring(u) == getting[u] \in {"status", "download", "create"}
Opened ==
    \A t \in Mounters : getting[t] = "open" /\ file = "absent" =>
        \E u \in Mounters \ {t} : Restoring(u)

ManInv == ManTypeOK /\ ManifestWhole /\ AloneNeverCrashes /\ Opened

GetStep(t) ==
    \/ GetManifest(t) \/ IsManifestCached(t) \/ Open(t) \/ ReadCached(t) \/ Parse(t)
    \/ Remove(t) \/ Download(t) \/ Create(t) \/ Write(t) \/ Mounted(t)

LEMMA ManInitInv == ManInit => ManInv
<1> SUFFICES ASSUME ManInit PROVE ManInv
  OBVIOUS
<1> USE ManAssumption
<1>1. valid \in 0 .. Life /\ believed \in Nat
  BY DEF ManInit, Mktime, AtLeastZero
<1>2. getting \in [Mounters -> {"idle"}] /\ seen \in [Mounters -> {"absent"}]
  BY DEF ManInit
<1>3. ManTypeOK BY <1>1, <1>2 DEF ManInit, ManTypeOK, FileStates
<1> QED BY <1>3 DEF ManInit, ManInv, ManifestWhole, AloneNeverCrashes, Opened

\* The thread that asks for the latest manifest, and the clock.
AskStep == GetLatest \/ UpdateIfExpired \/ Renew \/ Ask \/ AskAgain \/ Unauthorized \/ Tick

LEMMA AskKeeps == ManInv /\ (AskStep \/ UNCHANGED manVars) => ManInv'
<1> SUFFICES ASSUME ManInv, AskStep \/ UNCHANGED manVars PROVE ManInv'
  OBVIOUS
<1> USE ManAssumption
<1>1. UNCHANGED <<zone, file, getting, seen, crashed>>
  BY DEF AskStep, GetLatest, UpdateIfExpired, Renew, Ask, AskAgain, Unauthorized, Tick,
         CacheUnchanged, manVars
<1>2. asking' \in {"idle", "check", "renew", "ask"}
  BY DEF AskStep, GetLatest, UpdateIfExpired, Renew, Ask, AskAgain, Unauthorized, Tick,
         AfterUnauthorized, manVars, ManInv, ManTypeOK
<1>3. valid' \in 0 .. Life /\ believed' \in Nat
  <2>1. valid \in 0 .. Life /\ believed \in Nat /\ zone \in Int BY DEF ManInv, ManTypeOK
  <2>2. CASE Tick BY <2>1, <2>2 DEF Tick, AtLeastZero
  <2>3. CASE Renew BY <2>1, <2>3 DEF Renew, Mktime, AtLeastZero
  <2> QED BY <2>1, <2>2, <2>3 DEF AskStep, GetLatest, UpdateIfExpired, Ask, AskAgain,
             Unauthorized, manVars
<1>4. ManTypeOK' BY <1>1, <1>2, <1>3 DEF ManInv, ManTypeOK
<1>5. ManifestWhole' /\ AloneNeverCrashes' /\ Opened'
  BY <1>1 DEF ManInv, ManifestWhole, AloneNeverCrashes, Opened, Restoring
<1> QED BY <1>4, <1>5 DEF ManInv

LEMMA RestartKeeps == ManInv /\ Restart => ManInv'
<1> SUFFICES ASSUME ManInv, Restart PROVE ManInv'
  OBVIOUS
<1> USE ManAssumption
<1>1. ManTypeOK'
  <2>1. valid' \in 0 .. Life /\ believed' \in Nat /\ zone' \in Zones /\ file' \in FileStates
    BY DEF Restart, ManInv, ManTypeOK, Mktime, AtLeastZero
  <2>2. getting' \in [Mounters -> {"idle"}] /\ seen' \in [Mounters -> {"absent"}]
    BY DEF Restart
  <2> QED BY <2>1, <2>2 DEF Restart, ManTypeOK, FileStates
<1> QED BY <1>1 DEF Restart, ManInv, ManifestWhole, AloneNeverCrashes, Opened

LEMMA GetStepTypeOK ==
    ASSUME ManTypeOK, NEW t \in Mounters, GetStep(t) PROVE ManTypeOK'
<1> USE DEF ManTypeOK, Go
<1>1. CASE GetManifest(t) BY <1>1 DEF GetManifest, FileStates
<1>2. CASE IsManifestCached(t) BY <1>2 DEF IsManifestCached
<1>3. CASE Open(t) BY <1>3 DEF Open
<1>4. CASE ReadCached(t) BY <1>4 DEF ReadCached
<1>5. CASE Parse(t) BY <1>5 DEF Parse
<1>6. CASE Remove(t) BY <1>6 DEF Remove, Removed, FileStates
<1>7. CASE Download(t) BY <1>7 DEF Download
<1>8. CASE Create(t) BY <1>8 DEF Create, FileStates
<1>9. CASE Write(t) BY <1>9 DEF Write, FileStates
<1>10. CASE Mounted(t) BY <1>10 DEF Mounted
<1> QED BY <1>1, <1>2, <1>3, <1>4, <1>5, <1>6, <1>7, <1>8, <1>9, <1>10 DEF GetStep

LEMMA GetStepKeeps ==
    ASSUME ManInv, NEW t \in Mounters, GetStep(t) PROVE ManInv'
<1>1. ManTypeOK' BY GetStepTypeOK DEF ManInv
<1>2. /\ ~crashed
      /\ \A u \in Mounters \ {t} : getting'[u] = getting[u] /\ seen'[u] = seen[u]
  BY DEF ManInv, ManTypeOK, GetStep, Go, GetManifest, IsManifestCached, Open, ReadCached,
     Parse,
         Remove, Download, Create, Write, Mounted
<1>3. ManifestWhole'
  <2>1. getting'[t] = "got" => seen'[t] = "whole"
    BY DEF ManInv, ManTypeOK, GetStep, Go, GetManifest, IsManifestCached, Open,
       ReadCached, Parse,
           Parses, Remove, Download, Create, Write, Mounted
  <2> QED BY <1>2, <2>1 DEF ManInv, ManifestWhole
<1>4. CASE GetManifest(t)
  <2>1. getting[t] = "idle" /\ getting'[t] = "status" /\ file' = file /\ ~crashed'
    BY <1>2, <1>4 DEF GetManifest, Go, ManInv, ManTypeOK
  <2>2. Opened' BY <1>2, <2>1 DEF ManInv, Opened, Restoring
  <2> QED BY <1>1, <1>3, <2>1, <2>2 DEF ManInv, AloneNeverCrashes
<1>5. CASE IsManifestCached(t)
  <2>1. /\ getting[t] = "status" /\ getting'[t] = IF file # "absent" THEN "open" ELSE "download"
        /\ file' = file /\ ~crashed'
    BY <1>2, <1>5 DEF IsManifestCached, Go, ManInv, ManTypeOK
  <2>2. Opened' BY <1>2, <2>1 DEF ManInv, Opened, Restoring
  <2> QED BY <1>1, <1>3, <2>1, <2>2 DEF ManInv, AloneNeverCrashes
<1>6. CASE Open(t)
  <2>1. /\ getting[t] = "open" /\ getting'[t] = "reading"
        /\ file' = file /\ crashed' = (file = "absent")
    BY <1>6 DEF Open, Go, ManInv, ManTypeOK
  <2>2. Opened' BY <1>2, <2>1 DEF ManInv, Opened, Restoring
  <2>3. AloneNeverCrashes' BY <1>2, <2>1 DEF ManInv, Opened, Restoring, AloneNeverCrashes
  <2> QED BY <1>1, <1>3, <2>2, <2>3 DEF ManInv
<1>7. CASE ReadCached(t) \/ Parse(t) \/ Mounted(t)
  <2>1. /\ getting[t] \in {"reading", "parse", "got"}
        /\ getting'[t] \in {"parse", "got", "remove", "idle"}
        /\ file' = file /\ ~crashed'
    BY <1>2, <1>7 DEF ReadCached, Parse, Mounted, Go, ManInv, ManTypeOK
  <2>2. Opened' BY <1>2, <2>1 DEF ManInv, Opened, Restoring
  <2> QED BY <1>1, <1>3, <2>1, <2>2 DEF ManInv, AloneNeverCrashes
<1>8. CASE Remove(t)
  <2>1. getting[t] = "remove" /\ getting'[t] = "status"
    BY <1>8 DEF Remove, Go, ManInv, ManTypeOK
  <2>2. crashed' => \E u \in Mounters : HasOpen(u)
    BY <1>8 DEF Remove
  <2>3. AloneNeverCrashes'
    BY <1>2, <2>1, <2>2 DEF HasOpen, AloneNeverCrashes
  <2>4. Opened' BY <1>2, <2>1 DEF Opened, Restoring
  <2> QED BY <1>1, <1>3, <2>3, <2>4 DEF ManInv
<1>9. CASE Download(t)
  <2>1. /\ getting[t] = "download" /\ getting'[t] = "create" /\ file' = file /\ ~crashed'
    BY <1>2, <1>9 DEF Download, Go, ManInv, ManTypeOK
  <2>2. Opened' BY <1>2, <2>1 DEF ManInv, Opened, Restoring
  <2> QED BY <1>1, <1>3, <2>1, <2>2 DEF ManInv, AloneNeverCrashes
<1>10. CASE Create(t) \/ Write(t)
  <2>1. file' # "absent" /\ ~crashed'
    BY <1>2, <1>10 DEF Create, Write, Go
  <2> QED BY <1>1, <1>3, <2>1 DEF ManInv, Opened, AloneNeverCrashes
<1> QED BY <1>4, <1>5, <1>6, <1>7, <1>8, <1>9, <1>10 DEF GetStep

LEMMA ManNextKeeps == ManInv /\ [ManNext]_manVars => ManInv'
<1> SUFFICES ASSUME ManInv, [ManNext]_manVars PROVE ManInv'
  OBVIOUS
<1>1. CASE AskStep \/ UNCHANGED manVars BY <1>1, AskKeeps
<1>2. CASE Restart BY <1>2, RestartKeeps
<1>3. ASSUME NEW t \in Mounters, GetStep(t) PROVE ManInv'
  BY <1>3, GetStepKeeps
<1> QED BY <1>1, <1>2, <1>3 DEF ManNext, AskStep, GetStep

\* The inductive invariant of the token, the cache and those who use them.
THEOREM ManInvariant == ManSpec => []ManInv
  BY ManInitInv, ManNextKeeps, PTL DEF ManSpec

\* Whoever gets a manifest gets a whole one, whatever kills and other threads have left
\* in the cache (auth.cpp:105-148), for any number of threads.
THEOREM OnlyWholeManifests == ManSpec => []ManifestWhole
<1>1. ManInv => ManifestWhole BY DEF ManInv
<1> QED BY <1>1, ManInvariant, PTL

\* The process ends in GetManifest, at a file that is gone (auth.cpp:110) or in use
\* (auth.cpp:142), only when two threads are in it at the same time.
THEOREM OneThreadIsSafe == ManSpec => []AloneNeverCrashes
<1>1. ManInv => AloneNeverCrashes BY DEF ManInv
<1> QED BY <1>1, ManInvariant, PTL

-----------------------------------------------------------------------------
(***************************************************************************)
(* The account: its types, with whatever an expiry that was never set      *)
(* says.                                                                   *)
(***************************************************************************)
LEMMA AccInitType == AccInit => AccTypeOK
<1> SUFFICES ASSUME AccInit PROVE AccTypeOK
  OBVIOUS
<1>1. tokenValid \in 0 .. TokenLife /\ tokenBelieved \in Nat \cup {-1}
  BY AccAssumption DEF AccInit, Unset, Forever
<1> QED BY <1>1 DEF AccInit, AccTypeOK

LEMMA AccTimes ==
    ASSUME AccTypeOK
    PROVE  /\ LocalExpiry \in Nat /\ NotNegative(tokenValid - 1) \in 0 .. TokenLife
           /\ Later(tokenBelieved) \in Nat \cup {-1} /\ Unset \subseteq Nat \cup {-1}
           /\ TokenLife \in 0 .. TokenLife /\ 0 \in 0 .. TokenLife
  BY AccAssumption DEF AccTypeOK, LocalExpiry, NotNegative, Later, Unset, Forever

LEMMA AccNextKeeps == AccTypeOK /\ [AccNext]_accVars => AccTypeOK'
<1> SUFFICES ASSUME AccTypeOK, [AccNext]_accVars PROVE AccTypeOK'
  OBVIOUS
<1> USE AccTimes DEF AccTypeOK, GoTo, Tokens, PlayState, UseOAuthResp
<1>1. CASE ReadDeviceAuth BY <1>1 DEF ReadDeviceAuth
<1>2. CASE UseDeviceAuth \/ UseDeviceAuthFails BY <1>2 DEF UseDeviceAuth, UseDeviceAuthFails
<1>3. CASE GetClientToken \/ GetDeviceCode BY <1>3 DEF GetClientToken, GetDeviceCode
<1>4. CASE NoResult BY <1>4 DEF NoResult
<1>5. CASE Confirm \/ Expire \/ PollAgain BY <1>5 DEF Confirm, Expire, PollAgain, accVars
<1>6. CASE PollAnswered \/ CreateDeviceAuth BY <1>6 DEF PollAnswered, CreateDeviceAuth
<1>7. CASE OpenAuthFile \/ SaveFails \/ SaveDeviceAuth
  BY <1>7 DEF OpenAuthFile, SaveFails, SaveDeviceAuth
<1>8. CASE Constructed BY <1>8 DEF Constructed
<1>9. CASE Play \/ UpdateToken BY <1>9 DEF Play, UpdateToken
<1>10. CASE UseRefreshToken BY <1>10 DEF UseRefreshToken
<1>11. CASE RefreshFails BY <1>11 DEF RefreshFails, AfterRefreshFailed
<1>12. CASE Launch \/ ExchangeFails BY <1>12 DEF Launch, ExchangeFails
<1>13. CASE PassTime BY <1>13 DEF PassTime
<1>14. CASE Kill BY <1>14 DEF Kill
<1>15. CASE UNCHANGED accVars BY <1>15 DEF accVars
<1> QED BY <1>1, <1>2, <1>3, <1>4, <1>5, <1>6, <1>7, <1>8, <1>9, <1>10, <1>11, <1>12, <1>13,
           <1>14, <1>15 DEF AccNext

\* Every variable of the account keeps its type, for any life of a token and any zones.
THEOREM AccInvariant == AccSpec => []AccTypeOK
  BY AccInitType, AccNextKeeps, PTL DEF AccSpec

-----------------------------------------------------------------------------
(***************************************************************************)
(* The install of the official launcher. amtRead is always the end of a    *)
(* part that was read, and, if the pieces partition the chunk, no part     *)
(* behind the loop covers it: the next piece is still to come, or there is *)
(* none.                                                                   *)
(***************************************************************************)
Ends == amtRead = 0 \/ \E k \in 1 .. next - 1 :
            parts[k].size > 0 /\ parts[k].offset + parts[k].size = amtRead

Past == Partition => \A k \in 1 .. next - 1 : amtRead \notin Covers(parts[k])

EgsInv ==
    /\ EgsTypeOK /\ Sorted(parts) /\ Ends /\ Past
    /\ answer = "chunk" => VerifyHash

LEMMA EgsInitInv == EgsInit => EgsInv
<1> USE EgsAssumption
<1> SUFFICES ASSUME EgsInit PROVE EgsInv
  OBVIOUS
<1>1. parts \in Seq(Parts) /\ Sorted(parts)
  <2>1. CASE Available
    <3>1. PICK n \in 0 .. MaxPieces : parts \in [1 .. n -> Parts]
      BY <2>1 DEF EgsInit
    <3> QED BY <2>1, <3>1 DEF EgsInit
  <2>2. CASE ~Available
    <3>1. parts = <<>> BY <2>2 DEF EgsInit
    <3> QED BY <3>1 DEF Sorted
  <2> QED BY <2>1, <2>2
<1>2. EgsTypeOK
  <2>1. next \in 1 .. Len(parts) + 1 BY <1>1 DEF EgsInit
  <2>2. buffer \in [0 .. WindowSize - 1 -> Bytes] BY DEF EgsInit, Bytes, Garbage
  <2> QED BY <1>1, <2>1, <2>2 DEF EgsInit, EgsTypeOK
<1>3. Ends /\ Past BY DEF EgsInit, Ends, Past
<1> QED BY <1>1, <1>2, <1>3 DEF EgsInit, EgsInv

LEMMA PieceBounds ==
    ASSUME EgsTypeOK, NEW k \in 1 .. Len(parts)
    PROVE  /\ parts[k].offset \in Nat /\ parts[k].size \in Nat
           /\ parts[k].offset + parts[k].size <= WindowSize
           /\ parts[k] \in Pieces
  BY EgsAssumption DEF EgsTypeOK, Parts, Pieces

\* The part that is left out has nothing of the rest.
LEMMA SkipKeeps == EgsInv /\ Skip => EgsInv'
<1> USE EgsAssumption
<1> SUFFICES ASSUME EgsInv, Skip PROVE EgsInv'
  OBVIOUS
<1>1. /\ next \in 1 .. Len(parts) /\ next' = next + 1 /\ Len(parts) \in Nat
      /\ UNCHANGED <<install, parts, amtRead, buffer, answer>>
      /\ amtRead \in 0 .. WindowSize /\ amtRead # parts[next].offset
  BY DEF EgsInv, EgsTypeOK, Skip, Reading, Fits
<1>2. EgsTypeOK' /\ Sorted(parts)' /\ (answer = "chunk" => VerifyHash)'
  BY <1>1 DEF EgsInv, EgsTypeOK, Sorted, VerifyHash
<1>3. Ends' BY <1>1 DEF EgsInv, Ends
<1>4. ASSUME Partition PROVE amtRead \notin Covers(parts[next])
  <2> SUFFICES ASSUME amtRead \in Covers(parts[next]) PROVE FALSE
    OBVIOUS
  <2>1. /\ parts[next].offset \in Nat /\ parts[next].size \in Nat /\ parts[next] \in Pieces
    BY <1>1, PieceBounds DEF EgsInv
  <2>2. parts[next].offset < amtRead /\ amtRead - 1 \in Covers(parts[next])
    BY <1>1, <2>1 DEF Covers
  <2>3. PICK k \in 1 .. next - 1 : parts[k].size > 0 /\ parts[k].offset + parts[k].size = amtRead
    BY <1>1, <2>1, <2>2 DEF EgsInv, Ends
  <2>4. parts[k].offset \in Nat /\ parts[k].size \in Nat /\ parts[k] \in Pieces
    BY <1>1, <2>3, PieceBounds DEF EgsInv
  <2>5. amtRead - 1 \in Covers(parts[k]) /\ amtRead \notin Covers(parts[k])
    BY <2>3, <2>4 DEF Covers
  <2> QED BY <1>4, <2>1, <2>2, <2>4, <2>5 DEF Partition
<1>5. Past'
  <2>1. Partition' => Partition BY <1>1 DEF Partition, Pieces
  <2>2. \A k \in 1 .. next : k = next \/ k \in 1 .. next - 1 BY <1>1
  <2>3. Partition => \A k \in 1 .. next : amtRead \notin Covers(parts[k])
    BY <1>4, <2>2 DEF EgsInv, Past
  <2> QED BY <1>1, <2>1, <2>3 DEF Past
<1> QED BY <1>2, <1>3, <1>5 DEF EgsInv

\* No part before has what comes after the part that is read: the parts are in
\* the order of their offsets.
LEMMA ReadPartKeeps == ASSUME EgsInv, NEW intact \in BOOLEAN, ReadPart(intact) PROVE EgsInv'
<1> USE EgsAssumption
<1> DEFINE p == parts[next]
<1>1. /\ next \in 1 .. Len(parts) /\ next' = next + 1 /\ Len(parts) \in Nat
      /\ UNCHANGED <<install, parts, answer>> /\ answer = "none"
      /\ amtRead \in 0 .. WindowSize /\ amtRead = p.offset /\ amtRead' = amtRead + p.size
  BY DEF EgsInv, EgsTypeOK, ReadPart, Reading, Fits
<1>2. p.offset \in Nat /\ p.size \in Nat /\ p.offset + p.size <= WindowSize
  BY <1>1, PieceBounds DEF EgsInv
<1>3. EgsTypeOK'
  <2>1. \A i \in 0 .. WindowSize - 1 :
           i \in amtRead .. amtRead + p.size - 1 => p.offset + (i - amtRead) \in Bytes
    BY <1>1, <1>2 DEF Bytes
  <2>2. buffer' \in [0 .. WindowSize - 1 -> Bytes]
    BY <2>1 DEF EgsInv, EgsTypeOK, ReadPart, Bytes, Garbage
  <2> QED BY <1>1, <1>2, <2>2 DEF EgsInv, EgsTypeOK
<1>4. Sorted(parts)' BY <1>1 DEF EgsInv, Sorted
<1>5. Ends'
  <2>1. CASE p.size = 0 BY <1>1, <1>2, <2>1 DEF EgsInv, Ends
  <2>2. CASE p.size > 0 BY <1>1, <1>2, <2>2 DEF Ends
  <2> QED BY <1>2, <2>1, <2>2
<1>6. Past'
  <2>1. Partition' => Partition BY <1>1 DEF Partition, Pieces
  <2>2. SUFFICES ASSUME Partition, NEW k \in 1 .. next, amtRead' \in Covers(parts[k])
                 PROVE  FALSE
    BY <1>1, <2>1 DEF Past
  <2>3. k # next BY <1>1, <1>2, <2>2 DEF Covers
  <2>4. k \in 1 .. next - 1 /\ k \in 1 .. Len(parts) BY <1>1, <2>3
  <2>5. parts[k].offset <= p.offset BY <1>1, <2>4 DEF EgsInv, Sorted
  <2>6. parts[k].offset \in Nat /\ parts[k].size \in Nat
    BY <2>4, PieceBounds DEF EgsInv
  <2>8. amtRead' <= parts[k].offset + parts[k].size - 1 /\ amtRead' \in Nat
    BY <1>1, <1>2, <2>2, <2>6 DEF Covers
  <2>9. amtRead \in Nat /\ parts[k].offset <= amtRead /\ amtRead <= amtRead'
    BY <1>1, <1>2, <2>5
  <2>7. amtRead \in Covers(parts[k]) BY <2>6, <2>8, <2>9 DEF Covers
  <2> QED BY <2>2, <2>4, <2>7 DEF EgsInv, Past
<1> QED BY <1>1, <1>3, <1>4, <1>5, <1>6 DEF EgsInv

LEMMA EgsNextKeeps == EgsInv /\ [EgsNext]_egsVars => EgsInv'
<1> SUFFICES ASSUME EgsInv, [EgsNext]_egsVars PROVE EgsInv'
  OBVIOUS
<1>1. CASE Skip BY <1>1, SkipKeeps
<1>2. CASE ReadPart(TRUE) \/ ReadPart(FALSE) BY <1>2, ReadPartKeeps
<1>3. ASSUME UNCHANGED <<install, parts, next, amtRead, buffer>>,
             answer' \in {"none", "nullptr", "chunk"}, answer' = "chunk" => VerifyHash
      PROVE  EgsInv'
  BY <1>3 DEF EgsInv, EgsTypeOK, Sorted, Ends, Past, Partition, Pieces, VerifyHash
<1>4. CASE NotAvailable \/ CannotOpen
  BY <1>3, <1>4 DEF NotAvailable, CannotOpen, Give
<1>5. CASE Finish BY <1>3, <1>5 DEF Finish, Give
<1>6. CASE UNCHANGED egsVars BY <1>3, <1>6 DEF egsVars, EgsInv, EgsTypeOK
<1> QED BY <1>1, <1>2, <1>4, <1>5, <1>6 DEF EgsNext

\* Behind the last part nothing of the chunk is uncovered.
LEMMA JoinsWhenPartition == EgsInv => JoinsPieces
<1> USE EgsAssumption
<1> SUFFICES ASSUME EgsInv PROVE JoinsPieces
  OBVIOUS
<1>1. amtRead \in 0 .. WindowSize /\ next \in 1 .. Len(parts) + 1 /\ Len(parts) \in Nat
  BY DEF EgsInv, EgsTypeOK
<1>2. ASSUME Partition, next > Len(parts) PROVE amtRead = WindowSize
  <2>1. \A q \in Pieces : amtRead \notin Covers(q)
    BY <1>1, <1>2 DEF EgsInv, Past, Pieces
  <2>2. amtRead \notin 0 .. WindowSize - 1 BY <1>2, <2>1 DEF Partition
  <2> QED BY <1>1, <2>2
<1> QED BY <1>1, <1>2 DEF EgsInv, JoinsPieces, VerifyHash

\* The inductive invariant of the loop of getChunk.
THEOREM EgsInvariant == EgsSpec => []EgsInv
  BY EgsInitInv, EgsNextKeeps, PTL DEF EgsSpec

\* The join of the parts never writes behind the buffer, hands over the chunk or nothing,
\* and joins all of it if the pieces in the install partition it (EGSProvider.cpp:158-194),
\* for any size of a chunk and any number of pieces.
THEOREM PartsMakeTheChunk == EgsSpec => []JoinsPieces
  BY EgsInvariant, JoinsWhenPartition, PTL

-----------------------------------------------------------------------------
(***************************************************************************)
(* The four together: in a behaviour one of them moves.                    *)
(***************************************************************************)
OnlineInv == ReqInv /\ ManInv /\ AccTypeOK /\ EgsInv

LEMMA OnlineNextKeeps == OnlineInv /\ [Next]_vars => OnlineInv'
<1> SUFFICES ASSUME OnlineInv, [Next]_vars PROVE OnlineInv'
  OBVIOUS
<1>1. /\ [ReqNext]_reqVars /\ [ManNext]_manVars
      /\ [AccNext]_accVars /\ [EgsNext]_egsVars
  BY DEF Next, vars, OnlyRequest, OnlyManifests, OnlyAccount, OnlyLauncher
<1> QED BY <1>1, ReqNextKeeps, ManNextKeeps, AccNextKeeps, EgsNextKeeps DEF OnlineInv

\* The inductive invariants of the four hold together.
THEOREM OnlineInvariant == Spec => []OnlineInv
<1>1. Init => OnlineInv
  BY ReqInitInv, ManInitInv, AccInitType, EgsInitInv DEF Init, OnlineInv
<1> QED BY <1>1, OnlineNextKeeps, PTL DEF Spec

\* Every variable of the four parts keeps its type, whatever the constants are.
THEOREM OnlineTypeOK == Spec => []TypeOK
<1>1. OnlineInv => TypeOK BY DEF OnlineInv, ReqInv, ManInv, EgsInv, TypeOK
<1> QED BY <1>1, OnlineInvariant, PTL
=============================================================================
