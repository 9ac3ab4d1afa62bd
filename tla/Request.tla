------------------------------ MODULE Request ------------------------------
(***************************************************************************)
(* One HTTP request: Client::Execute starts a curlion::Connection up to    *)
(* Retries times. Every attempt performs the transfer on a detached        *)
(* thread and waits for it no longer than its timeout. The thread of an    *)
(* attempt that timed out is not stopped: TerminateThread gets the handle  *)
(* of a detached std::thread, which is null. It goes on to call the        *)
(* callbacks of the Connection, which by then serves the next attempt, and *)
(* may write its result where the next attempt looks for its own.          *)
(***************************************************************************)
EXTENDS Naturals, Sequences

CONSTANTS Retries,    \* attempts of one Execute, 5 in the code
          BodyLen,    \* pieces of the request body
          AnswerLen   \* pieces of the response body

ASSUME RequestAssumption ==
    Retries \in Nat \ {0, 1} /\ BodyLen \in Nat /\ AnswerLen \in Nat

VARIABLES caller,       \* where Execute is, and what it returned
          attempt,      \* the attempt it is at: Retries + 1 - retryCount
          cancelled,    \* the cancel_flag
          try,          \* each attempt: its thread and curl handle
          frame,        \* the locals of Start, where every attempt has them
          conn,         \* the Connection
          debugFile,    \* vFp
          overrun       \* a thread was at work when its time was up

reqVars == <<caller, attempt, cancelled, try, frame, conn, debugFile, overrun>>

Attempts == 1 .. Retries

\* "OK" is a response that Execute accepts, "ERR" an error of curl or a status
\* other than 200 where that is not allowed.
Results == {"OK", "ERR", "TIMEDOUT", "LAST"}
Threads == {"none", "performing", "performed", "publishing", "notifying", "ended"}

ReqTypeOK ==
    /\ caller \in {"loop", "waiting", "judging", "true", "false", "crashed"}
    /\ attempt \in Attempts
    /\ cancelled \in BOOLEAN /\ overrun \in BOOLEAN
    /\ try \in [Attempts -> [thread : Threads, outcome : Results,
                             expired : BOOLEAN, open : BOOLEAN,
                             sent : Seq(1 .. BodyLen), received : 0 .. AnswerLen]]
    /\ frame \in [result : Results, strayed : BOOLEAN]
    /\ conn \in [result : Results, body : Seq(Attempts), readLength : 0 .. BodyLen,
                 alive : BOOLEAN, misused : BOOLEAN]
    /\ debugFile \in {"none", "open", "null", "closed"}

ReqInit ==
    /\ caller = "loop" /\ attempt = 1
    /\ cancelled = FALSE /\ overrun = FALSE
    /\ try = [n \in Attempts |->
                [thread |-> "none", outcome |-> "LAST", expired |-> FALSE,
                 open |-> TRUE, sent |-> <<>>, received |-> 0]]
    /\ frame = [result |-> "LAST", strayed |-> FALSE]
    /\ conn = [result |-> "LAST", body |-> <<>>, readLength |-> 0,
               alive |-> TRUE, misused |-> FALSE]
    /\ debugFile = "none"

-----------------------------------------------------------------------------
(***************************************************************************)
(* The caller.                                                             *)
(***************************************************************************)
UsesHandle(c) == [c EXCEPT !.misused = @ \/ ~try[attempt].open]

\* Mutant: the read position of the request body is not reset.
WillStartUnrewound(c) == [c EXCEPT !.result = "LAST", !.body = <<>>]

\* WillStart and ResetResponseStates.
WillStart(c) == [c EXCEPT !.readLength = 0, !.result = "LAST", !.body = <<>>]

\* The Connection is destroyed, its handle cleaned up, when Execute is over.
Return(v) ==
    /\ caller' = v
    /\ conn' = [UsesHandle(conn) EXCEPT !.alive = FALSE]
    /\ try' = [try EXCEPT ![attempt].open = FALSE]
    /\ UNCHANGED frame

\* The file for curl's log is made for the last attempt; it may fail.
CreateTempFile ==
    IF attempt = Retries THEN debugFile' \in {"open", "null"} ELSE UNCHANGED debugFile

CloseTempFile == debugFile' = IF debugFile = "open" THEN "closed" ELSE debugFile

Start ==
    /\ caller = "loop" /\ ~cancelled
    /\ CreateTempFile
    /\ conn' = WillStart(UsesHandle(conn))
    /\ try' = [try EXCEPT ![attempt].thread = "performing"]
    /\ frame' = [frame EXCEPT !.result = "LAST"]
    /\ caller' = "waiting"
    /\ UNCHANGED <<attempt, cancelled, overrun>>

\* The flag is looked at before Start and after it.
Abandon ==
    /\ caller \in {"loop", "judging"} /\ cancelled
    /\ Return("false")
    /\ IF caller = "loop" THEN CreateTempFile ELSE UNCHANGED debugFile
    /\ UNCHANGED <<attempt, cancelled, overrun>>

DidFinish(r) ==
    /\ conn' = [conn EXCEPT !.result = r]
    /\ caller' = "judging"
    /\ UNCHANGED <<attempt, cancelled, try, frame, debugFile, overrun>>

\* A notification that comes before the wait is lost, and the result is then
\* seen when the time is up.
Wake ==
    /\ caller = "waiting" /\ frame.result # "LAST"
    /\ DidFinish(frame.result)

\* Mutant: a wait without a time limit.
NeverTimedOut == FALSE

TimedOut == try[attempt].expired /\ frame.result = "LAST"

Timeout == caller = "waiting" /\ TimedOut /\ DidFinish("TIMEDOUT")

\* Mutant: a timeout is taken for an answer.
AcceptedLate == conn.result \in {"OK", "TIMEDOUT"}

Accepted == conn.result = "OK"

Succeed ==
    /\ caller = "judging" /\ ~cancelled /\ Accepted
    /\ Return("true") /\ CloseTempFile
    /\ UNCHANGED <<attempt, cancelled, overrun>>

\* Clone: the next attempt gets a duplicate of the handle, the old one is left.
Clone ==
    /\ caller = "judging" /\ ~cancelled /\ ~Accepted /\ attempt < Retries
    /\ conn' = UsesHandle(conn)
    /\ attempt' = attempt + 1 /\ caller' = "loop"
    /\ UNCHANGED <<cancelled, try, frame, debugFile, overrun>>

\* The log of the last attempt is read from a file that may not be there.
RunOut ==
    /\ caller = "judging" /\ ~cancelled /\ ~Accepted /\ attempt = Retries
    /\ Return(IF debugFile = "null" THEN "crashed" ELSE "false") /\ CloseTempFile
    /\ UNCHANGED <<attempt, cancelled, overrun>>

Cancel ==
    /\ ~cancelled /\ cancelled' = TRUE
    /\ UNCHANGED <<caller, attempt, try, frame, conn, debugFile, overrun>>

Execute == Start \/ Abandon \/ Wake \/ Timeout \/ Succeed \/ Clone \/ RunOut

-----------------------------------------------------------------------------
(***************************************************************************)
(* The thread of attempt n. Its callbacks work on the one Connection.      *)
(***************************************************************************)
Callers == <<caller, attempt, cancelled, debugFile>>
Others == <<Callers, frame>>
Transferring(n) == try[n].thread = "performing" /\ conn.alive

\* What threads do after something that is gone has been used is not followed.
Running == IF conn.misused THEN {} ELSE Attempts

\* Bound: two threads that move one read position could send for ever.
SentBound == BodyLen + 1

ReadBody(n) ==
    /\ Transferring(n) /\ try[n].received = 0 /\ conn.readLength < BodyLen
    /\ Len(try[n].sent) < SentBound
    /\ conn' = [conn EXCEPT !.readLength = @ + 1]
    /\ try' = [try EXCEPT ![n].sent = Append(@, conn.readLength + 1)]
    /\ UNCHANGED <<Others, overrun>>

\* curl goes back to the start of the body to send it again, after a redirect
\* or on another connection to the server.
SeekBody(n) ==
    /\ Transferring(n) /\ try[n].sent # <<>> /\ try[n].received = 0
    /\ conn' = [conn EXCEPT !.readLength = 0]
    /\ try' = [try EXCEPT ![n].sent = <<>>]
    /\ UNCHANGED <<Others, overrun>>

\* The body is sent when ReadBody has no more to give; then the answer comes.
WriteBody(n) ==
    /\ Transferring(n) /\ conn.readLength = BodyLen /\ try[n].received < AnswerLen
    /\ conn' = [conn EXCEPT !.body = Append(@, n)]
    /\ try' = [try EXCEPT ![n].received = @ + 1]
    /\ UNCHANGED <<Others, overrun>>

Performed(n, r) ==
    /\ Transferring(n)
    /\ try' = [try EXCEPT ![n].thread = "performed", ![n].outcome = r]
    /\ UNCHANGED <<Others, conn, overrun>>

\* An answer without a body comes when the request has been sent, too.
Answered(n) ==
    /\ try[n].received = AnswerLen
    /\ try[n].received = 0 => conn.readLength = BodyLen
    /\ Performed(n, "OK")

Broken(n) == Performed(n, "ERR")

\* A callback of the thread after the Connection is gone.
CallsFreed(n) ==
    /\ try[n].thread = "performing" /\ ~conn.alive
    /\ conn' = [conn EXCEPT !.misused = TRUE]
    /\ try' = [try EXCEPT ![n].thread = "ended"]
    /\ UNCHANGED <<Others, overrun>>

InTime(n) ==
    /\ try[n].thread = "performed" /\ ~try[n].expired
    /\ try' = [try EXCEPT ![n].thread = "publishing"]
    /\ UNCHANGED <<Others, conn, overrun>>

TooLate(n) ==
    /\ try[n].thread = "performed" /\ try[n].expired
    /\ conn' = [conn EXCEPT !.misused = @ \/ (~conn.alive /\ n = attempt)]
    /\ try' = [try EXCEPT ![n].thread = "ended", ![n].open = FALSE]
    /\ UNCHANGED <<Others, overrun>>

\* result = res. While its own Start waits, that is its result. Afterwards it is memory
\* of the caller that Start has left: another thing, or the result of the next Start,
\* whose frame is in the same place.
Publish(n) ==
    /\ try[n].thread = "publishing"
    /\ IF caller = "waiting" /\ attempt = n
       THEN frame' = [frame EXCEPT !.result = try[n].outcome]
       ELSE \E r \in {frame.result, try[n].outcome} :
               frame' = [result |-> r, strayed |-> TRUE]
    /\ try' = [try EXCEPT ![n].thread = "notifying"]
    /\ UNCHANGED <<Callers, conn, overrun>>

\* cv.notify_all(). The caller may have seen the result and left Start before: then it
\* is called on a condition variable that is gone, although nobody was late.
Notify(n) ==
    /\ try[n].thread = "notifying"
    /\ try' = [try EXCEPT ![n].thread = "ended"]
    /\ UNCHANGED <<Others, conn, overrun>>

Unpublished(n) == try[n].thread \in {"performing", "performed", "publishing"}

\* For a thread that has published its result it makes no difference.
TimePasses(n) ==
    /\ Unpublished(n) /\ ~try[n].expired
    /\ try' = [try EXCEPT ![n].expired = TRUE]
    /\ overrun' = TRUE
    /\ UNCHANGED <<Others, conn>>

ReqNext ==
    \/ Start \/ Abandon \/ Wake \/ Timeout \/ Succeed \/ Clone \/ RunOut \/ Cancel
    \/ \E n \in Running :
        \/ ReadBody(n) \/ SeekBody(n) \/ WriteBody(n)
        \/ Answered(n) \/ Broken(n) \/ CallsFreed(n)
        \/ InTime(n) \/ TooLate(n) \/ Publish(n) \/ Notify(n)
    \/ \E n \in Attempts : TimePasses(n)

\* The caller is scheduled and time passes. Nothing is asked of the network.
ReqFairness == WF_reqVars(Execute) /\ \A n \in Attempts : WF_reqVars(TimePasses(n))

ReqSpec == ReqInit /\ [][ReqNext]_reqVars /\ ReqFairness

-----------------------------------------------------------------------------
(***************************************************************************)
(* Properties.                                                             *)
(***************************************************************************)
Whole == [i \in 1 .. BodyLen |-> i]

\* Execute returns true for an answer of the attempt it is at, not for that of a thread
\* it stopped waiting for (Client.cpp:243-269 on top of connection.cpp:52-81), whatever
\* the threads of earlier attempts do to the Connection. The exception is a thread that
\* looked at the clock in time and wrote its result when Start had left: what Execute
\* then takes for its answer may be that of the thread.
OwnAnswer ==
    caller = "true" /\ ~frame.strayed =>
        try[attempt].outcome = "OK" /\ try[attempt].thread \in {"notifying", "ended"}

\* As long as no transfer outlasts its timeout, an accepted answer is the
\* whole answer to the whole request and of one attempt only, however many
\* attempts went before it; no callback finds its handle or its Connection gone
\* (response_body_ and request_body_read_length_ are shared by attempts), and no
\* result is written where Start has been. Of the condition variable that is not
\* so (Notify).
CleanAnswer ==
    ~overrun =>
        /\ ~conn.misused /\ ~frame.strayed
        /\ caller = "true" => /\ try[attempt].sent = Whole
                              /\ conn.body = [i \in 1 .. AnswerLen |-> attempt]

\* Execute returns, even if curl never does (the wait_for of connection.cpp:74).
ExecuteReturns == <>(caller \in {"true", "false", "crashed"})
=============================================================================
