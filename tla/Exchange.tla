------------------------------- MODULE Exchange -------------------------------
(***************************************************************************)
(* One public HTTP request through the tunnel: the server's handler        *)
(* (proxyTo) with its viewer, its disconnect watcher and its header timer, *)
(* and the client's handler (Forwarder.Serve) with the local service, at   *)
(* the two ends of one mux stream, which is MuxStream's, step for step.    *)
(*                                                                         *)
(* The request is the MaxWrites["server"] DATA frames it takes.  The first *)
(* DATA frame of the response carries its headers, the next one its body;  *)
(* how the body ends depends on its kind:                                  *)
(*   short    there is none beyond the headers (HEAD, writeRawError)       *)
(*   framed   after that frame: a Content-Length or a last chunk says so   *)
(*   close    where the stream ends                                        *)
(* A viewer that is there takes what is written to it.                     *)
(***************************************************************************)
EXTENDS MuxStream

CONSTANT Kinds  \* the kinds of response the local service may give (a bound)

S == 1  \* the one stream of this model
ASSUME OneStream == StreamId = {S}
ASSUME KindsAssumption == Kinds \subseteq {"short", "framed", "close"}
ASSUME RequestAssumption == MaxWrites["server"] > 0 /\ MaxWrites["client"] >= 2

VARIABLES
  viewer,    \* here, or gone: r.Context() is done
  h,         \* where proxyTo is
  watch,     \* context.AfterFunc(r.Context(), st.Abort)
  timer,     \* headerTimer
  answer,    \* the status the viewer gets: relay is the local service's
  complete,  \* proxyTo's variable of that name
  cl,        \* where Serve is
  ctx,       \* Serve's context is cancelled
  local,     \* the local request: idle, asked, answering, over
  kind       \* the kind of the response

srvVars == <<h, watch, timer, answer, complete>>
cliVars == <<cl, ctx, local, kind>>
exVars == <<viewer, srvVars, cliVars>>
allVars == <<vars, exVars>>

EXInit ==
  /\ Init
  /\ viewer = "here"
  /\ h = "open" /\ watch = "off" /\ timer = "off"
  /\ answer = "none" /\ complete = FALSE
  /\ cl = "none" /\ ctx = FALSE /\ local = "idle" /\ kind = "short"

Server == "server"
Client == "client"

\* The frames of a whole response; a close-delimited one may have fewer.
Frames(k) == IF k = "short" THEN 1 ELSE 2

\* The HTTP parser reports io.EOF although the stream goes on.
BodyOver == kind # "close" /\ Len(got[Server][S]) >= Frames(kind)

\* st.Abort(): sets out, or finds that somebody else did.
AbortCall == Abort(Server, S) \/ (reset[Server][S] /\ UNCHANGED vars)

\* A Write emits its one frame, or fails.
WriteEnds(p) == WriteFrame(p, S) /\ wpc'[p][S] = "idle"
Failed(p) == sent'[p][S] = sent[p][S]

-----------------------------------------------------------------------------
(* The server: proxyTo.                                                    *)

\* OpenStream, which the stream layer finishes ...
SrvOpen ==
  /\ h = "open"
  /\ OpenStream(Server)
  /\ h' = "opening"
  /\ UNCHANGED <<viewer, watch, timer, answer, complete, cliVars>>

\* ... and whose failure is a 502.
SrvOpened ==
  /\ h = "opening"
  /\ \/ ep[Server][S] = "live" /\ h' = "send" /\ UNCHANGED answer
     \/ ep[Server][S] = "failed" /\ h' = "done" /\ answer' = "502"
  /\ UNCHANGED <<vars, viewer, watch, timer, complete, cliVars>>

\* The buffered writer writes to the stream.  Nothing aborts the stream before the
\* request is sent, so Write lets it through.
SrvWrite ==
  /\ h = "send"
  /\ WriteLock(Server, S)
  /\ UNCHANGED <<h, viewer, watch, timer, answer, complete, cliVars>>

\* A Write returns; the request is sent, or there is more, or it failed.
SrvWritten ==
  /\ h = "send"
  /\ WriteEnds(Server)
  /\ h' = IF Failed(Server) THEN "fail"
          ELSE IF sent'[Server][S] = MaxWrites[Server] THEN "closew" ELSE "send"
  /\ UNCHANGED <<viewer, watch, timer, answer, complete, cliVars>>

\* An error: Abort, and an error page unless the viewer is gone.
SrvFail ==
  /\ \/ h = "fail" /\ Abort(Server, S) /\ h' = "failing" /\ UNCHANGED answer
     \/ /\ \/ h = "fail" /\ reset[Server][S]
           \/ h = "failing" /\ apc[Server][S] = "idle"
        /\ h' = "leave"
        /\ answer' = IF viewer = "here" THEN "502" ELSE "nobody"
        /\ UNCHANGED vars
  /\ UNCHANGED <<viewer, watch, timer, complete, cliVars>>

\* CloseWrite after the request.
SrvCloseWrite ==
  /\ \/ h = "closew" /\ CloseWrite(Server, S) /\ h' = "closing"
     \/ /\ \/ h = "closew" /\ ~MayWrite(Server, S)
           \/ h = "closing" /\ cpc[Server][S] = "idle"
        /\ h' = "arm"
        /\ UNCHANGED vars
  /\ UNCHANGED <<viewer, watch, timer, answer, complete, cliVars>>

\* The watcher and the timer start.
SrvArm ==
  /\ h = "arm"
  /\ h' = "read" /\ watch' = "armed" /\ timer' = "armed"
  /\ UNCHANGED <<vars, viewer, answer, complete, cliVars>>

\* ReadResponse gets the headers, or the stream ends first.
SrvReadResponse ==
  /\ h = "read"
  /\ \/ Read(Server, S) /\ h' = "headers"
     \/ ReadEnd(Server, S) /\ h' = "noHeaders"
  /\ UNCHANGED <<viewer, watch, timer, answer, complete, cliVars>>

\* Mutant: the result of headerTimer.Stop is ignored.
SrvStopTimerIgnored ==
  /\ h \in {"headers", "noHeaders"}
  /\ timer' = IF timer = "armed" THEN "stopped" ELSE timer
  /\ IF h = "headers" THEN h' = "relay" /\ answer' = "relay"
                      ELSE h' = "fail" /\ UNCHANGED answer
  /\ UNCHANGED <<vars, viewer, watch, complete, cliVars>>

\* headerTimer.Stop: if the timer has fired the answer is 504, whatever arrived.
SrvStopTimer ==
  /\ h \in {"headers", "noHeaders"}
  /\ IF timer = "armed"
     THEN /\ timer' = "stopped"
          /\ IF h = "headers" THEN h' = "relay" /\ answer' = "relay"
                              ELSE h' = "fail" /\ UNCHANGED answer
     ELSE /\ h' = IF h = "headers" THEN "drain" ELSE "leave"
          /\ answer' = "504"
          /\ UNCHANGED timer
  /\ UNCHANGED <<vars, viewer, watch, complete, cliVars>>

\* Mutant: any end of the stream counts as the end of the body.
SrvRelayAnyEnd ==
  /\ h = "relay"
  /\ \/ Read(Server, S) /\ UNCHANGED <<h, complete>>
     \/ (BodyOver \/ rres[Server][S] # "none") /\ UNCHANGED vars /\ complete' = TRUE /\ h' = "finish"
     \/ ReadEnd(Server, S) /\ complete' = TRUE /\ h' = "finish"
  /\ UNCHANGED <<viewer, watch, timer, answer, cliVars>>

\* The relay loop: the next part of the body, its end, or the end of the stream.
\* Writing to a viewer that is gone may fail, and ends the loop.
SrvRelay ==
  /\ h = "relay"
  /\ \/ /\ BodyOver
        /\ complete' = TRUE /\ h' = "finish"
        /\ UNCHANGED vars
     \/ /\ ~BodyOver
        /\ Read(Server, S)
        /\ \/ UNCHANGED h
           \/ viewer = "gone" /\ h' = "finish"
        /\ UNCHANGED complete
     \/ /\ ~BodyOver
        /\ ReadEnd(Server, S)
        /\ complete' = (kind = "close" /\ readErr[Server][S] = "EOF")
        /\ h' = "finish"
  /\ UNCHANGED <<viewer, watch, timer, answer, cliVars>>

\* The deferred function: Abort unless complete, then Body.Close.
SrvFinish ==
  /\ \/ h = "finish" /\ ~complete /\ Abort(Server, S) /\ h' = "aborting"
     \/ /\ \/ h = "finish" /\ (complete \/ reset[Server][S])
           \/ h = "aborting" /\ apc[Server][S] = "idle"
        /\ h' = "drain"
        /\ UNCHANGED vars
  /\ UNCHANGED <<viewer, watch, timer, answer, complete, cliVars>>

\* Body.Close reads on to the end of the body or of the stream.
SrvDrain ==
  /\ h = "drain"
  /\ \/ ~BodyOver /\ Read(Server, S) /\ UNCHANGED h
     \/ ~BodyOver /\ ReadEnd(Server, S) /\ h' = "leave"
     \/ (BodyOver \/ rres[Server][S] # "none") /\ h' = "leave" /\ UNCHANGED vars
  /\ UNCHANGED <<viewer, watch, timer, answer, complete, cliVars>>

\* stopWatch, and proxyTo returns.
SrvLeave ==
  /\ h = "leave"
  /\ h' = "done"
  /\ watch' = IF watch = "armed" THEN "stopped" ELSE watch
  /\ UNCHANGED <<vars, viewer, timer, answer, complete, cliVars>>

SrvStep ==
  \/ SrvOpen \/ SrvOpened \/ SrvWrite \/ SrvWritten \/ SrvFail \/ SrvCloseWrite \/ SrvArm
  \/ SrvReadResponse \/ SrvStopTimer \/ SrvRelay \/ SrvFinish \/ SrvDrain \/ SrvLeave

-----------------------------------------------------------------------------
(* What can happen to the handler meanwhile.                               *)

\* The viewer disconnects.
ViewerLeaves ==
  /\ viewer = "here" /\ h # "done"
  /\ viewer' = "gone"
  /\ UNCHANGED <<vars, srvVars, cliVars>>

\* The watcher is started by the end of r.Context(), in a goroutine of its own
\* that then calls Abort.
Watch ==
  /\ \/ watch = "armed" /\ viewer = "gone" /\ watch' = "fired" /\ UNCHANGED vars
     \/ watch = "fired" /\ AbortCall /\ watch' = "over"
  /\ UNCHANGED <<viewer, h, timer, answer, complete, cliVars>>

\* Mutant: the response-header timeout is switched off.
NoTimer == FALSE

\* The timer fires, in a goroutine of its own that then calls Abort.
Timer ==
  /\ \/ timer = "armed" /\ timer' = "fired" /\ UNCHANGED vars
     \/ timer = "fired" /\ AbortCall /\ timer' = "over"
  /\ UNCHANGED <<viewer, h, watch, answer, complete, cliVars>>

-----------------------------------------------------------------------------
(* The client: Forwarder.Serve.                                            *)

\* OnStream hands the stream to Serve.
CliStart ==
  /\ cl = "none" /\ ep[Client][S] = "live"
  /\ cl' = "request"
  /\ UNCHANGED <<vars, viewer, srvVars, ctx, local, kind>>

\* ReadRequest and the body; then RoundTrip asks the local service.  A stream
\* that ends first is answered with an error.
CliReadRequest ==
  /\ cl = "request"
  /\ \/ /\ Read(Client, S)
        /\ IF Len(got'[Client][S]) = MaxWrites[Server]
           THEN cl' = "local" /\ local' = "asked"
           ELSE UNCHANGED <<cl, local>>
     \/ ReadEnd(Client, S) /\ cl' = "raw" /\ UNCHANGED local
  /\ UNCHANGED <<viewer, srvVars, ctx, kind>>

\* Mutant: the stream's Aborted channel is not watched.
CtxNotCancelled == FALSE

\* The goroutine that waits for Aborted cancels the context.
CtxCancel ==
  /\ aborted[Client][S] /\ local \in {"asked", "answering"} /\ ~ctx
  /\ ctx' = TRUE
  /\ UNCHANGED <<vars, viewer, srvVars, cl, local, kind>>

\* The local service answers.
LocalAnswers ==
  /\ cl = "local"
  /\ kind' \in Kinds
  /\ cl' = "write" /\ local' = "answering"
  /\ UNCHANGED <<vars, viewer, srvVars, ctx>>

\* RoundTrip fails: nobody listens there, or the context is cancelled.
LocalFails ==
  /\ cl = "local"
  /\ cl' = "raw" /\ local' = "over" /\ kind' = "short"
  /\ UNCHANGED <<vars, viewer, srvVars, ctx>>

\* The local service ends a body that has no other end, or breaks off, or the
\* cancelled context does: resp.Write returns and the body is closed.
LocalEnds ==
  /\ cl = "write" /\ wpc[Client][S] = "idle" /\ sent[Client][S] > 0
  /\ cl' = "closew" /\ local' = "over"
  /\ UNCHANGED <<vars, viewer, srvVars, ctx, kind>>

\* resp.Write has something for the stream: the headers, a part of the body.
CliWrite ==
  /\ cl \in {"write", "raw"} /\ wpc[Client][S] = "idle"
  /\ \/ WriteLock(Client, S) /\ sent[Client][S] < Frames(kind) /\ UNCHANGED <<cl, local>>
     \/ ~MayWrite(Client, S) /\ cl' = "closew" /\ local' = "over" /\ UNCHANGED vars
  /\ UNCHANGED <<viewer, srvVars, ctx, kind>>

\* A Write returns; the response is written, or there is more, or it failed.
CliWritten ==
  /\ cl \in {"write", "raw"}
  /\ WriteEnds(Client)
  /\ IF Failed(Client) \/ (kind # "close" /\ sent'[Client][S] = Frames(kind))
     THEN cl' = "closew" /\ local' = "over"
     ELSE UNCHANGED <<cl, local>>
  /\ UNCHANGED <<viewer, srvVars, ctx, kind>>

\* Mutant: Serve does not close its half of the stream.
CliNoCloseWrite ==
  /\ cl = "closew"
  /\ cl' = "done"
  /\ UNCHANGED <<vars, viewer, srvVars, ctx, local, kind>>

\* The deferred CloseWrite.
CliCloseWrite ==
  /\ \/ cl = "closew" /\ CloseWrite(Client, S) /\ cl' = "closing"
     \/ /\ \/ cl = "closew" /\ ~MayWrite(Client, S)
           \/ cl = "closing" /\ cpc[Client][S] = "idle"
        /\ cl' = "done"
        /\ UNCHANGED vars
  /\ UNCHANGED <<viewer, srvVars, ctx, local, kind>>

\* The steps of Serve that wait for nobody but the stream.
CliStep == CliStart \/ CliReadRequest \/ CliWritten \/ CliCloseWrite

\* What a cancelled context or a dead stream makes Serve do.
CliGivesUp ==
  \/ ctx /\ (LocalFails \/ LocalEnds)
  \/ CliWrite /\ (cl = "raw" \/ sent[Client][S] = 0 \/ ~MayWrite(Client, S))

-----------------------------------------------------------------------------

\* What goes on in the stream and the session by itself.
StreamStep(p) ==
  /\ \/ LoopStep(p, S) \/ OpenFrame(p, S) \/ CloseFrame(p, S) \/ CloseRetire(p, S)
     \/ AbortFrame(p, S) \/ AbortFinish(p, S)
     \/ Shutdown(p) \/ ShutdownMark(p, S) \/ ShutdownEnd(p) \/ ReadFail(p)
  /\ UNCHANGED exVars

EXNext ==
  \/ SrvStep \/ ViewerLeaves \/ Watch \/ Timer
  \/ CliStep \/ CliWrite \/ CtxCancel \/ LocalAnswers \/ LocalFails \/ LocalEnds
  \/ \E p \in Side : StreamStep(p)

\* Goroutines run and the timer fires.  Nothing makes the local service answer,
\* or go on, or end; nothing makes the viewer leave or a session close.
EXFairness ==
  /\ WF_allVars(SrvStep) /\ WF_allVars(Watch) /\ WF_allVars(Timer)
  /\ WF_allVars(CliStep) /\ WF_allVars(CliGivesUp) /\ WF_allVars(CtxCancel)
  /\ \A p \in Side :
       /\ WF_allVars(LoopStep(p, S) /\ UNCHANGED exVars)
       /\ WF_allVars(ReadFail(p) /\ UNCHANGED exVars)
       /\ WF_allVars((OpenFrame(p, S) \/ CloseFrame(p, S) \/ CloseRetire(p, S)) /\ UNCHANGED exVars)
       /\ WF_allVars((AbortFrame(p, S) \/ AbortFinish(p, S)) /\ UNCHANGED exVars)
       /\ WF_allVars(rl[p].pc = "exit" /\ Shutdown(p) /\ UNCHANGED exVars)
       /\ WF_allVars((ShutdownMark(p, S) \/ ShutdownEnd(p)) /\ UNCHANGED exVars)

EXSpec == EXInit /\ [][EXNext]_allVars /\ EXFairness

-----------------------------------------------------------------------------

\* A response proxyTo counts as complete is whole: it has read every frame Serve
\* wrote, and, where the response says how long it is, every frame there is.
\* An abort, a dead session or a local service that breaks off never pass for
\* the end of such a body.
CompleteMeansWhole ==
  complete => /\ Len(got[Server][S]) = sent[Client][S]
              /\ kind # "close" => sent[Client][S] = Frames(kind)

\* The header timer never cuts a response the viewer is being sent: if it aborts
\* the stream the answer is a 504, although it may fire while headers arrive.
TimeoutIsAnswered504 == timer \in {"fired", "over"} => answer \in {"none", "504"}

\* "a public client that disconnects must end the request on the developer's
\* machine too" (proxyTo): wherever the exchange is, and even when the service
\* never answers or never stops, the local request is let go for good.
GoneFreesLocal == viewer = "gone" ~> [](local \notin {"asked", "answering"})

\* No viewer waits for ever: proxyTo gets past the headers although the local
\* service may never send any.
HeaderWaitEnds == h = "read" ~> h # "read"

\* Nothing is left behind: once both handlers have returned, both ends drop the
\* stream, or the session is gone.
ExchangeIsRetired ==
  h = "done" /\ cl = "done" ~>
    \/ \A p \in Side : S \notin registered[p]
    \/ \E p \in Side : closed[p]
=============================================================================
